# MeshQL in TLA+

MeshQL is a TypeScript monorepo: a query layer that turns a client's field
selection into a *join plan*, runs it through plugins and a resolver, and shapes
the rows into the selection. Around that core sit packages for HTTP transports,
signed requests and sessions, access rules and their cache, persisted queries,
pub/sub and server-sent events, uploads, database adapters and a client.

This directory holds TLA+ modules for the parts that have state, order or
arithmetic worth checking, the TLC instances that check them, and TLAPS proofs of
what matters most. All definitions are translated from the sources under
`packages/`; `PROJECT.json` gives the lines of each.

- [1. The system](#1-the-system): components, state, interaction, what is hard
- [2. The modules](#2-the-modules): correspondence with the code
- [3. The runs](#3-the-runs): what TLC checks, bounds, fairness
- [4. The proofs](#4-the-proofs)
- [5. Disagreements found](#5-disagreements-found)
- [6. Abstractions and what is not modelled](#6-abstractions-and-what-is-not-modelled)
- [7. Plan](#7-plan)

To run: `tlc -config PostgresPubSub.cfg MCPostgresPubSub`, `tlapm MeshExecuteProofs.tla`,
and so on; the module of every configuration is in the table of section 3.

## 1. The system

### Components

| component | state it keeps | operations | what makes it correct |
|---|---|---|---|
| **pubsub/memory** (`pubsub/src/memory.ts`) | Map channel → Set of handlers; the Set each handle closes over | `publish`, `subscribe`, `unsubscribe` | a handler that was not cancelled is reached; a cancelled one is not |
| **pubsub/postgres** (`postgres.ts`) | the same table, one pool client, its cached promise, the set `listened` | the same, `LISTEN`/`UNLISTEN`, `close` | the session listens on the channels with handlers; delivery at most once and in order |
| **pubsub/redis** (`redis.ts`) | the same table, two connections, the promise `ready`, the set `subscribed`; in node-redis, a record of listener closures per channel | the same, `SUBSCRIBE`/`UNSUBSCRIBE` behind `ready` | the same, and a kept subscription is served some time (which the code does not always do, section 5) |
| **sse** (`sse/src`) | per stream: subscription, heartbeat, snapshots running | `handleMeshSse`, `notifyEntityUpdate`, adapters for Express, Fastify, Hono | no notification swallowed, versions do not go back, nothing left behind |
| **core: pipeline** (`core/src/execute`, `plugin`) | per request: hook loop, plan, result; per plugin: its own | `runMeshExecute`, `executeUpload`, six kinds of hook | gates run before the resolver, errors are told, requests settle |
| **core: built-in plugins**, **access**, **integrity** (verdicts) | rateLimit: call counts per key and window | hooks | first `max` calls accepted; restrictions survive later plugins |
| **core: collection reads** (`core/src/query`, `planner`; `sqlite`, `postgres` builders) | none on the server; the cursor travels with the client | order, cursor predicate, LIMIT, cutting pages | a walk returns each row once and ends |
| **core: planner, field stripping, SQL from plans, shaper** | none; per request a plan, rows, an answer | plan joins and computed fields, remove denied fields, render a flat or nested statement, nest rows | the answer is the selected tree; denied fields are not in it; nothing else is fetched |
| **access-cache** | cached verdicts by principal and gate, in a Map or in Redis | wrap rules, invalidate a user, a role, everything | an outdated verdict does not outlive its TTL, nor an invalidation of its key |
| **integrity: tokens and sessions** | one record per session, in memory | issue, verify, revoke | a logged-out token stays out, the newest one is accepted |
| **persisted-queries** | registry identifier ↔ query, in memory; the client's cache | register, look up | an identifier leads to the query it was given to |
| **http** | per upload the parts that arrived | handlers for query, upload, registration, login, logout | each request gets one answer, and runs once at most |
| **client** | credentials, identifier cache; per call where it is | query, write, upload, login, retry on 401 | a call ends; credentials do not go back |
| **gateway**, **upload storage**, codemods, docs | little or none | translation and I/O | |

### Interaction

A transport decodes a request and calls `mesh.execute`. The pipeline runs every
`onRequest` hook (integrity verifies the token, rateLimit counts), parses and plans
the query, passes the plan through every `onPlan` hook (limits, access rules), calls
the resolver of the entity, passes the rows through `onResult` and the shaped
response through `onResponse`. A resolver renders the plan to SQL, runs it, and the
core cuts pages and makes cursors. An application that writes a record calls
`notifyEntityUpdate`, which publishes on the channels of the entity; each stream
of `handleMeshSse` subscribed to that channel re-runs its selection through
`mesh.execute` and writes what it got.

### What is hard

- A JavaScript callback runs to its end; between two `await`s everything else may
  happen. The pub/sub stores and the streams read state before an `await` and use it
  after.
- Two sides keep an order of their own: a pool client executes queries in the order they were
  issued, answers and notifications come back on one stream, and the store's
  own decisions are taken at other times.
- The Redis store keeps a set of channels beside node-redis' records of closures, and the two
  take an UNSUBSCRIBE into account at different times: when it is sent, and when it is answered.
- The handler table hands out closures over Set objects that the Map may no longer
  hold.
- A `return` of a promise from a `try` block does not wait for it.
- A client takes its credentials when a call begins and uses them after a round trip;
  overlapping calls authenticate each for itself, and the server keeps one record
  per session.
- A cached verdict is read, computed and written in three steps, with the change of a rule
  and invalidations after it, of several callers, anywhere in between.
- One answer is produced by a planner, a stripper, an SQL builder and a shaper that name
  the same column in four ways: by path, by table, by alias and by bare name; a name that
  is two of these at once is taken for the wrong one.
- A page is computed by four pieces of code (normalisation, SQL builder, shaper,
  result) that must agree on what a row, an order and a cursor are, while the table
  changes between two pages.

`PROJECT.json` lists the hazards at the line where each bites, with the properties
that watch it, or the reason why none does.

## 2. The modules

```
HandlerRegistry          the handler table of all three stores
  ├─ PostgresPubSub      ── implements PubSubContract until close()
  ├─ RedisPubSub         ── implements PubSubContract, but for messages given twice while an
  │                         UNSUBSCRIBE is on its way
  └─ MeshSse             the streams, over the table (the in-memory store)
PubSubContract           what a PubSubStore promises
MeshExecute              hook pipeline and plugins
CollectionPages          a walk over the pages of a collection
TokenStore               tokens, session records, verification
QueryRegistry            persisted queries and their identifiers
  └─ MeshHttp            clients, messages and server, over both stores
AccessCache              access rules behind their cache
ReadPlan                 a read tree, its plan, and what rules leave of it
  └─ ReadRequest         a request up to its resolver: planned, then stripped
       └─ ReadPipeline   ... and on to the answer, over a database
            └─ ReadAnswers    what that answer has to be
Queues                   what the stores' invariants say of queues of commands and messages
MC<module>               constants of the TLC instances
<module>Proofs           theorems and proofs; AccessProofs those of AccessCache and of the reads
StoreLemmas              lemmas on the table and the queues, used by the proofs of the stores
```

**HandlerRegistry** is the code the three stores share verbatim. The Set a channel
maps to is given an identity, the subscription that created it, because
`unsubscribe` works on the Set it captured and `publish` looks the channel up again.
`Register` and `Unregister` are the synchronous parts of `subscribe` and the
returned handle; stores EXTEND the module and add what they do after it.

**PubSubContract** is abstract: who is reachable, how many messages were published,
the last one each handler saw. A delivery hands a message to all registered
handlers, none of which has seen it or a later one.

**PostgresPubSub**: one action per piece of code between two awaits. `subscribe`
and `unsubscribe` register and, through `EnsureListen`/`EnsureUnlisten`, issue a
query or wait for the listener; `Connected`/`ConnectFails` settle
`listenerReady`; `Execute` is the server; `Answer` is the continuation that writes
`listened`; `Notification` the callback; `ConnectionLost` the `error` event that is
only logged; `close` hands the client back to the pool with its session and its
callbacks. `raced` is a history variable: the channels whose last subscribe or
unsubscribe overtook the opposite command.

**RedisPubSub**: the same over node-redis. Decisions are taken in callbacks queued
behind `ready` (`RunTask`), commands and replies have queues of their own;
`SubscribeFails` is a rejected SUBSCRIBE. node-redis is external and modelled by how the store
uses it: it keeps a record of closures per channel (`attached` counts them). `ClientSubscribe`
is its `subscribe(channel, closure)`: with no record it sends SUBSCRIBE, and the closure is added when the
reply comes; with one the closure is added at once and nothing is sent. `unsubscribe(channel)` without
a closure always sends UNSUBSCRIBE, leaves the record as it is, and the reply deletes it with all closures in
it (`Confirmed`). Every closure of the record calls all handlers, so that a message may come twice
(`Message`). History variables: `orphaned` are the channels whose SUBSCRIBE was rejected while
`subscribed` kept them, `crossed` those subscribed again while their UNSUBSCRIBE was on its way, `twice` the messages
a handler was given more than once.

**MeshSse**: `Connect` is `handleMeshSse`; `Notify` is `notifyEntityUpdate` through
`InMemoryPubSubStore.publish`; a notification starts a `pushSnapshot`, which reads
(`Read`) and writes (`PushUpdate`, `PushError`) at times of its own. The adapters
differ in what closes a stream: `ControllerClose` is the Hono adapter's
`controller.close()`. `AppSubscribe`/`AppUnsubscribe` are an application that keeps
handles and may call them more than once.

**MeshExecute**: a request is a record that moves through the hook loops; `at` is
the plugin whose hook runs next. `Pass`, `Restrict`, `ShortCircuit`, `Thrown` are what
a hook can do to it; the actions say which plugin may do which. The plan is the set
of restrictions on it, the response is where it came from.

**CollectionPages**: `FetchPage(n)` is a whole request: complete the order
(`appendIdTiebreaker`), cursor predicate (`Past`), ORDER BY and LIMIT over the joined
rows (`Limit`), grouping by root id (`Roots`), cutting the page (`FirstOf`),
next cursor (`Cursor`) and `hasNextPage`. `Change` is another client's write. Queries
range over order, direction, treatment of NULLs, selection, relation, dialect, and
whether values survive the driver and JSON.

**TokenStore** and **QueryRegistry** are the two in-memory stores of the server. In
TokenStore a key is the session and expiry it is derived from, so a signature
verifies when those are equal; `signingToken` is the server's choice of key (the
record's, or derived anew when there is none), `Verified` is `onRequest` of the
integrity plugin, `issueToken` and `revokeSession` write the record. `newest` and
`loggedOut` are history variables: what clients were told. In QueryRegistry a
digest is a sequence of bytes and an identifier a prefix of it; `createUniqueId` is
the shortest one no other content has.

**MeshHttp** composes them with the clients. A call (`client.query`, `write`,
`upload`, `login`, or a POST to `/logout`) is a record with a phase. `Make` is the
code up to the first await: it takes the credentials of the moment
(`resolveSignedHeaders`) and either sends or first registers the query.
`Register`, `Authenticate`, `handleLogout` and `Serve` (`handleGet`, `withAuth` of the
showcase, `handleUpload`) are the server's handlers; `Part` is one event of busboy
in `parseMultipart`; `Registered`, `Receive`, `LoggedIn` and `Retry` are the
continuations in the client. `Lose` is a rejected `fetch` or a failing route,
`Restart` a server that comes back with empty stores. As in the code: credentials are
taken before the registration is awaited (`client.ts:131`) and not read again; every
401 authenticates and starts over; identifiers are only resolved for GETs, so that
an upload (400) or a write (500) by identifier fails; a write is a 401 only if its token
expired and a 403 otherwise, so that it is not retried; the tabs of one
session supersede each other's record.

**AccessCache**: a request passes the configured gates one after the other.
`wrapSyncBooleanRule` is one step; the awaited rules are split into `ReadCache`,
`Evaluate` and `WriteCache`. With an asynchronous store (`remote`) synchronous rules do
not use the cache (the promise of their GET is dropped, `cache-wrapper.ts:54`), and
an invalidation is `FindKeys` (KEYS) and `DeleteFound` (DEL), either of which may fail.
Invalidations belong to `Callers`, each with one under way, so that those of two callers overlap in
every way.
`Change` is the application changing what a principal may do. `late` marks a verdict
that was evaluated before a change and written after it; `covered` the keys an
invalidation called after the last change has returned for. `invalidateUser(u)` covers the
contexts with that user and neither role nor tenant, as the prefix it computes does.

**ReadPlan** is the pure part of a read: which trees are accepted
(`normalizeReadTree`, `validateAst`), what is planned (`buildJoinPlan`: fields by
path or by the root's table, joins, computed fields with their dependencies, flat or
nested), and what `stripFieldsFromPlan` leaves under denied rules. `parseQualifiedPlanField` tells the
root's columns from a relation's by their prefix, and takes the root's table for a relation when it equals
the entity's key (`join-plan.ts:536`). **ReadRequest**
is the first half of a request: `Plan` makes the plan or rejects the query, `Strip` is `onPlan` of
the field rules. **ReadPipeline** goes on from there with a
database: `Prepare` is `Plan` or `Strip`, then `Resolve`, `Shape`. `Resolve` is the resolver of the root's
entity: a flat statement (LEFT JOINs bound as `rewriteJoinOn` binds them, its own table's name first,
then its ancestors' from the root down), a
nested one (correlated subqueries, per-parent `$where`, `$page`, `$groupBy`, SQLite's
`json_patch`), an aggregate, or an ORM's objects. `Shape` is the shaper: flat rows grouped by
id, nested rows, polymorphic relations, groups, or an ORM's objects as they are. A
computed value is the record of what it was computed from, so that a property can see
a value made from a denied field. Where the code calls itself for the relations below a record
(`renderRecordObject`, `toRelationNode`, `shapeRefRecord`, `shapeRecord`), the model has a function on
the paths of the tree, whose value at a path is made of those one level below
(`renderRecordObject[path]`, `shapeNested[path]`), which is what the proofs need. **ReadAnswers** says what is promised: `Tree` reads the
selection record by record from the database, without joins, aliases or grouping.

## 3. The runs

TLC explores each instance completely. "Violation" runs check one sentence that a
doc or comment states and the code does not keep; section 5 has them one by one.

| run | configuration, module | instance | shows |
|---|---|---|---|
| `pg_pubsub` | `PostgresPubSub.cfg`, MCPostgresPubSub | 3 subscriptions of one channel, 2 pool clients, 2 messages, 1 `close()` | table, `listened` against the session, contract |
| `redis_pubsub` | `RedisPubSub.cfg`, MCRedisPubSub | 3 subscriptions of one channel, 2 messages, 1 rejected SUBSCRIBE | which channels end up deaf, when messages come twice, refinement of the contract but for that, service of kept subscriptions |
| `mesh_sse` | `MeshSse.cfg`, MCMeshSse | an Express and a Hono stream, a handler of the application, 2 writes, 1 failing read per stream | answers to notifications, order of versions, clean-up, liveness |
| `mesh_execute` | `MeshExecute.cfg`, MCMeshExecute | one request, nine plugins, every kind once and fieldAccess twice | gates, error notification, whole answers, settling |

| `collection_pages` | `CollectionPages.cfg`, MCCollectionPages | 3 rows, 2 key values and NULL, pages of 1 and 2, 1 change, the 35 queries of `AllQueries` | no row twice, none missed, the end is reached |
| `mesh_http` | `MeshHttp.cfg`, MCMeshHttp | two clients of one session (one with persisted queries, one created with an old token), 2 calls, 5 contents with digests that share first bytes, 2 clock ticks, 1 restart | which tokens hold, which query runs, settling |
| `access_cache` | `AccessCache.cfg`, MCAccessCache | 2 requests of a user or a role through entity, dynamic and row gates, 2 callers, TTL 1, 1 change, 2 invalidations, both stores | freshness of verdicts |
| `mesh_read` | `ReadAnswers.cfg`, MCReadAnswers | 21 read trees over posts, users, comments and series of posts, as list and as point read, with every control at every path; 14 sets of rules; 3 databases; 3 registrations of resolvers | the answer against the tree; denied fields |
| `deaf_subscriber` | `DeafSubscriber.cfg`, MCPostgresPubSub | 2 subscriptions, 1 client | violation |
| `hono_stream` | `HonoStream.cfg`, MCMeshSse | as `mesh_sse`, no failing reads | violation |
| `documented_walk` | `DocumentedWalk.cfg`, MCCollectionPages | the query of `docs/client.md` | violation |
| `denied_computed` | `DeniedComputed.cfg`, MCReadAnswers | a post's label and its author's shout, two computed fields, under each set of rules | violation |

### The properties

*pub/sub.* `LiveIsReachable`: through any sequence of subscribes and unsubscribes the
live handlers are the ones found. `ListenedMirrorsSession`: although `listened` is
written only when answers arrive, it equals what the session listens on once they
have. `SettledUnlessRaced` says which interleavings lose a channel: exactly a
subscribe that finds an UNLISTEN in flight, or an unsubscribe that finds a LISTEN in
flight. `ContractUntilClose` and `ImplementsContract`: at most once, in order, only
while registered. For Redis, `SettledUnlessLost` is the counterpart: decisions are recorded before
the await, so no order of callbacks and commands loses a channel by itself; but a subscribe before the
reply to an UNSUBSCRIBE joins a record that the reply deletes, and the channel is deaf for as long as it has
handlers, as it is after a rejected SUBSCRIBE. The property says that these channels are lost for certain, and no others.
`OneClosureUnlessUnsubscribing`: two closures, and with them double delivery, only while such a reply is
due. `ContractUnlessCrossed`: the contract of PubSubContract, but for that double delivery.
`KeptSubscriptionIsServed` is the liveness of a subscription made at any time, also
before the connection is up, on a channel that was not crossed, while nothing was rejected.

*sse.* `ReachableUnlessStrayed`, with handles that are used twice;
`NotificationsAnswered`: a notification during a running snapshot is not
swallowed; `ForwardUnlessCrossed`: versions go back only if two snapshots of the
stream overlapped; `LeaversAreUnregistered`; `WritesAreTold` (liveness).

*pipeline.* `ResolverRunsBehindEveryGate`, `AnswersAreWholeOrSubstituted`,
`ErrorsToldUnlessShaping`, `RequestsSettle` (liveness).
`FirstMaxCallsAccepted`, which needs several requests to mean something, is proved and not run.

*pages.* `NeverTwice`: no unchanged row is returned twice while others come and go, if
all columns of the order have one direction and the cursor's values are not rounded.
`StableRowsReturned`: at the end every row that stayed was returned, but for rows a
NULL kept out, if in addition the ordering columns are selected and no plain `many`
relation multiplies the rows. `WalkEnds`: a client that keeps asking gets to the end.
The conditions are the finding: without `Uniform`, for example with the
appended ascending id under a descending key, rows of equal keys are returned
again or skipped, since the row comparison has a single operator
(`cursor-sql.ts`; the builders' tests expect that text).

*http.* `LoggedOutStaysOut`: a token that was logged out is not accepted again while the
server runs, also after the session was logged in anew (the new record replaces the
revoked one, and it is its expiry that keeps the old token out).
`NewestTokensAccepted`: nothing but expiry or a logout takes the newest token of a
session away, not a restart either, because its key can be derived.
`ExecutesTheAskedQuery`: the content that runs is the one the caller wrote, through
registrations in any order and stale client caches; the exception is a restart, after
which an identifier may be given to another content with the same first bytes.
`RunsOnce`: retries never run a call twice. `AuthForwardUnlessCrossed`: a client's
credentials go back only if two of its authentications overlapped. `CallsSettle`
(liveness). `HttpTypeOK` holds an obligation of its own: that `createUniqueId` always finds
an identifier.

*cache.* `StaleAtMostTTL` and `InvalidatedIsFresh`: a verdict that has become wrong is gone
after `ttlSeconds`, and at once after an invalidation of its key returned, for both stores and
however invalidations overlap, unless it was written late. The exception is the point: a rule that was asked before
the change and answers after the invalidation puts its answer into the cache for a whole TTL.

*reads.* `AnswerIsTheTree`: the answer is the selected tree, except in the cases that
`AsAsked` names, each with an operator of its own:

| case | code | what happens |
|---|---|---|
| `ManyUnderOne` | `shaper.ts:243` | a relation of one shapes its first joined row; lists below it keep one record |
| `BoundElsewhere` | `sql-from-plan.ts:110` | an ON clause that names a table met twice is bound to the shallower alias (`:116`); in a relation of a table to itself both sides of the clause become the joined row's (`:114`) |
| `FoundElsewhere` | `shaper.ts:30` | a missing column is looked up under its relation's bare name, which another path has, or a relation called like the root |
| `IdStripped` | `shaper.ts:165`, `234`, `350` | without its id, joined rows of a record are not grouped |
| `NamedByTable` | `shaper.ts:258` | a query that names the root by table or plural is shaped from columns named after the entity |
| `StrippedInPassing` | `strip-fields.ts:60`, `:108` | a dependency goes with a denied computed field although something else needs it; a rule like `post.user.shout`, normalized to the same `user.shout`, strips the computed field of every user |
| `ComputedOfMany` | `validate-computed.ts:57`, `nested.ts:26` | a dependency through a relation of many is accepted; nested shaping finds no field in the list, flat shaping takes some row's |
| `ComputedRevived` | `nested.ts:52`, `apply.ts:105` | nested and ORM shaping compute by the schema, so a denied computed field comes back |
| `NullDropped` | `sql-nested.ts:174` | SQLite's `json_patch` drops nulls of objects with more than 50 pairs |
| `ControlIgnored` | `docs/sql-integration.md` | ORM adapters do not apply per-parent controls, as documented |
| `RootDropped` | `join-plan.ts:536` | of an entity whose key is its table, nested statements and ORM trees lose the root's columns |
| `MissingIsEmpty` | `shaper.ts:328` | a point read without a row, or without an ORM's object, answers `{}` instead of null |
| `LeftOver` | `apply.ts:183` | an ORM's answer keeps relations only a denied computed field needed |

`DeniedIsAbsent`: no record of an answer that is not a root aggregate has a value for a denied field, with two
exceptions, which are reachable: a flat read may find the field under another path's alias (`FoundElsewhere`), and
the shaping of objects computes a denied computed field anew (`ComputedRevived`). The documentation excepts neither, and
`DeniedFieldIsAbsent`, which has no exception, is what `denied_computed` violates. `FetchedIsNeeded`: whatever was
denied, neither it nor anything that only it needed is fetched, and no computed field that is left
is denied.

### Bounds and why they are enough

Bounds are constants named in the modules (`MaxMsgs`, `MaxCloses`, `MaxFailures`,
`MaxWrites`, `MaxErrors`, `MaxChanges`, `MaxKids`). Channels do not share state, so
the stores are checked on one; three subscriptions allow one that leaves, one that
takes over the Set and one that meets the wreckage; two messages are needed for an
order, two clients for a `close()` that returns one and connects another. Two writes
make two overlapping snapshots. In `mesh_execute`, one request suffices because the only
state requests share is the rate counter, which the proofs cover (`FirstCallsAccepted`), for any number of requests. Three rows with two keys allow ties on either side of
a page boundary; one change during the walk re-keys, inserts or deletes at any time.
In `mesh_http` two overlapping calls (`Calls`, `MaxMade`) are what credentials that cross,
a registration that overlaps another and a logout under a running call need, since a
call may authenticate and retry any number of times; digests of two bytes with
identifiers of one give one collision that is resolved; `MaxNow` 2 and `TTL` 1 let a token be
issued, superseded and expire; one restart can fall anywhere. The proofs cover any
number of calls, sessions, restarts and digests. In `access_cache` one change and an invalidation
after it are what freshness is about, a second one of another caller overlaps it, and two requests are needed
so that one caches what another asked earlier; with TTL 1 and one tick each entry expires within the run.
Requests and callers are symmetric: the code looks at no name of theirs, and the run has safety properties only. In `mesh_read` the trees were chosen so that each rule of the planner
and each case of the table above occurs: lists in lists, one under many, many under one, a
relation through a join table, a polymorphic one, the same table twice on a path,
computed fields with own and related dependencies; the databases have shared, missing and
dangling references; `MaxJsonPairs` is 2 instead of 50.

### Fairness

- Redis: `Connected`, `RunTask`, `Execute`, `Confirmed`, `Message` are weakly fair: the
  event loop runs queued callbacks and a healthy connection makes progress.
  `SubscribeFails` is not fair: nothing has to fail. Callers owe nothing.
- Streams: `Read`, `PushUpdate` (a started promise settles), `Notify` (the application
  awaits `notifyEntityUpdate` after its write), `ControllerClose` (the statement after
  the awaited handler).
- Pipeline: each started request's next step; hooks and resolvers are taken to settle,
  which is the application's obligation.
- Pages: the client goes on asking. The sizes it asks for are up to it.
- HTTP: for each call, the server serves what it was sent and the client's promises are
  resumed (`HttpFairness`). Nothing makes a client begin a call, a message get lost, the
  server restart or the clock go on. The retry loop has no bound of its own
  (`client.ts:219`): that calls settle rests on the fact that a fresh token meets a 401 only
  if the session is logged out or superseded, or the token expires, in between, which the bounded
  calls and clock let happen only finitely often.
- PostgreSQL, cache, reads: none; their properties are safety properties.

`CHECK_DEADLOCK FALSE` in the configurations: these systems may stop, when all
bounded actions are used up and nobody asks for anything.

## 4. The proofs

For every value of the constants, under the modules' `ASSUME`s, which say no more
than the types of the constants, that Null, Absent, NoSet, NoClient and None are none of
the values, that different contents have different digests, that the schema passes
the library's own validation, and that names in queries and rules are strings.

| theorem | module | says |
|---|---|---|
| `PipelineInvariant`, `ResolverIsGated`, `ErrorsAreTold`, `AnswersAreWhole`, `FirstCallsAccepted` | MeshExecuteProofs | the invariant, the three safety properties of the run, and that a rateLimit plugin accepts the first `max` calls of a key in a window; for any list of plugins and any set of requests |
| `PgInvariant`, `PgTyped`, `ListenedIsMirrored`, `SettledIsRight`, `LiveStayReachable`, `PgImplementsContract` | PostgresPubSubProofs | the PostgreSQL store's invariant, the four invariants of the run, and that the store refines PubSubContract until `close()` |
| `RedisInvariant`, `RedisSettlesRight`, `RedisListensOnce`, `RedisReachesTheLive`, `RedisImplementsContract` | RedisPubSubProofs | the same for the Redis store over node-redis' records: which channels are lost, when there are two closures, and the refinement but for messages given twice |
| `SseInvariant`, `SseTyped`, `SseReachesTheLive`, `SseAnswersNotifications`, `SseGoesForward`, `SseForgetsLeavers` | MeshSseProofs | the streams' invariant and the five invariants of the run, for any number of streams, handles used any number of times, and writes |
| `WalkInvariant`, `RowsAtMostOnce`, `RowsAtLeastOnce` | CollectionPagesProofs | the invariant of a walk and its two safety properties, for any rows, queries, page sizes and changes |
| `HttpInvariant`, `HttpTyped`, `HttpLoggedOutStaysOut`, `HttpNewestTokensAccepted`, `HttpExecutesTheAskedQuery`, `HttpRunsOnce`, `HttpAuthGoesForward` | MeshHttpProofs | the invariant, the five invariants and the action property of the run, for any clients, calls, sessions, contents and digests |
| `CacheInvariant`, `CacheTyped`, `CacheStaleAtMostTTL`, `CacheInvalidatedIsFresh` | AccessProofs | the access cache's invariant and the three of the run |
| `RequestInvariant`, `FetchedStaysNeeded`, `StrippedIsNeeded`, `RulesOnlyTakeAway` | AccessProofs | for any schema, queries and rules: what a request fetches is needed and no rule covers it; more rules never leave more |
| `ReadStaysNeeded`, `ReadInvariant`, `DeniedStaysAbsent` | AccessProofs | for any schema, database and registry of resolvers in addition: what the pipeline fetches by is needed and allowed; and a record of an answer has a value for a denied field only in the two cases that `DeniedIsAbsent` excepts, at whatever depth |
| `ObjectReadsAreTheTree` | AccessProofs | `AnswerIsTheTree` of every read but the flat ones: nested statements, ORMs and groupings answer with the selected tree, unless `AsAsked` names the read: a relation of a table to itself, a root whose key is its table, an ORM's missing point read and the others of section 3 |

**Handler table** (`RegistryInv` = `HandlesInv` and `OneSet` of every channel). That live
handlers are reachable is not inductive: one has to know that a Set outside the Map is empty.
`HandlesInv` says that a handler is in a Set exactly while it is live and its handle closes over that
Set, and that Sets in the Map are not empty; it holds whatever callers do. `OneSet(c)`, that
all live handles of `c` close over the Set the Map holds, needs that each handle is used
once, which the stores' models assume (`s \in live` in `unsubscribe`). With repeated use it is
false, and the streams' invariant has it for the channels that are not `strayed`.

**Redis and PostgreSQL** (`RedisInv`, `PgInv`). Each store is a chain of copies of one fact, with a
queue between any two: the table decides, callbacks or queries carry the decision to the
store's own set and to the server's session, and answers carry it back. The invariants say of
each link that working off its queue turns the one end into the other. `EndsOff(Q, start, stop, on)`
(Queues) is "when Q is worked off, the channel is off"; `StartsOnce` adds that nothing is switched on
that is on. For Redis: `TasksMakeSubscribed` (table to `subscribed`), `CommandsMakeSession`
(`subscribed` to session; what was crossed is off when the commands are done, although it is in `subscribed`:
`CrossedAreSubscribed`), `RepliesMakeAttached` (session to the channels that have a record). The number of closures
needs one fact more, `OneClosureUnlessUnsubscribing`: a second one is only ever added in front of an UNSUBSCRIBE reply. For PostgreSQL:
`QueriesMakeSession` (table to session, through `waiting` or the client's queue, for channels that
did not race) and `AnswersMakeListened` (session to `listened`, which is why the copy is right
although it is written after an await). When the queues are empty the ends are equal: `Settled...`,
`ListenedMirrorsSession`. StoreLemmas proves what appending to and taking from a queue does to
these formulas, once for both. For the contract, `Pending` says that messages on their way are in
order of publishing, have been published, and are newer than what live handlers of their
channel saw, and `SeenPublished` that a handler not registered yet has seen nothing. PostgreSQL's
`ListenerInv` holds until `close()` only, as `closes = 0` in the properties says; the table and the types
survive it.

**Streams** (`SseInv`). `Answering`: a notification that was not answered has a snapshot under way
that has not read yet, or has read something as new. `OneAtATime`: a stream whose snapshots never
overlapped has one at most, and what that one read is as new as all it wrote. `Versions`: versions,
announcements still due and announcements made agree, so that nothing read is newer than the
record. `StreamHandlers`: a stream's handler is live exactly from its handshake until its client
leaves, also when the table was torn by a handle used twice.

**Pipeline** (`ExecInv`). `WellPlaced` relates the stage a request is in to the hooks that
have returned: a forward loop has passed all plugins before `at`, a backward loop all
after it (`LoopProgress`); before the resolver no restriction has been lost
(`BeforeResolver`), behind it the gates are passed (`BehindGates`); what an answer implies
(`Answering`) and where an error may come from (`ErrorsPending`). Each transition of a
request record has a lemma; `StepKeeps` has a step per action.

**Pages** (`PagesInv`). Two halves: what was returned is not past the cursor
(`VisitedBehind`, gives at most once), and what stayed and was not returned is past it
(`RemainingAhead`, gives at least once). The proof rests on lemmas about the two orders:
with one direction and no NULL in the way, `Past` agrees with `Before`
(`PastComesAfter`, `AfterIsPast`), both are transitive, `Before` is total, and a page is
a prefix of the rows past the cursor (`PageFacts`).

**HTTP** (`HttpInv`). Three parts that are inductive only together with the calls. *Tokens*:
a logged-out token's session has a record, which is revoked or of another expiry (`OutOfUse`);
the record of a session's newest token is that token's, unless a restart forgot it
(`InUse`). *Registry*: an identifier is held by a content it is a prefix of (`HeldByItsOwn`), so
a whole digest is always free for its own content and the loop of `createUniqueId` ends
(`WholeDigestAllocatable`, `CreatedId`, from the well-foundedness of the naturals). *Calls and
clients*: an identifier in a client's cache or in a request was given to that content and,
while the server has not restarted, still is (`GivenTo`); a call that ran has been
answered with 200 (`CallOK`), which is what makes it run once. `DecodedAsked` turns
that into the content that is run. One lemma per action. *Credentials* (`CredentialsInv`, for the action
property): tokens last until `now + TTL` at most, and what an uncrossed login is about to set lasts
as long as what the client has, since the server issued it later. The theorem supposes that the
tokens a client is created with were issued earlier by a server of the same `tokenTTL`
(`OptionAuthLasts`; the run's instance has one such client).

**Cache** (`CacheInv`). What is false in the cache was written before the change, hence
expires by `changedAt + TTL` (`OutdatedInTime`); what an invalidation under way covers is
fresh, or among the keys it found and will delete (`InvalidationCovers`, for each caller), which is why
reads, writes and other invalidations between KEYS and DEL do no harm; an answer on its way to the cache is
what the rule says now, or marked as changed (`AnsweredFresh`).

**Plans** (`PlanInv`). A request's plan is the one its query makes or what stripping it once left, and
the query is legal. From there the argument is about the operators. `StrippedIsNeeded`: a field of a
plan is selected, an id, or a dependency of a planned computed field; one that only denied computed
fields needed is in `depDenied`, unless an entry of the same path that stays needs it. What remains is
that *rules*, which name places in the schema (`Covers`), and *stripping*, which compares
names in the plan (`fieldMatchesDenied`), mean the same: every field of a plan is a column of the
root's table or of one of its joins (`PlannedColumns`); a rule that covers a column below a join
matches its path and name (`CoveredIsMatched`), and one that covers a column of the root, or a
computed field of any entity, matches it under the table's name (`CoveredOfTable`).

**Reads** (`ReadInv`). A step of a read plans, strips, or leaves plan and rules alone
(`ReadStepIsRequestStep`), so it keeps `PlanInv`, from which `FetchedIsNeeded` follows in any state (`RequestIsNeeded`). For `DeniedIsAbsent` the invariant says what a fetched result
may know, `OfPlan`, and the argument has two branches.
*Flat rows* have only names the plan knows (`RowsOfPlan`: aliases of its columns, of its computed
fields, of polymorphic entities; `SelectedRows`, `ComputedRows`). The names under which the shaper looks for a
field end in that field's name (`KeyNames`), so the first that a row knows belongs to a column of that name at
some path; but for `FoundElsewhere` it is this path, and there the plan has no denied column
(`DeniedIsNoColumn`, from `FetchedIsNeeded`), hence `DeniedIsUnread`.
*Objects* of a nested statement or an ORM belong to a `Family`: sets, one per path, of objects whose
names are columns and relations of that path, with objects of the paths below in those. What the
resolvers make is such a family, `json_patch` included (`FetchedIsNested`), a denied field is no name of it
(`DeniedIsNoName`), and shaping takes each record of the answer from an object of its path
(`ShapedWalk`); a computed field is there only if the plan has it, but for `ComputedRevived`.
Functions on paths are recursive, and what they are for an arbitrary tree is not given by their definition
alone: a tree is finite, hence has a deepest level (`BoundedTree`), and `LevelByLevel` gets from
each level to the next; with it `RecordsStep`, `FlatStep`, `RenderedStep`, `RelationStep`, `ObjectsStep`, `ShapedStep`
and `ReturnedStep` show that each function satisfies its equation. Since fetching and shaping leave plan, rules and
registry alone, what was shown of the data when it was fetched still holds when it is shaped (the `Still...` lemmas).

**Trees** (`ObjectInv`). What is answered is what shaping makes now of what would be fetched now, since no step after
the fetch changes what either depends on (`StillFetched`, `StillAnswered`); so the theorem is about
operators in one state. `ObjectRead` is a read of objects to which `AsAsked` leaves no exception.
*Fetching*: every object that is made for a row at a path (`MadeOf`) tells of that row (`Tells`): its columns are the
row's, and each relation has one object for each row that it leads to (`IsRelation`), since a subquery is
bound to the parent (`RenderedTells`, `RelatedTells`). *Selection*: what the plan knows at a path is what was asked, less
what rules deny (`NeededColumn`, `SelectedColumn`, `ReturnedNames`), also for the dependencies of a computed field
(`DependencyPlace`, `ToldDependency`). *Shaping*: an object that tells of a row is shaped into the tree of
that row, if the objects in its relations are (`ShapedIsTree`); `ShapedAreTrees` goes up from the deepest level.
Both ways of shaping are covered, `shapeNested` and the objects of an ORM left as they are. The hypotheses
`NoObject(Null)` and `NoObject(Undefined)` say that JavaScript's null and undefined are no
objects, which TLC cannot evaluate and its model values satisfy.
A record of a relation has the columns of the plan at its path because a field joined to a path is told from the
root's (`FieldsJoined`); the root's own need that its key is not its table (`RootDropped`).
The attempt showed two cases that `AsAsked` has to leave out, and TLC had not met: a rule whose path ends in an entity's
name, and a computed field of a list (`StrippedInPassing`, `ComputedOfMany`).

The reads' assumptions are the schema's and the parser's: the paths of a tree are finitely many sequences of
names, with the root and each path's front; `$entity` is never selected, since `parse.ts` takes no field
that begins with `$`; a relation is not called like a field of its entity or like its table
(ReadPlan's comment says that this is the application's part); a registry comes from finitely many `resolve` calls,
one catch-all at most; the key of a grouping is not called like its aggregate (`normalize.ts:155`).

Only model-checked: the liveness properties (`KeptSubscriptionIsServed`, `WritesAreTold`,
`RequestsSettle`, `WalkEnds`, `CallsSettle`), which the prover does not do; and `AnswerIsTheTree` of flat reads,
whose proof would have to follow every record through join order, aliases and grouping. Every other property of a
passing run is stated by a theorem. Only proved, as it takes more requests than the run has: `FirstMaxCallsAccepted`.

## 5. Disagreements found

With a run that shows the counterexample:

1. `postgres.ts:96`: a subscribe during an UNLISTEN is never listened for
   (`deaf_subscriber`).
2. `adapters/hono.ts:61`: the stream is closed after the handshake while subscription
   and heartbeat stay (`hono_stream`).
3. `read-cursor.ts:108`: a cursor is read from the shaped row; ordering by a column that is
   not selected, as `docs/client.md` does, ends the walk after a page
   (`documented_walk`).
4. `apply.ts:105` and `nested.ts:52`: shaping of objects computes every selected computed field the schema has, not
   those the stripped plan has left, so that a denied one is in the answer, although "Denied fields
   are stripped" (`docs/threat-model.md:70`) and "Computed fields participate in field access rules using their normal path"
   (`docs/computed-fields.md:134`) (`denied_computed`).

In the model, and excepted by name in the properties of the passing runs, which hold of everything else; each is reachable:

5. `redis.ts:93`: a subscribe before the reply to an UNSUBSCRIBE joins a listener record that the reply deletes. Its
   channel is deaf, stays in `subscribed`, and no later subscriber asks for it (`crossed` in `SettledUnlessLost`).
   `store.ts:4` calls a message an "Event delivered to subscribers."
6. `run.ts:226`: `return shapeResponse(...)` is not awaited; errors of shaping and of
   `onResponse` meet no `onError` hook, although `runner.ts:18` says that all plugins are
   notified (`ErrorsToldUnlessShaping`).
7. `logger.ts:25`: the logger's `onResponse` returns nothing, and that becomes the
   response (`OnResponse` of MeshExecute has it).
8. `sqlite/src/builder.ts:186` (and its PostgreSQL twin): LIMIT counts joined rows, and
   the specification (`specs/05-read-controls.md:136`) says that it counts root rows
   (the condition `CountsRoots` of `StableRowsReturned`).
9. `cursor-sql.ts:57`: one operator for the whole tuple, although the id that is appended to a descending key
   is ascending (`normalize.ts:95`); `cursor-sql.ts:21` calls it a "lexicographic keyset cursor predicate for normalized
   order keys" (the condition `Uniform` of `NeverTwice` and `StableRowsReturned`).
10. `access-cache/src/keys.ts:39`: `invalidateUser` is to "Drop cached permissions for a user
   ID." (`invalidation.ts:10`), and drops those of contexts without role and tenant
   (`userInvalidationPrefix`).
11. `strip-fields.ts:112`: "A dependency explicitly selected by the client remains subject to
   its own access rule" (`docs/computed-fields.md:136`), that is, it goes only if that rule
   denies it; `requestedDeps` knows only names of the same node, so a selected `join.field` goes with
   the denied computed field that depends on it (`StrippedInPassing`).
12. `shaper.ts:30`: a denied column is looked up under its relation's bare name next, and answered with what another
   path's column of that name has, against the sentences of item 4 (`FoundElsewhere`).
13. `sql-from-plan.ts:114` and `:116`: `rewriteJoinOn` is to "Rewrite a schema ON clause to use SQL aliases for parent
   joins and self" (`:103`). In a relation of a table to itself both sides become the joined row's, and below a table
   met twice on a path the clause names the first of them (`BoundElsewhere`).
14. `join-plan.ts:536`: nested statements and ORM trees lose the root's columns when the entity's key is its table, while
   `plan-relations.ts:25` says that the tree has the "Root scalar fields" (`RootDropped`).
15. `shaper.ts:328`: a point read without a record answers `{}`, and "Point reads return an object or `null`"
   (`specs/05-read-controls.md:135`) (`MissingIsEmpty`).
16. `shaper.ts:243`: a list below a relation of one keeps one record, and `specs/04-shaper.md:39` groups the children of
   every `many` join (`ManyUnderOne`).

No doc contradicts the other cases of `AsAsked` in section 3;
`createAuthClient`'s `onTokenExpired`, which always throws; persisted queries, which uploads and writes
cannot use; `parseMultipart`, which never settles when its source stream aborts
(`multipart.ts:131`); a rejected connect or SUBSCRIBE that is never tried again; the
handle used twice that deletes a later Set; a pool client that after `close()` calls each
handler twice.

## 6. Abstractions and what is not modelled

- Stores: a handler is the `subscribe` call that passed it (all callers pass fresh
  closures); in the PostgreSQL and Redis modules a handle is used once (MeshSse has
  repeated use). Channels, payloads and their JSON are not looked into. Redis:
  `close()` and the library's reconnect are left out, and connecting succeeds some time (the library retries it);
  node-redis is a library, and its listener records are modelled as far as the store uses them. A rejection nobody handles does not end the process here.
- Streams: a record is its version; heartbeats are writes without data and only matter
  when they throw.
- Pipeline: what a query says is left out; a limit is its verdict; rules of the access
  plugins may answer anything; a custom plugin may do what hooks may, but keeps the
  plan it was handed. What a
  hook of the application throws is an error like others: that an `onResult` or `onResponse` hook throws an
  IntegrityError, whose 401 makes the client send again a call that has run, is left out of MeshHttp. Which fields a rule removes is ReadPlan's.
- Pages: rows that `$where` rejects do not exist; one ordering column and the id; the
  children of a row do not change during a walk and a record cut in the middle of its
  children counts as returned (children are not looked at); point reads and root
  aggregates have no pages; a cursor sent with another query is only rejected.
- HTTP: one user owns a session; HMAC and digests are injective; the secret does not change. A
  client registers what it does not know (`autoRegister`), and its identifier cache is its
  own. A message is the record it carries, and arrives once, or the call fails: `fetch`
  neither reorders nor repeats. When a call fails, what the server may still do for it is left out,
  an upload that lost its connection included. A content is a query, with the file an upload
  sends along. The application gets from a 401 either new tokens or an error.
- Cache: tenants are as roles; the rules of one principal have one verdict, which may change at any
  time; the values that row rules compare are left out, a row rule being a verdict on
  a point read. The clock counts seconds.
- Reads: the order inside a list is left out (a list is a bag), and with it `$orderBy` on
  flat reads; `$where` is a comparison of one field, `$page` a number of rows; the default LIMIT and
  root pages are CollectionPages'. A value is what the cell holds, a computed value what it was
  computed from. Accepted but left out: operators, sizes and depths of `$where`, selections of
  fields of a later polymorphic target (rejected by `normalize.ts:231`), a
  join's own `table` override, the mapping of field names by `columns`, row rules, Prisma's
  `take` and Drizzle's cursors. Names are words without dots, and a column alias is the sequence of
  its words: that `a_b` and `a` followed by `b` would collide is left out. A rule has two words or
  more and names an entity first: one of a single word matches no field of a plan. `dynamicRules`
  of the access plugin, which denies by the plan's own column names, is left out. Two-part rules match a physical field at the root's table only,
  and a computed one at any path, as in the code; `$where` and `$groupBy` on a denied field are
  not removed by the code and not looked at here.
- Not modelled: the gateway (sequential fetches without state), upload storage (I/O), the
  framework adapters and header syntax, the wire format of messages, codemods and documentation
  tooling, the web pages of the examples.

## 7. Plan

What is left, in order:

1. `close()` and reconnects of the Redis store.
2. A proof of `AnswerIsTheTree` for flat rows, too: it needs that a plan's columns have different aliases
   unless `NamedByTable`, and that grouping by id undoes the joins.
3. `dynamicRules` as a second kind of denial in ReadRequest, by names of the plan.
4. The limits of `normalize.ts` and `parse.ts` as operators, with their order of application.
5. Properties of the PostgreSQL store after `close()` and after a rejected connect.
6. Exact answers where `AsAsked` now only excepts a case, such as `ManyUnderOne`: what the answer is
   instead of the tree. `PROJECT.json` notes the hazards that no property watches yet.
