# estate-server in TLA+

TLA+ models of the estate server (a NestJS modular monolith with three Kafka
workers, a PostgreSQL database behind Prisma, Redis and Kafka), the TLC
configurations that check them on small instances, and TLAPS proofs of their
safety properties for every value of the constants.

Paths below are relative to the repository; the program is in `src/src/`.

## 1. The system

Processes: the API server (any number of replicas), the outbox **relay**
worker, the **audit** worker, the **notification** worker, the **chat
persistence** worker. They share PostgreSQL, Redis and Kafka and nothing else;
inside one process Node runs one callback at a time, and every `await` is a
place where any other request, of this process or another, may run.

| Component | State it keeps | Operations | Talks to |
|---|---|---|---|
| **outbox store and relay** `outbox/`, `workers/outbox-relay.main.ts`, `workers/relay-loop.ts` | `OutboxEvent` rows: status, attempts, nextAttemptAt, createdAt | `add` in a domain transaction; one tick = `fetchPending`, then per row `publishOrThrow`, `markPublished` or `markFailed`, commit | every use case with an event writes it; it writes Kafka |
| **audit worker** `audit/`, `workers/audit-worker.main.ts` | `AuditLog` rows (unique eventId), the group's offsets | handle a message, commit an offset | reads every topic |
| **event topics and direct publishing** `events/` | the Kafka log, partitioned by entityId | `publishOrThrow` (relay), `publish` (swallows errors) | |
| **login sessions** `auth/application/{login,logout,logout-all,refresh-tokens,revoke-session}*` | `RefreshToken` rows: family, usedAt, revokedAt, expiresAt | login, refresh (rotate or detect reuse), logout, logout-all, revoke one session, list | |
| **password and profile** `auth/application/{change-password,update-profile}*` | `User` rows | read, compare, write the row back | revokes sessions |
| **sign-up and Kakao onboarding** `auth/application/{sign-up,kakao-login,complete-kakao-signup}*` | `User` rows (unique email), `Account` rows (unique provider and provider id); onboarding tokens are signed, not stored | sign up, Kakao login, complete the sign-up | ends in a session |
| **Kakao client and resilience** `auth/infrastructure/kakao-*` | circuit breaker, bulkhead | one call under budget, retry, breaker, bulkhead, timeout | |
| **like counter** `board/**/like*` | `PostLike` rows; a derived Redis key with a hard TTL | like, unlike, read one or many counts, remove the key | outbox (PostLiked) |
| **board posts, comments, caches** `board/` | `Post`, `Comment` rows (soft delete); Redis detail and list | create, edit, delete, comment, read through the cache | membership, outbox, like counter |
| **notification worker and unread counter** `notification/` | `Notification` rows (unique recipient and event); a derived Redis key | fan out an event; count, list, mark one or all read | second consumer of the topics; Redis pub/sub |
| **chat** `chat/` | `ChatRoom` rows (unique building and tenant), `Message` rows, a capped Redis list | ensure a room, send (relay, cache, Kafka), read (cache, else rows), persist | direct publish; a consumer of its own |
| **buildings, units, leases, invite codes** `property/` | `Building`, `Unit`, `Lease` rows; one-time codes in Redis | register, invite, redeem a code, end a lease | outbox (TenantJoined, LeaseEnded) |
| **graceful shutdown** `common/shutdown/` | started, timedOut, a watchdog | drain, close, exit once with one code | all processes |
| **rate limit** `common/rate-limit/` | a fixed window per key in Redis | one atomic hit | HTTP guards |
| **metrics** `metrics/` | gauges, one shared query in flight | collect under a timeout | |
| HTTP, WebSocket and wiring; operations, load tests, documents | none between requests | | |

### Hard behaviours, and what makes each component correct

* **Outbox**: relays race for rows; an emit cannot be part of the database
  transaction, so any failure between emit and commit makes a duplicate or, if
  the code is wrong, a loss; a transaction may be lost under a callback that
  does not notice. Correct: no committed event is lost, none is invented,
  every duplicate has a recorded cause, settled rows stay settled, a row is
  quarantined at the limit exactly, every row settles.
* **Audit**: redelivery, relay duplicates, a restart between handling and
  committing. Correct: at most one row per event, no message skipped, every
  message recorded in the end.
* **Sessions**: every use case reads, then writes; two refreshes of one token,
  a refresh against a revocation, a password change against all of them.
  Correct: one live token per session, reuse revokes the family as a whole, a
  session that is over stays over; a session that was ended has no live token,
  unless a rotation that had read its token before overtook the end.
* **Like counter**: commits, bumps, COUNTs, NX fills, expiry and eviction in
  any order, each able to fail alone. Correct: apart from the bumps on their
  way the count is off by the writes it has twice or will never have and by no
  other, not for longer than one TTL, and it comes right in the end.
* **Board and its cache**: a reader stores what it loaded before an
  invalidation; Redis fails after the row changed; a post is deleted while a
  comment is on its way; a lease ends while a post is cached. Correct: a stale
  value has a writer that still owes the DEL, or a late store or lost DEL
  behind it, and an expiry; a comment outlives its post only when it came
  between the two statements of the deletion or from a request that had found
  the post before; the cache is no way around the membership.
* **Notification**: the row is saved and the increment throws, so redelivery
  skips counter and push; mark-one and mark-all race increments and fills.
  Correct: every message is notified; one increment per recipient and event;
  the counter is off only by bumps on their way and losses that have a name.
* **Chat**: one message, three deliveries that fail one by one; a capped list
  maintained by three commands; two sides open one room. Correct: what is
  committed is stored once; the list is the newest messages, and too long or
  without expiry only while a push is under way or after one that was cut off.
* **Property**: a code is consumed in Redis before the database commits; two
  requests end one lease. Correct: a code is in one place and makes one lease;
  a lease is ended as often as requests overlapped, never later.
* **Kakao**: retries outside a shared breaker, a queue inside it, one budget
  around all. Correct: the one-time code is sent once, calls are bounded, a
  half-open circuit always has its probe, it opens only on the failures of as
  many logins as the threshold takes.
* **Onboarding**: three check-then-insert flows on two unique keys, and a token
  that may be used again. Correct: one user per email, one account per user.
* **Rate limit**: the hits of a request one by one, while a window ends.
  Correct: no route lets more through than its limit in a running window.
* **Shutdown**: a drain that may never end, a force, a watchdog, a late
  success. Correct: a shutdown that timed out or failed is told as one, whatever
  succeeds later; the process ends.

`PROJECT.json` lists each hazard at the line where it bites, with the
properties that cover it, or why none does.

## 2. The modules

| Module | Is | Source |
|---|---|---|
| `EventDelivery` | abstract: what the pipeline promises | - |
| `Outbox` | outbox rows, domain transactions, relays, the Kafka log | `outbox/`, `workers/relay-loop.ts`, `events/kafka-event.publisher.ts`, the two lease use cases |
| `EventPipeline` | `Outbox` composed with the audit worker; refines `EventDelivery` | `audit/`, `workers/audit-worker.main.ts` |
| `Sessions` | refresh-token families, the requests on them, the user row | `auth/application`, `auth/infrastructure/prisma-*` |
| `LikeCounter` | the rows and the key of one post's likes | `board/application/like-*`, `board/infrastructure/redis-like-counter.ts`, `delete-post` |
| `Property` | buildings, units, invite codes, leases, membership | `property/`, `prisma-membership.checker.ts` |
| `Tenancy` | abstract: what codes and leases promise, implemented by `Board` | - |
| `Board` | posts, comments and their cache, on top of `Property` (EXTENDS) | `board/` without the likes |
| `Notifications` | fan-out worker, rows, unread counter, the reader's requests | `notification/` |
| `Messaging` | abstract: what becomes of a message, implemented by `Chat` | - |
| `Chat` | rooms, messages, the capped list, the persistence worker | `chat/` |
| `Kakao` | the Kakao client under its policies | `auth/infrastructure/kakao-*` |
| `Onboarding` | sign-up, Kakao login, completion | `auth/application/`, `prisma-account.repository.ts` |
| `RateLimit` | guard, store, script, windows | `common/rate-limit/` |
| `Lifecycle` | graceful shutdown of the server and of the relay | `common/shutdown/`, `main.ts` |
| `MCEventPipeline`, `MCSessions`, `MCBuilding`, `MCChat` | finite instances and symmetry for TLC (the other modules need none and are run themselves) | |
| `MCServer` | `Kakao`, `Onboarding`, `RateLimit`, `Lifecycle`: four parts of the server without shared state, one of them per behaviour | |
| `OutboxProofs`, `EventPipelineProofs`, `SessionsProofs`, `LikeCounterProofs`, `BuildingProofs`, `NotificationsProofs`, `ChatProofs`, `ServerProofs` | theorems and proofs | |

Each definition that models code is mapped to its lines in `PROJECT.json`.
Definitions under "Plausible defects" are variants of the one after them that
the mutation runs put in its place; no specification uses them.

### Outbox

`status[e]` is the row of event `e`: NONE, STAGED (its domain transaction is
open: nobody else sees it), ABORTED, or the `OutboxStatus` of the committed
row. `Add` is `OutboxStore.add`; `EndDomainTx` commits or rolls back the change
and the row at once, which is what passing `tx` to both gives. `createdAt`
takes its rank at the insert, not at the commit, so a row may become visible
after a younger one. `due` abstracts `nextAttemptAt`: the length of the backoff
never decides anything but when the row may be fetched again.

One tick of a relay is one interactive transaction: `FetchPending` (SELECT ...
FOR UPDATE SKIP LOCKED, the oldest `BatchSize` due rows), then for each row
`PublishOrThrow` and `MarkPublished` or `MarkFailed`, then `CommitTick`. An
emit has three outcomes: stored and acknowledged; stored, but the call rejects;
neither. What the Kafka client repeats by itself inside one such call is left
out here (`DuplicatesExplained` counts emits), and so is everywhere what
ioredis sends again by itself after a broken connection; consumers meet
repeated messages of every origin in `Notifications` and `Chat`. Marks are
visible to others only from `CommitTick` on, where the attempts that were read
at the fetch still hold because the row was locked. `catch` also catches an
exception of `markPublished` itself; on a live transaction a statement that
fails poisons the transaction, so that path is `LoseTx` followed by
`TickRejects`.

`LoseTx` is the database dropping the transaction under the callback (Prisma's
interactive timeout, a failed statement, a lost connection): locks and marks
go, `batch`, `row` and `step` stay, and the loop goes on emitting until its
next statement throws (`TickRejects`). `CrashRelay` is the process dying. An
emit whose message arrives after the crash counts as one that was stored just
before it: the log cannot tell. `RelayLoop` starts no tick while one runs,
which is the guard `tx[r] = "none"`. A poll that finds nothing changes nothing
and is a stutter.

### EventPipeline

`pos` is how far the consumer has handled a partition, `offset` what the group
has committed, `auditLog[e]` the number of rows with that eventId. A handler
that rejects leaves the message next in line. `RestartConsumer` is a crash or a
rebalance: reading resumes at `offset`.

### Sessions

One request process per concurrent use case: a read action and a write action
for each that reads first (`RefreshFind` / `RefreshRotate`, `RefreshLoses`,
`RefreshReuse`; `LoginVerify` / `LoginIssue`; `ChangePasswordVerify` /
`ChangePasswordRevoke` / `ChangePasswordCommit`; `RenameRead` / `RenameWrite`),
and one action where what is read first can never change. Expiry may come at
any time, a request may die at any time.

A password change is two statements in a READ COMMITTED transaction, so two
steps: `ChangePasswordRevoke` locks the user row and finds the tokens that are
committed by then (`found`), `ChangePasswordCommit` makes the new hash and the
revocation of those tokens visible. In between, a login inserts a token and a
rotation its successor, and neither is found; other writes of the same user row
wait (`RowLocked`). A rotation is one step: it updates one row by a
compare-and-set that looks at `usedAt` alone and inserts the successor; a
revocation of the family that arrives in between waits for the row and works on
what its snapshot saw, which is the order "revocation first". Password hashes
are versions; the name is left out.

`doomed` and `ended` are history: the sessions an open password change is about
to end, and those that were ended. `Overtake` takes a session out of both when
a rotation gets through, which only one that has read its token before can.

### LikeCounter

One post. `Like` and `Unlike` are the row's transaction, `Bump` the
`INCRBY_IF_EXISTS` script, `GetMany` / `CountByPosts` / `Backfill` the reader
(`SET NX EX`), `Remove` the DEL of a delete. `CountByPosts` follows both a miss
and a GET whose pipeline slot is an error. `Tick` counts the TTL down, `Evict`
is Redis. The rest is history; nothing the code does depends on it. `age` is
the time since the key appeared. `counted` holds the requests whose bump is
still to come though the key has their write already, because the COUNT that
filled it saw the row; `slack` counts the writes the key has twice (such a bump
arrives) or will never have (the bump is lost, is stopped at zero, or came
before the fill of a COUNT that had not seen its row). A bump that arrives at a
key without its write takes nothing. `knows` and `readSlack` say the same of a
COUNT that a reader has not filled in yet.

### Property

`ownerOf`, `buildingOf`, `lease` are rows, `invite[c]` the Redis value of a
code. Rows of buildings and units are never removed and never change their
owner, so the owner's checks and inserts are one step. Redeeming is two:
`RedeemCode` is the GETDEL, `SaveLease` the transaction (lease and
`TenantJoined`), `JoinFails` anything that goes wrong between them; ending a
lease is `FindLease`, which checks, and `EndLease`, which writes by id without
looking again. `fate` and `joins` are history. That a row and its event commit
together is what `Outbox` models.

`Tenancy` says the same of a code and a lease without requests: a code is
issued, taken by one user, and then joined, lost or expired; a joined code has
become one lease of the taker, of the unit that the code was issued for, and a
lease changes in nothing but its one end. `Place(c)` is the mapping: the Redis
value, else the request that redeems it, else the lease, else its fate. The
second `EndLease` of two that overlap is a stutter there (it writes what is
written), as is every step of the board.

### Board

`call[p]` is what a request does next, with what it has read (`held`) and the
cache keys it still has to delete (`owes`). A write is its check
(`UpdatePost`), its transaction (`SaveEdit`), then one `Invalidate` per key. A
read of a post is `GetPost` (the cache), then `AuthorizeHit`, or `FindPost`,
`AuthorizeMiss`, `FindComments`, `StoreLoaded`; the list checks the membership
before it looks into the cache. The update goes by id and also edits a post
that is deleted by now; the comment's insert does not look at the post again.
A deletion is two statements under READ COMMITTED: `DeleteComments` has the
comments that are there when it starts (`held`), `SaveDelete` the second
statement and the commit; comments that come in between stay, and two deletions
of one post commit in either order. A text is a version number; comments are
counted, all that ever were (`comments`) and the live ones (`live`). `late[x]`
is history: how many comments the first deletion of a post could not reach, the
ones inserted between its statements and one for each request that had found
the post and may still insert. `excused[k]` is history: the
value a late store or a missing DEL left behind, cleared by the next store of
what is current, a DEL, or the expiry. `was[p]` records whether the user was a
member at some time during the request; every step, those of `Property` too,
brings it up to date (`NoteMembers`).

### Notifications

`job` is the worker's place in `HandleEventUseCase.execute`: `StartEvent` asks
the recipient resolver (anew at each delivery, so its answer may differ),
`Save`, `Increment`, `Push` go recipient by recipient. `HandlerThrows` leaves
the event to be delivered again, `RestartWorker` falls back to `committed`.
The user's requests are `GetUnreadCount` / `CountUnread` / `Backfill` (a miss,
the COUNT, SET NX EX), `MarkOneRead` / `Decrement`, `MarkAllRead` / `Reset`.
A push to sockets keeps nothing, so its failure is its success. `EventRepeats`
appends an event again: the relay emits a row once more (`Outbox`), or a client
sends again after an answer it missed. It counts as a fault. `bumps`,
`slack` and `countSlack` are history: a unit of slack is taken when a bump
fails, when the floor at zero swallows a decrement, and for the rows that
change between a COUNT and its fill.

### Chat

Opening a room is `EnsureRoom` (who may), `FindByBuildingAndTenant`,
`SaveRoom` against the unique key. A message goes through `Relay`, `Lpush`,
`Ltrim`, `Expire`, then `Publish`, `PublishRetried` (the client misses the
answer and sends again) or `PublishSwallowed`, a step for each command,
since the pipeline in Redis is no transaction and other senders' commands come
in between. `OnMessageSent` stores idempotently or throws; `CommitStored` and
`RestartPersistence` are the consumer group. Both sides may open a room,
the owner of a building also one with himself, as the code allows; the loser of
a race on the unique key gets an error, and no property is about that. A reader
gets the list if there is one, however short, as the code means it to, and the
rows otherwise (`GetMessages`). `pushed` and `abandoned` are history: the pushes
since the list came into being, and the commands that pushes which were cut off
have left out and no later push has made up for.

`Messaging` is the life of a message without senders, topic or worker: sent,
published, stored, or lost, which costs a failure and happens before it is
published only. `FateOf(m)` is the mapping: "sending" while a request has the
message in hand, "published" once the topic has it, and "lost" when neither
holds. A publish that is sent again is one Publish there; the second append
adds nothing to the message's fate but its failure.

### Kakao, Onboarding, RateLimit, Lifecycle

`Kakao`: `login[p]` is the call a login makes and where it is: at the breaker,
in the queue, in a slot. The circuit breaker, bulkhead, retry and timeouts are
the cockatiel library's and mapped as external where `src/` only configures
them; their timers fire at any time. A success anywhere resets the count of
consecutive failures; while the circuit is half open, other callers wait for
the probe.

`Onboarding`: check and insert are separate steps; the nested write of user and
account is one. Onboarding tokens verify until they expire, however often they
are used. `Save` and `SaveWithAccount` show the loser of a race the same error.

`RateLimit`: a request picks its window once (`CanActivate`) and hits its keys
one by one (`HitNext`); the script (INCR, EXPIRE on the first) is atomic. A
route with limits of its own counts in the keys all routes share. The window's
length is one for all: the override `windowSec` of a route
(`rate-limit.guard.ts:55-57`) is left out, since no route sets it.

`Lifecycle`: the runner's phases, the watchdog, the force of the HTTP drain
(armed only for `kind = "http"`), the flush before exit(1). Handlers (`work`)
and sockets (`open`) are two things: the HTTP drain waits for `server.close`,
that is for the sockets, and a client that hangs up in the middle of a request
(`SocketCloses`) lets it end while the handler works on. The relay's drain
waits for the tick. A second signal of the same kind finds no handler any more
(`once`) and ends the process.

## 3. The runs

| Run | Instance | Question | States |
|---|---|---|---|
| `pipeline_safety` | a lease with TenantJoined and LeaseEnded, 2 relays, batch 2, 2 attempts, 1 lost transaction or crash, 1 consumer restart | is any event lost, invented, skipped, audited twice, settled twice; is each duplicate explained; is `EventDelivery` implemented | 631,520 |
| `pipeline_liveness` | 1 relay, batch 1, 2 faults, 1 restart | does every committed event settle, and every event of the log reach the audit log; does one relay keep an entity's order until a failure | 150,175 |
| `sessions` | 2 users, 2 families, 3 tokens, 2 requests, 1 password change | do rotation, reuse, revocation and the password change keep their promises under races | 114,870 |
| `likes` | 2 users, 3 requests, TTL 2, 3 toggles | is each write in the count once but for those with a reason, and does the count heal | 244,596 |
| `building` | an owner, a tenant, one building, unit, code, lease and post, 1 edit and 1 comment or 2 comments, 2 requests | is a code ever in two places, a lease ended late, a board shown to an outsider, a cached value stale without a cause; which comments outlive their post; is `Tenancy` implemented | 1,113,927 |
| `notifications` | a message and a board event, 2 users (1 with the app open), 2 requests, 1 failure or restart | has every committed event the row of its recipient, counted once, is the counter's drift explained, is every message notified (one recipient per event: a fan-out to several is proved only) | 843,875 |
| `chat` | 2 users, 2 rooms, 2 messages, 2 requests, limit 1, 2 failures | is there one row per message, a consistent list; is `Messaging` implemented | 253,605 |
| `server` | 3 logins (1 retry, threshold 3, 1 slot, queue of 1); 2 emails, 2 Kakao ids, 3 users, 2 attempts; 3 hits on 2 routes, 2 windows; 2 signals, 2 requests or ticks | do the bounds on calls, identities and windows hold, does the process end and tell its failure | 298,608 |
| `entity_order` | 1 relay, no lost transaction | violation: order within an entity | |
| `no_republish` | 2 relays, 1 lost transaction | violation: a PUBLISHED row is never emitted again | |
| `revocation_final` | as `sessions` | violation: a revoked session is never active again | |
| `password_update` | as `sessions` | violation: the stored hash is the latest one | |

Properties of the passing runs:

* `PipelineTypeOK`, `TypeOK`, `CounterTypeOK`, `BoardTypeOK`: one type
  invariant per run. `LikeCounter`'s says more than types: the count a user
  sees is never negative.
* `LogFaithful`: PUBLISHED only when the broker has the event (`NoEventLost`),
  and nothing in Kafka about a change that did not commit (`NoPhantomEvent`).
* `TicksIsolated`: live ticks hold disjoint rows (`LockExclusive`), each still
  PENDING and in exactly one hand of its tick (`TicksSound`).
* `OrderUntilFailure`: with one relay and no lost transaction an event is in
  its partition after the event it builds on, unless an emit of that one
  failed. It is what the code does keep of the order `EntityOrder` asks for; a
  second relay that skips locked rows may overtake without any failure.
* `DuplicatesExplained`: the copies of an event are at most its recorded
  failures, plus the lost transactions, plus one unless it is quarantined.
* `QuarantineAtLimit`, `SettledIsFinal`: FAILED exactly at the limit; a late
  tick, even one without its transaction, changes no settled row.
* `AuditFaithful`: one row per event and only of events in the log
  (`AuditOnce`); the committed offset never passes a message without a row
  (`NothingSkipped`).
* `ImplementsDelivery`: every step maps to a step of `EventDelivery` or none.
* `EveryEventSettles`, `EveryEventAudited`: the liveness of both halves.
* `OneUnusedToken`, `RevocationCoversFamily`, `OverIsFinal`,
  `EndedSessionsAreDead`: see the hard behaviours above. `OverIsFinal` is what
  the code does keep of "revoked is final": nothing revives a session once no
  rotation that read a live token is on its way. `EndedSessionsAreDead` is what
  logout, reuse detection and the password change keep of their word: whatever
  races them, a session that a change found at its revocation and no rotation
  overtook has no live token once the change has committed.
* `HardCeiling`, `DriftBounded`, `Heals`: a key never outlives the TTL of the
  fill that made it; with the bumps still to come (`Owed`) the count is off by
  at most `slack`, so a bump that is applied twice or never runs without being
  lost breaks it; after the last toggle every wrong count goes away.

* `CodesAccounted`, `EndsBounded`: an issued code is in exactly one place
  (Redis, one redeeming request, one lease, expired, lost); LeaseEnded is
  recorded at most once per overlapping request.
* `ImplementsTenancy`: every step of the building maps to a step of `Tenancy`
  or none. Beyond `CodesAccounted` it relates a code to the steps before: who
  took it is who becomes the tenant, of the unit it was issued for.
* `ShownToMembers`, `StaleExplained`, `OrphansExplained`: the board's promises
  against its cache, its deletes and the leases that end meanwhile. The live
  comments of a deleted post, with those that may still come, are no more than
  its deletion could not reach; no second deletion or edit brings one back.
* `NotifiedOnce`, `UnreadDrift`, `EveryMessageNotified`: below the committed
  offset every recipient of a chat message has his row (the answer of the
  resolver to a board event may change between deliveries); an event bumps a
  recipient once and after his row (`CountedOnce`); the counter differs from
  the rows by no more than what is on its way and the slack; every message gets
  its row.
* `StoredOnce`, `RecentConsistent`: one row per message and no gap below the
  committed offset; the list is a prefix of the pushes, shows the last
  `RECENT_LIMIT`, and is too long or without expiry only while a push is under
  way or as long as a push that was cut off has left the command out.
* `ImplementsMessaging`: every step of the chat maps to a step of `Messaging`
  or none: a message gets its row only after it is in the topic, is never lost
  once it is there, and before that only by a step that is a failure.
* `CallsBounded`, `OpeningTakesLogins`: one token call, `MaxRetries + 1`
  profile calls, no more calls out than slots, a probe on the way whenever the
  circuit is half open, and room for it when it is open; the circuit opens
  only on failures of at least `Threshold / (MaxRetries + 1)` logins, two in the
  run.
* `OneIdentity`, `WindowLimited`, `ShutdownEnds`: see the hard behaviours above.
  `FailureIsTold`: a shutdown past its budget or with an error ends in exit 1,
  or in the kill by a second signal, though the drain and the close may still
  succeed between the watchdog and its exit.

Every property of a passing run has a mutant in `PROJECT.json`: a plausible bug
of the code (a dropped guard, a sliding TTL, an offset committed too far) under
which TLC finds that property violated.

### What the violation runs show

* **Order within an entity.** `kafka-event.publisher.ts:41` and
  `schema.prisma:185` promise order by partition key. TenantJoined fails its
  emit and is rescheduled; LeaseEnded, next in the batch, is emitted. With one
  relay this and a lost transaction are the only causes
  (`OrderHoldsUntilFailure`).
* **Republishing.** `relay-outbox.use-case.ts:16` says that the transaction
  keeps several relays from publishing a row twice. A relay whose transaction
  timed out still holds its batch; another relay publishes and commits the
  rows; the first goes on emitting. Consumers are idempotent, so the duplicate
  does no harm (`AuditFaithful` and `NotifiedOnce` hold), and there is no other
  way to it (`OnlyLostTicksRepublish`).
* **Revocation.** A refresh reads its token, the family is revoked (by logout,
  logout-all, reuse detection or a password change), and the refresh wins its
  compare-and-set, which looks at `usedAt` only: the session is live again.
* **Password.** A rename reads the user row, the password changes, the rename
  writes the row back, old hash included.

Met on the way, without a run of their own: a login that compared the old hash
issues a session after the change that revokes them all (the model allows it;
it is a new family, not a revived one). The comment in
`change-password.use-case.ts` (39-41) says that one transaction leaves no window
in which an old session lives on; a rotation or a login that inserts its token
after the transaction's revocation has taken its snapshot and before the commit
leaves an active one, which is why `EndedSessionsAreDead` excepts a rotation
that overtook the end. The comment `like-counter.ts:4` says
the TTL is renewed by every write, while `redis-like-counter.ts:13-17` is, and
explains, the opposite; the model follows the code. The comment at
`schema.prisma:201-203` says that nobody reads the likes of a deleted post; a
detail still in the cache leads there, so `Read` has no guard on `deleted`.

Of the newer modules:

* **Kakao's threshold.** `kakao-resilience.ts` (60-63, 97-101) warns of a
  breaker threshold below one login's attempts and recommends one equal to
  them. At equality too the failing profile attempts of a single login open the
  circuit for everybody, without a warning. `KakaoAssumption` asks for what the
  code throws on and no more; `OpeningTakesLogins` says how many logins it takes
  at every threshold: two or more only above equality, as with the defaults (5
  against 3 + 1).
* **Shutdown.** The header of `http-drain.ts` (3) speaks of waiting for what is
  in flight, but `server.close` waits for connections: when a client hangs up
  in the middle of a request, the drain ends and the pools close under its
  handler, within the budget and with exit 0. WebSocket handlers are not
  awaited either, while the comment in `main.ts` (51-53) says that no message is
  lost because persistence goes over Kafka: a message relayed and cached may
  never be published.
* **A swallowed publish** (`PublishSwallowed`): the message was shown, sits in
  the cached list, and never gets a row. Nothing in the code promises one;
  `ImplementsMessaging` says that this is the only way to lose a message, next
  to a send that is cut off before it, and `LossesArePaid` that each costs a
  failure of its own.
* **Unread counter.** A notification that is marked read between its row and
  its increment is decremented at zero first, then incremented: the counter
  stays one too high without any failure, until the key expires. `UnreadDrift`
  counts it as slack.
* **Onboarding.** The loser of a race with the same token gets EMAIL_IN_USE;
  a second try gives him the session that `complete-kakao-signup.use-case.ts`
  calls idempotent.
* **A redeemed code** whose transaction fails is lost (`fate = "lost"`), and
  overlapping requests record several LeaseEnded events for one lease.

### Bounds, and why they are enough

* Two events of one entity, the second caused by the first: every order of two
  rows in one partition, two rows in a batch, one of them failing. Rows of
  different entities do not interact but through a batch, which two events
  already fill. Two relays: locks are pairwise. `MaxAttempts = 2`: a failure
  that reschedules and one that quarantines.
* `MaxRollbacks` and `MaxRestarts` bound the faults: one at a time suffices
  for the safety properties, as each fault is over when its tick is; the
  liveness run has two, a fault while recovering from a fault.
* Sessions: two requests are enough for a read and an interfering write; three
  tokens give a rotation and a second login; two users, two families tell
  `LogoutAll` from `Logout`. `MaxChanges = 1`: one stale read is one change.
  A request that finds no token left to issue can still fail, so the instance
  never stops and deadlock is checked.
* Likes: two users make a count of 0, 1, 2; two requests race and a third, a
  fill or a delete, comes between; TTL 2 tells "just filled" from "about to
  expire"; `MaxToggles = 3` lets both users like and one of them unlike. The
  bound also stands for "nobody likes or unlikes any more": every behaviour has
  a last toggle, and `Heals` speaks of what follows it.
* Building: one row of each kind is enough, since rows of one kind do not
  look at each other; two requests give every race of a read and a write;
  `MaxVersion = 1` tells an old value from a new one, and with `MaxWrites = 2`
  edits and comments together a comment can be there, another on its way
  between the statements of a deletion. The requests are symmetric.
* Notifications: a chat event has one recipient, and with two users a board
  event has one at most, as its actor gets nothing: TLC sees no event go to
  several, the proofs do. `MaxFaults = 1` is a redelivery, a restart or an
  event that repeats. Owner and tenant both get rows, but only one has his app
  open (`Readers`): users share no key.
* Chat: `RecentLimit = 1` makes the list overflow with the second message; two
  rooms are two lists and two rooms of a building; rooms, messages and requests
  are symmetric; two faults are a failure and a
  restart, or a repeated publish and either.
* Server: `MaxRetries = 1` and `Threshold = 3` are the smallest values that
  tell one login's failures from two logins'; a smaller threshold makes
  `OpeningTakesLogins` true of any circuit, and its proof covers all; one slot
  and one place in the queue make the bulkhead full with the third login. Three
  users for two emails, so that a second user for an email would find an id. A
  clock of two windows. `MCServer` runs one of its four parts per behaviour:
  they share no state, and interleaving them would only multiply the states.
* `CHECK_DEADLOCK FALSE` where the system may stop: in the pipeline, chat and
  notifications there are finitely many events and faults, and when all is
  done nothing is left to do; in the building the owner, the ids and the
  versions run out; the server's requests are finite and an ended process is
  to stay ended. `sessions` and `likes` never stop and check it.

Proofs lift these bounds for all safety properties of the passing runs.

### Fairness

* Relay: polls on an interval, and every call of a tick returns (Kafka's and
  Prisma's timeouts see to it), so `WF` on a relay's own steps. That they
  return is an assumption: a tick that hangs blocks `RelayLoop` for good.
* Backoff and TTL: time passes.
* Consumer: kafkajs keeps reading, the database accepts the audit row in the
  end (a handler that throws has its message redelivered), offsets are
  committed, so `WF` per partition. Weak fairness of a disjunction suffices:
  committing is bounded by handling.
* Notifications: `WF` on the worker's own steps and on the commit of its
  offset, as for the audit worker; failures and restarts are finitely many.
* Shutdown: `WF` on the timers only (`LifecycleFairness`): the event loop runs
  timers that are due. No request and no tick has to return and no socket to
  close, and `ShutdownEnds` and `FailureIsTold` hold all the same, which is what
  the watchdog is for.
* Building, chat, Kakao, onboarding and the rate limit state no fairness; their
  requests owe nothing.
* Like counter: `WF` on what a request in progress does. `Begin`, `Read`,
  `BeginDelete` owe nothing, nor does `RequestFails`.
* Use cases owe nothing: a domain transaction may stay open for ever, and its
  event is then not promised. Faults are finitely many.

## 4. The proofs

TLAPS proves every safety property of the passing runs, the three refinements
among them, for every value of the constants, under each module's named
assumption (`OutboxAssumption`, `PipelineAssumption`, `SessionsAssumption`,
`LikeCounterAssumption`, `PropertyAssumption`, `BoardAssumption`,
`NotificationsAssumption`, `ChatAssumption`, `KakaoAssumption`,
`OnboardingAssumption`, `RateLimitAssumption`, `LifecycleAssumption`): finite
sets of events, relays and requests where they are counted; null values outside
their sets; positive limits; Kakao's parameters in the ranges the code accepts.

| Theorem | Property | Why a plain invariant is not enough |
|---|---|---|
| `EventPipelineProofs!TypeCorrect` | `PipelineTypeOK` | attempts never pass the limit: needs that a PENDING row is below it (`QuarantineAtLimit`) and that a tick holds only PENDING rows (`TicksSound`) |
| `LogIsFaithful` | `LogFaithful` | what a tick has marked published must be in the log already, while the row is still PENDING; what a tick holds, even one that lost its transaction, was committed when fetched |
| `TicksAreIsolated`, `QuarantinedAtLimit` | `TicksIsolated`, `QuarantineAtLimit` | inductive together only: a commit of one tick spares the rows of another because they are disjoint |
| `AuditIsFaithful` | `AuditFaithful` | everything below `pos` is recorded, and `offset <= pos <= Len(log)` |
| `SettledRowsAreFinal` | `SettledIsFinal` | a commit marks only rows its tick holds, and those are PENDING |
| `PipelineImplementsDelivery` | `ImplementsDelivery` | step by step: `Add` and aborts stutter, a commit of a domain transaction is `Record`, an emit `Emit`, a tick's commit one `Settle` of all its marks, the first handling `Audit` |
| `DuplicatesAreExplained` | `DuplicatesExplained` | a budget per event (`BudgetInv`): the copies so far, plus one to come for each lost tick that still has the row in its batch, against the recorded failures, the lost transactions and one success, recorded or in the hands of a live tick |
| `OnlyLostTicksRepublish` | none: an action property on the ground of `TicksSound` | a copy comes from a batch (`CopyFromBatch`), and a live tick's batch is PENDING |
| `OrderHoldsUntilFailure` | `OrderUntilFailure` | below |
| `SessionsProofs!TypeCorrect`, `RotationKeepsChain`, `RevocationIsWhole`, `OverForGood` | four of the five of `sessions` | marks are on issued tokens only, every issued token is of an owned family (`TokensSound`), and a rotation or revocation in flight holds an issued token (`RequestsSound`); with these the two invariants are inductive, and `OverIsFinal` follows from one step |
| `SessionsProofs!EndedForGood` | `EndedSessionsAreDead` | what an open password change has found are whole families, and all of each session that it is about to end: a login meanwhile starts a new family, a rotation takes its own out (`FoundSound`); nothing is ended that was not begun (`EndSound`) |
| `LikeCounterProofs!TypeCorrect`, `CeilingIsHard`, `DriftIsBounded` | the invariants of `likes` | below |
| `BuildingProofs!TypeCorrect`, `CodesAreAccounted`, `EndsAreBounded`, `OnlyMembersSee`, `StalenessIsExplained`, `OrphansAreExplained` | the six invariants of `building` | below |
| `BuildingImplementsTenancy` | `ImplementsTenancy` | below |
| `LeasesAreEarned` | none: no run checks it, it counts over all codes and leases | a lease more is a code more that is joined, because the code of a request that redeems has made none yet (`CodesAccounted`) |
| `NotificationsProofs!MessagesAreNotifiedOnce`, `DriftIsExplained` | `NotifiedOnce`, `UnreadDrift` | below |
| `ChatProofs!MessagesAreStoredOnce`, `ListIsConsistent` | the two invariants of `chat` | below |
| `ChatImplementsMessaging` | `ImplementsMessaging` | below |
| `LossesArePaid` | none: no run checks it, it counts over all messages | below |
| `ServerProofs!CallsAreBounded`, `CircuitTakesLogins`, `IdentitiesStaySingle`, `WindowsAreLimited` | the invariants of `server` | below |

The inductive invariants are `OutboxInv` (`OutboxProofs`), `PipelineInv`,
`BudgetInv`, `OrderInv`, `ToldInv`, `ServerInv` (with `RateInv`), and `Inv` of
the other proof modules.

**Order.** `createdAt` ranks an event above the one it builds on (`RowsDated`),
and a row that never failed is due. So when the only relay fetches the oldest
due rows and e is among them, the untroubled c that e builds on is among them
too or already in the log; and `PublishOrThrow` takes the oldest of its batch
first. `CauseFirst` says this of a tick at any moment: with e in the batch, c is
in it, or in the log, or its emit has just failed and it is about to be
troubled.

**Likes.** `DriftBounded` is inductive only together with the same of every
COUNT a reader still holds (`RequestsSound`), and with the knowledge that what
is in `counted` is a bump on its way:

    -s  <=  n + incr - decr - |liked|  <=  s

with `n` the count, `s` its slack, and `incr`, `decr` the bumps on their way of
the writes it does not have yet. A toggle moves `|liked|` by one and announces
one bump, so nothing else moves. A bump that arrives adds its share to the key
and is no longer to come; when the key had its write already it costs a unit of
slack instead. A bump that is lost, or that a clamp at 0 swallows, costs one
when the key did not have its write; for a COUNT in a reader's hands every bump
that ends does, unless the COUNT has seen its row, because that bump will not
meet its key. A COUNT starts with
`n = |liked|`, no slack, and every bump on its way as one it has already.
`HardCeiling` needs `ttl + age = TTL` while the key exists (`KeySound`).

**Building.** `LeasesSound`: the LeaseEnded events of a lease plus the requests
about to record one are no more than there are requests. A request that enters
finds the lease ACTIVE, so there is no event yet and it is counted among the
requests. For comments, `OrphansSound`: a deletion in the middle has seen no
more comments than there are (`DeletionsSound`), so when the first one commits
the live comments and the requests that may still insert are at most what it
could not reach; from then on each such request turns into at most one comment,
no other finds the post, and a further deletion only takes live ones away.
`CallsSound` says that what a request goes on with is there, and that only a
request that deletes keys owes any; `MembersSound` that the history of
membership has missed nothing and every step after a check has it; `CacheSound`
that nothing is cached of a post that does not exist, which together with
`StaleExplained` covers a new post.

The refinement of `Tenancy` goes by what a step does to a code's place
(`CodeRefines`, `RedeemRefines`, `JoinRefines`, `EndRefines`; everything else
`OutsideStutters`). It rests on `CodesAccounted`: the mapping picks the request
that redeems a code, and there is one only. A step of another request must
leave it the same request with the same unit and user (`StandingMoves`,
`RedeemersStay`).

**Notifications.** Let `Settling(u)` be the counter plus the increment on its
way, minus the decrements on theirs, minus the unread rows. The invariant keeps
it within `slack[u]` on both sides (`KeySound`): a row and its announced bump
cancel, a bump that arrives moves from "on its way" into the counter, and one
that is lost or swallowed takes a unit of slack. A COUNT in hand (`CountSound`)
has an interval of its own: rows that came and went since it was taken, with
the bumps that may still come. `BumpSound` (the increment on its way goes to a
row that has had none) makes `CountedOnce` inductive.
`ToldInv` is the other half of `NotifiedOnce`: whoever the chat event in hand
is for has his row or is still on the worker's list, and for every chat event
up to `handled` all have theirs; an event that is there again finds its rows.

**Chat.** `StoreSound`: everything up to the worker's position is stored and
the position is in the log. `ListSound`: the list is a prefix of the pushes,
all of it or at least as long as the limit, so a reader of the list has the
last `RECENT_LIMIT`. `PusherSound`: a list that is too long has a request about
to trim it, one without expiry a request that will set it, or a push that was
cut off has left the command out. The refinement of `Messaging` needs
`MessagesSound`: a message in hand is of a created one and of one request only,
and what the topic or the rows have was created. A step then moves one message
(`OneMoves`) or none (`NoneMoves`): `SendRefines`, `PublishRefines`,
`FailRefines`, `WorkerRefines`. A failure that hits a request is Lose when its
message is in nobody's hands any more and not in the topic, and Survive
otherwise. `LossesArePaid` follows from the same steps: a message becomes lost
only in a step that counts a failure, one at a time.

**Server.** `KakaoInv` ties the calls of a login to its phase, bounds the
failures in a row by what the blamed logins may have contributed (one login
alone contributes at most its attempts, so `Threshold` failures have as many
logins as that takes), and keeps the probes inside the bulkhead.
`OnboardingInv` adds that an account leads to a row that exists. `RateInv`
counts for a key and a window the requests let through and those that have been
counted and have another key to hit (`Through`): as long as the window lasts
they are at most the count of the key, each of them within the limit when it
came. It needs `KeysOutlive`, that a key which was set up in a window does not
expire before the window ends, and the window of a clock as a quotient with its
two bounds (`WindowFacts`).

Only model-checked: `EveryEventSettles`, `EveryEventAudited`, `Heals`,
`EveryMessageNotified`, `ShutdownEnds` and `FailureIsTold`: liveness under
fairness is beyond the prover. No module with a theorem uses recursion.

## 5. The plan

Done, in the order of what the rest of the system leans on: `EventDelivery`,
`Outbox`, `EventPipeline` (every domain event), `Sessions` (every login),
`LikeCounter`, then `Property` and `Board`, `Notifications`, `Chat`, and the
parts of the server process, all with their proofs; then `Tenancy` and
`Messaging` above `Board` and `Chat`.

Next:

1. `Notifications` behind `EventPipeline`'s log instead of a producer of its
   own, with an abstract consumer group (at least once, in order, idempotent)
   that the audit worker, the fan-out and the chat's worker all implement.
2. WebSocket handlers in `Lifecycle`, composed with `Chat`'s publish: what a
   shutdown leaves unpublished.
3. An abstract specification of a login session above `Sessions`.
4. The collectors of `metrics/`, whose overlapping scrapes share a query.

## 6. Not modelled, and why

* Metrics: gauges and histograms for display. No component reads them, and a
  wrong sample is replaced by the next scrape.
* HTTP, WebSocket, validation, wiring, error formatting, tracing, logging: no
  state between requests. What the handlers of a controller do is in the
  modules of their components; the role and login guards are guards there.
* Topic creation at start-up: idempotent I/O.
* Message formats, notification texts, migrations, operations, load tests: no
  control that a property is about.
* Of what is modelled: event payloads and trace headers, `lastError`, the
  length of a backoff, names and hashes as text, access tokens (stateless, and
  valid until they expire whatever happens to the session), pushes to sockets
  (nobody keeps them), lists that only read rows.
