# A TLA+ model of yaxter

yaxter is a Twitter-like service in Go: an HTTP API, worker processes, Postgres
(sharded), Redis and Kafka. This directory holds TLA+ modules translated from
its source, TLC runs that check them on small instances, and TLAPS proofs.

## Inventory

### Processes and stores

| part | state it keeps | operations | interacts with |
|---|---|---|---|
| API pods (`cmd/api`, `internal/httpapi`) | node-id lease, in-process caches | REST handlers, bearer auth, rate limit, idempotency | Postgres, Redis |
| worker process (`cmd/worker`) | one goroutine per role | relay, fanout, counters, notifications, media | Postgres, Redis, Kafka, object store |
| Postgres | users, identities, follows/followers, tweets, likes, notifications, refresh_tokens, outbox, node_ids, media | single statements and transactions at READ COMMITTED | every module |
| Redis | timelines, counter hashes, dedupe keys, idempotency records, rate-limit windows, caches | single commands, no transactions | API and workers |
| Kafka | topics tweets.v1, engagements.v1, follows.v1, media.v1 | append, poll, autocommit of group offsets | relay, consumers |

### Components

| component (source) | state | operations | what is hard | what makes it correct |
|---|---|---|---|---|
| outbox and relay (`internal/relay`, `pkg/outbox`, `internal/events`) | outbox rows, advisory lock, broker log | insert in the caller's transaction; elect, select, publish, mark, delete | crashes and lost sessions between any two steps; ids ordered before commits; an advisory lock behind a session pool | nothing forgotten, nothing phantom, per-key order, rows owned once, everything published |
| refresh tokens (`internal/auth/refresh.go`) | token rows and families | issue, rotate, replay detection, logout | statements without a transaction, two requests with one token | a session never forks; a revoked family stays dead |
| idempotency (`pkg/idem`) | Redis record and lock per key | check, lock, run, record, unlock | check-then-act, lock expiry, client disconnect, retry | a handler's effect once per key, and again only for a lock run out, a late look or a lost record |
| snowflake ids and leases (`pkg/snowflake`) | node_ids rows, generator (last, seq) | acquire, heartbeat, release, next | late or hanging heartbeats, expired lease still used, clock regression, sequence wrap | ids unique and increasing per node |
| counters (`internal/counters`) | delta buffer, Redis hash, Postgres counts | consume, flush, read, reconcile | buffer swapped before the write, cache fill racing increments, redelivery | counts converge to the number of likes |
| consumers (`pkg/kafkax`, `redisx.Once`) | group offset, dedupe keys | poll, dedupe, handle, commit | dedupe before processing, skip on error | each event takes effect once |
| notifications (`internal/notifications`) | notification rows | handle follow/like/retweet, list, mark read | as for consumers; ids of two workers, late ids below the read mark | one notification per event; read means shown |
| media (`internal/media`) | media row status, objects, event | create, upload, complete, process | two completes, redelivery, storage errors skipped | status only moves forward, what is shown has variants, links name them |
| fan-out and timeline (`internal/fanout`, `internal/timeline`) | Redis lists, celebrity cache | fan out, remove, rebuild, merge | list evicted, rebuilt and pushed concurrently; threshold crossing | a follower's home shows each followed tweet once |
| follow graph (`internal/users`) | follows, followers, both counters, events | follow, unfollow, lists | row locks in opposite order; two requests about one edge | edges symmetric, counts equal edges, events replay to the edges, every request ends |
| tweets and likes (`internal/tweets`) | tweets, likes, caches | create, delete, like, unlike | two deletes, retweets of retweets, tweets deleted between two reads | one event per change, naming the original and its author |
| OAuth and passwords (`internal/auth`) | login state, identities, accounts | start, callback with three rules, link, create, unlink, register | two unlinks; accounts that appear between lookup and insert | only owners link; an account keeps a credential |
| rate limiter, cache loader (`pkg/redisx`) | sorted sets, LRU, flights | allow; get through the cache | pod clocks; a caller between two flights; one context for all | at most limit per window; fetches spaced by the TTL |
| sharding (`pkg/sharding`) | shard map, pools by name | read ranges, dial, find the pool of a key | overlaps, gaps, dialling that fails half way | each shard served by its owner |
| HTTP API (`internal/httpapi`, `pkg/apiclient`, `api/openapi.yaml`) | none but the middlewares' | 29 operations through limit, idempotency, bearer, wrapper, handler; retries | four views of one contract, two of them generated; tries that overlap, answers recorded under a key or lost | statuses are those the client decodes; a retry with a fresh token passes |
| worker roles (`cmd/worker`) | roles of each process | launch, connect, shut down | outages at start-up, roles that return silently | a role that cannot start comes back |

## Modules

| module | models | state | actions |
|---|---|---|---|
| `EventDelivery` | what the outbox promises its consumers | `emitted`, `log`, `settled` | `Emit`, `Deliver`, `Settle` |
| `OutboxRelay` | producers' transactions, leader election directly or through PgBouncer, publish transactions, the broker | rows, advisory lock (its session and how often that has taken it) and row locks as Postgres holds them; `pc`, `batch`, `sent` as the relay believes; the topic | one per statement of `Run`, `cycle`, `publishBatch`, `deleteOld`; failed calls, lost sessions, crashes |
| `RefreshTokens` | `Rotate`, `Logout`, family revocation | token rows, `pc`/`arg` of each request | one per SQL statement; a request may stop anywhere |
| `Idempotency` | `Middleware.Wrap` for one key | record, lock, `pc` of each request, what was stored, taken late or not saved | one per Redis call or handler step; lock expiry, leaving clients, failing Redis, handlers that refuse |
| `Snowflake` | `Generator.Next` as operators (clock readings in, id and state out), with the wrapping sequence | none | none |
| `NodeLease` | `AcquireLease`, heartbeat, exit and the generators of all processes | `node_ids` rows, process states, generators, ids issued, who was ever late, Postgres's clock | `AcquireLease`, `Heartbeat`, `Issue`, `Exit`, `Tick`; time does not wait for heartbeats |
| `Counters` | likes, consumer with dedupe and buffer, two flushers, reads, reconcile | rows, topic, offsets, seen keys, buffer, batches in flight, hash, `likes_count` | one per call; failures, crash, rebalance |
| `HomeTimeline` | tweet create and delete, follows, fan-out, rebuild, merge for one reader | graph, tweets, topic, Redis lists and caches, what each request has read | one per call; eviction, expiry, lost events |
| `Media` | one media row, its consumers, the tweet and the avatar (`UpdateProfile`) that use it, the links rendered to it | row, object, variants, uses, requests, handlers, partition owner and position | one per call; re-upload, rebalance, crash, failing handler |
| `FollowGraph` | `setFollow` by any number of requests | both edge tables, both counters, each request's next statement, events in commit order | one per statement, rollback, broken deadlock; locks follow from where the others are |
| `Notifications` | the worker's handlers, `List`, `MarkRead` for one user | dedupe keys, each worker's event and id, rows, `read_at` | one per Redis or SQL call; an event may come to any worker again |
| `Retweets` | `Create` and `Delete` as engagements see them | tweets, requests with what they have read, engagement events | one per read and per transaction |
| `Paging` | `edgePage`, notifications' `List`, `Profile`, `hydratePage` and a client that follows the cursors | rows, cursor, the page being built | query, one row at a time, answer; rows come and go |
| `RateLimiter` | the Lua script for one key, asked by pods with clocks of their own | entries with score and true time, the key's expiry | pass, deny, tick |
| `Loader` | `Loader.Get` for one key of one pod | entry, flight, where each caller is | one per look, join, fetch; LRU eviction, time |
| `Accounts` | `Register`, `Start`, `Callback`, `link`, `createUser`, `Unlink` | accounts, passwords, identities, each flow and unlink | one per query or transaction |
| `Api` | one operation from the generated client through the middleware stack to the handler and back, tried again at any time under one key | where each try is, its token and status, the lock, the recorded answer | one per middleware, Redis call, wrapper, handler; a lock that runs out, a record that is lost |
| `Sharding` | `NewMap`, `NewRouter`, `Pool` for any shard map file | owners, pools by name, open pools | one range, one dial at a time |
| `WorkerRoles` | `cmd/worker` processes and their roles | state of each role, whether Postgres answers | launch, connect or fail to, shut down, outage |

`MC*` modules give TLC the instance; `*Proofs` modules hold the theorems: `SocialProofs`
those of `FollowGraph`, `Notifications`, `Retweets`, `HomeTimeline` and `Paging`, `GatewayProofs`
those of `RateLimiter`, `Loader`, `Accounts`, `Sharding` and `Api`, each other one those of
its namesake. `OutboxRelay`
implements `EventDelivery`; `NodeLease` extends `Snowflake`. The consumers model Kafka as
the relay leaves it: a log per key that is read in order, perhaps again. Every action's
source lines are in `PROJECT.json` under "map".

`MCIdentity`, `MCConsumers`, `MCSocial` and `MCGateway` put several components into one run each. Their
components share no state: an initial choice (`part`) says which of them runs, the others
stay as they begin. A property of a component says nothing in the behaviours of the
others, and these add no behaviour to it; what is gained is one run in place of several.

How the components meet: `Api` says what tries that overlap under one key are answered,
`Idempotency` what they do to the database; `Retweets` and `FollowGraph` emit the
events `Counters`, `Notifications` and `HomeTimeline` consume, in the order and with the
repetitions `OutboxRelay` allows; `Accounts` leaves the tokens of a login to
`RefreshTokens`; `HomeTimeline` decides what is on the list `Paging` cuts, and `Loader` is
the cache that stands before its hydration.

What is one atomic step: a single SQL statement, a Redis command or pipeline, a
Postgres transaction where nobody sees its inside (`HomeTimeline`), an S3 call. What
a goroutine reads in one step and uses in a later one is kept in a variable between
them; that is where the hazards are.

## Runs

Every run takes less than four minutes on two cores.

| run | question | instance | distinct states |
|---|---|---|---|
| `relay` | does the relay keep its promises under errors, crashes, lost sessions, publish everything in the end, and implement `EventDelivery`? | 2 relays with lock sessions of their own, 3 events on 2 keys, batches of 2, ids one apart in clock skew, 1 error, 1 loss | 282 000 |
| `relay_pooled` | is everything still published behind PgBouncer in transaction pooling? (that rows keep one owner and duplicates need failures is proved for every `Pool`) | 2 relays, 2 server sessions, 2 events, 1 error, 1 loss | 204 000 |
| `relay_two_leaders` (violation) | is one relay active? | 2 relays, 1 server session, no failure | |
| `relay_key_order` (violation) | do the events of one key arrive in id order? | 1 relay, 2 events, no failure | |
| `refresh_reuse` (violation) | is a family dead after a replay? | 2 requests, 3 tokens | |
| `idem_once` (violation) | does a handler take effect once? | 2 requests, no failure, no expiry | |
| `identity` | `RefreshTokens`: can a session fork, a revoked one live, a replay pass unseen or an honest client be taken for one? | 3 requests, 3 tokens | 2 650 000 |
| | `NodeLease`: are ids unique and increasing over expiry, takeover, skew? | 3 processes (2 of one host, 1 that never heartbeats), heartbeats late or missing at any time, 2 nodes, 2 ids per ms, 7 instants | |
| `consumers` | `Counters`: is every like counted once, do counts settle? | 2 users, 3 events, 1 failure, 1 reconcile | 714 000 |
| | `Media`: do statuses move forward, have tweets and avatars their variants, do rows settle? | 2 Completes, 2 workers, 2 variants, 3 possible objects, 1 tweet, 1 avatar, 1 move, 1 failure | |
| `counters_hot` (violation) | does the shown count settle? | 2 likes, no failure | |
| `media_urls` (violation) | do the links that are rendered name variants? | 1 Complete, 1 worker, 3 variants, no failure | |
| `social` | `HomeTimeline`: does each followed tweet reach the home timeline? | 1 author at the threshold, 2 tweets, 1 change, 1 eviction or loss | 433 000 |
| | `FollowGraph`: do edges, counters and events agree, who can deadlock, does every request end? | 3 users, 3 requests out of 7 (mutual, same followee, follow and unfollow of one edge, self) | |
| | `Notifications`: can one come twice, or vanish unread? | 2 workers, 4 events (one of them the user's own), 3 rows | |
| | `Retweets`: do events name originals, do counts drift? | 2 users, 3 posts, 2 deletes | |
| | `Paging`: does a walk miss or repeat rows? | 4 rows, pages of 1 or 2, all three kinds of list | |
| `gateway` | `Idempotency`: how many handlers overlap or take effect? | 3 requests, 3 lock expiries, two may fail | 456 000 |
| | `RateLimiter`: how many calls pass in one window? | 2 pods, limit 2, window 4, skew 1, 5 calls | |
| | `Loader`: how often is a key fetched? | 3 callers, TTL 2 to 3, 4 instants | |
| | `Accounts`: who can link what, who loses all credentials? | 2 accounts, 2 e-mails, 2 subjects (one unverified), 2 flows, 2 unlinks | |
| | `Api`: what can the client not decode? | each of 29 operations, 2 overlapping tries, every token | |
| | `Sharding`: which maps are accepted, who serves a shard? | 3 shards, 1 or 2 clusters of 1 or 2 ranges out of 6 (overlapping, reversed, out of bounds), same or different names | |
| | `WorkerRoles`: which roles come back after an outage? | a process with all roles and one with fanout, 2 outages, 1 shutdown | |

`HomeTimeline` was also checked with two changes (1.5 million states, same result); the
run keeps one so that it stays short. The type invariants (`TypeOK`, `GraphTypeOK`, ...)
are stated in each module and hold in these instances; the runs leave them out, and the
proofs establish what they need of them.

### What the violation runs show

- `relay_two_leaders`: `TryAcquire` takes a session-level advisory lock, and the chart puts
  PgBouncer in transaction pooling between the relays and Postgres
  (`deploy/chart/README.md`, `ARCHITECTURE.md`). A second relay's try may run on the server
  session that has the lock; there it succeeds again, so two relays lead. What then holds
  is `relay_pooled`; `SingleActiveRelay` and `CommittedKeyOrder` need lock sessions of the
  relays' own (`Pool = {}`).
- `relay_key_order`: ids are taken before the commit, the relay selects by id what is
  committed. A slow transaction's event follows a later one of its key, against rule
  2 of `docs/events.md`. `CommittedKeyOrder` states what does hold.
- `refresh_reuse`: `Rotate` revokes the old token and inserts the new one in two
  statements. A replay that revokes the family in between misses the new token, so
  the family lives on. `RevocationIsFinal` states what holds: without a rotation half
  done, revocation is final.
- `idem_once`: the record is read before the lock is taken and not again under it.
- `counters_hot`: `Read` fills the hash with counts it read before an increment.
- `media_urls`: `tweetToAPI` leaves out `.webp`, so the `feed` and `thumb` links of a tweet
  name no object and `orig` names the upload the worker never re-encoded; the avatar
  next to a tweet or in a notification is such a link too. Profiles and the media's own
  answer have the right ones.

### What else the passing runs say

Several properties state what is true in place of what one would wish:

- `StrandedNeedsRace`: an account without a password loses its last identity only if
  two `Unlink`s overlapped; they can.
- `RetweetsBalance`: the events balance the retweets that exist, but for those two
  requests deleted at once: `Delete` does not look at `RowsAffected` (likes do).
- `HiddenNeedsTwoWorkers`: `MarkRead` hides a notification nobody was shown only when
  another worker's clock was behind; one worker alone never causes it.
- `WindowBound`: in any stretch shorter than the window less twice the skew, no more
  than the limit pass.
- `EffectsNeedCauses`: a key takes effect more than once only for as many causes: a lock
  that ran out, a lock taken although a record was there by then, a lock given back with
  the answer not stored. All three happen; the second is `idem_once`.
- `GapsKnown`: seventeen pairs of operation and status the contract does not list. Nine
  come from handlers, among them `followUser` 422 (the contract has 400 "Self-follow
  rejected") and `createTweet` 422 for media that is not ready; eight are the 409
  `request_in_flight` of `idem.Wrap` to a try while another runs. Besides, `idem.Wrap`
  refuses every `deleteTweet` and `completeMedia` of the generated client: the contract
  gives them no `Idempotency-Key`. And it records the 401 of bearer authentication, which
  is inside it: a write tried again under its key with a fresh token, as
  `web/src/api/fetcher.ts` does it, gets that 401 again for 24 hours.
- `LeaseExclusive`, `UniqueIds` are about processes none of whose heartbeats was late. A
  failed heartbeat ends the api (`log.Fatal`), but its `Exec` has no deadline, so that one
  may hang while ids are issued; nothing is claimed of such a process. Nor of the
  notifications worker, whose lease nobody renews: after the TTL an api pod can take its
  number while it runs.
- `FinalStatus` excuses two Completes or two handlers at once: no UPDATE of a media row
  looks at the status it overwrites. A second `Complete` that read `pending` early sets a
  `ready` row back to `uploaded`, although internal/media/service.go:89 speaks of an
  "idempotent re-complete"; a second handler, after a rebalance, takes one from `ready` to
  `failed`. `UploadedSettles` excuses a handler that failed: the worker counts on a
  redelivery, but the consumer skips the record and `Complete` emits no second event.
- `Complete` excuses a list that came back with a hole and authors who fell below the
  threshold. Rebuild-on-miss needs an absent list, and the worker's `LPUSH` makes one of a
  single tweet after an eviction, although `ARCHITECTURE.md` says that timelines heal
  themselves. A tweet made above the threshold is left to the merge for good, and the merge
  leaves its author out once it fell below.
- In each of these TLC finds the behaviour when the premise is taken away. The
  property says that there is no other way.
- `RolesRecover`: relay, counters and media come back after any outage. fanout and
  notifications log a failed connection and return, in a process that goes on answering
  `/healthz`, so with one role per pod nothing restarts them.
- `ShardsServed`: router pools are kept under the cluster's name; two clusters of one
  name pass `NewMap`, and then the wrong pool serves. Hence its premise.
- `DeadlocksAreMutual`: only users who follow one another at once can deadlock.

### Why the bounds are enough

Each property is about a conflict of two actors over one thing (row, key, token, node,
tweet); two actors and one more event than a conflict needs show it. Failures are
bounded at one or two per run because each property either excludes them or counts
them (`DuplicatesNeedFailures`, `OverlapNeedsExpiry`), and the theorems remove the bound
where there is one. `identity` needs enough instants for a lease to be written, expire
and be taken over: TTL 5 of 7. In `gateway` two of three requests of `Idempotency` may
fail, and two tries of `Api` are enough for one to meet the other's lock or record. `HomeTimeline` puts the threshold at two followers, so
that one follow or unfollow crosses it in either direction. `FollowGraph` has three requests
so that one can wait behind two that deadlock; `Paging` needs two full pages and one row
that goes between them; `RateLimiter`'s clock runs for two windows.

### Fairness

- `OutboxRelay`: each relay's loop goes on (a ticker in a goroutine, `Run`), and
  Postgres ends the sessions of dead clients. A try for the lock is fair only while nobody
  has it: PgBouncer may go on choosing another session than the one that does. It ends its
  server sessions in turn (`server_lifetime`), which frees a lock left behind. Producers
  need not finish.
- `Counters`: the consumer goroutine and the ticker goroutine run.
- `HomeTimeline`: the worker runs, a request finishes its Redis calls after the commit,
  a read fills the cache it queried for, and `celebs` has a TTL. Nobody has to read,
  tweet or follow.
- `FollowGraph`: a transaction runs its next statement unless a lock stops it, and Postgres
  breaks deadlocks. Clients need not ask.
- `WorkerRoles`: processes start and their roles connect or fail to, Kubernetes starts
  again what has exited, Postgres comes back. `GatewaySpec` assumes less than the
  module's `RolesFair`: that some role goes on, in each process's turn.
- `Media`: workers keep polling and finish what they began. Nobody has to complete.

All weak: nothing above is starved while it stays enabled.

## Theorems

Proved by TLAPS for all values of the constants, from the named assumptions of the
modules (finite bounds are natural numbers, model values differ from the data they stand
beside), and nothing else. Every invariant and every action property of the passing runs
has its theorem. Hardly any is inductive by itself; what has to be added is given here.

`OutboxRelayProofs`
- `ForgetsNothing`, `PublishesOnlyCommitted`, `RowsExclusive`: marking rows needs to know
  that what the relay remembers having sent is in the log, and that the rows it owns are
  the batch. `BatchInv` says so; `IInv` joins it with the three.
- `OneActiveRelay`: with lock sessions of the relays' own (`Pool = {}`), while none was
  lost, whoever is past the election holds the lock, and no dead session keeps one
  (`LeadsAlone`). Without the premise it is false (`relay_two_leaders`).
- `DuplicatesBounded`: an event has its occurrences in the topic, the relays that hold it
  unsent, and one chance more while its row is free. Their sum is at most one more than
  the failures (`CopiesInv`): publishing turns one into another, only a failure adds.
- `KeyOrderKept`, under the same premise: without a lost session no row lock hides a row from a relay, so a batch
  that holds an event holds every earlier one of its key that is committed and not yet
  published (`BatchClosed`), and a batch goes out in id order (`LogOrdered`).
- `Refinement`: `OutboxRelay` implements `EventDelivery`, action by action: a broker
  acceptance is `Deliver`, a marked batch is `Settle`, a commit is `Emit`, everything else
  stutters.

`RefreshTokensProofs`
- `NeverForks`, `RevocationFinal`: a live token comes only from a half-done rotation, and
  a rotation gets half done only by taking the live token, so per family there is at
  most one of either.
- `ReplayKnown`: the rows of a family are a chain in which every one but the newest has a
  successor that names it, and the live token is the newest (`Line`). It has the premise
  `Skew = 0`, as the run has. `Rotate` looks for a successor by a larger id; a pod whose
  clock is behind may give the successor the smaller one, and then the property is false.

`IdempotencyProofs`: two invariants that count.
- `BoundedOverlap`: the handlers running, less the lock, never exceed the expiries.
- `EffectsBounded`: of the requests that took the lock while nothing was recorded, those
  running or with an effect are at most one more than the expiries and lost records, and
  none more once the lock is free and nothing is recorded (`PromptBound`).
- `Typing` also says what a record is: the answer of a request that stored it, be it of a
  handler that changed the database or of one that refused.

`NodeLeaseProofs`: `Exclusive`, `Increasing`, `Unique`, the first and the last between
processes that were never late, whatever the late ones next to them do. Uniqueness over a takeover needs
`Every + 2 * Drift + Ahead < TTL` (assumed): the old holder's ids lie before its last
heartbeat plus `Every + Drift + Ahead`, the new one's after the lease's end less `Drift`
(`LeaseCurrent`, `GeneratorNear`, `NodesHandedOver`). In the code: 10 s, 30 s, and clocks a
few seconds apart.

`CountersProofs`
- `Balanced`: an event that is under way has not entered the buffer yet (`EnteredSeen`), so
  it joins the sum of deltas exactly when the buffer takes it; a flush moves a part of
  the sum, and the sums over disjoint sets of events add up (`OneMore`).
- `Once`: without failures, what was seen and what entered are the offsets up to the one
  at hand (`NothingSkipped`).

`MediaProofs`
- `VariantsThere`: the status may go back, so the invariant is about the store: what a
  handler ticked off is there, and `ready` or a tweet or avatar that saw it means all of it.
- `StatusFinal`, `VariantsOfOneUpload`: until two Completes or two handlers overlapped, a
  Complete is under way only while the row is pending, a handler only while it is
  uploaded, and one of them at a time; what a handler has put is of the image it decoded
  (`Calm`). So nobody is left who would overwrite a final status or mix two uploads.

`SocialProofs`
- `Consistent`, `MutualDeadlocks`: a request that reached its second row of users still
  holds its edge, so what it saw of it is what it changes when it commits; with that,
  each counter moves by the edge that comes or goes. A circle of waiting requests must
  have each of its members hold something, and only a request at its second row of users
  both holds a users row and waits for one.
- `EventsReplay`: an edge is there exactly if it was there at first and its events are even
  in number, or the other way round; by the above a commit adds an event only with a change.
- `OneNotification`, `UnseenNeedsTwo`: an event whose key is set is in one worker's hand, is
  one row, or was lost to a failure; ids of one worker rise with its rows; what the user
  was shown are the first rows, and `newest` is the highest id of them (`NotesInv`).
- `OriginalsNamed`, `EventsAddUp`: what a request carries as its original is one, with its
  writer, and every retweet that was posted is of an original (`Flat`); the events of a
  tweet less those taken back are its retweets that stand (`Balance`), unless two deletes
  of one of them overlapped.
- `NothingMissed`: a tweet due to the reader is in the author's list or about to be
  (`InUTL`), an author who was a celebrity at a tweet's creation is one as long as none
  fell below the threshold (`StaysCelebrity`), and a tweet of any other is in the reader's
  list, being pushed by the worker, or found by the rebuild that an emptied list waits for
  (`InTL`). What the merge shows then has either the one or the other.
- `WalksComplete`: between requests the client has every row that stayed, down to its
  cursor (`Walked`); during one, what was found lies above what is still looked at, and
  nothing that stayed is missing down to the next cursor (`PageBuilt`). That a cut leaves
  a last row with no more than a page above it is `NewestRows`, for lists of any length.

`GatewayProofs`
- `Bounded`: the entries in Redis hold every call let through in the last window less
  twice the skew, because a pod cuts by a score that is at most that much older, and the
  key outlives them (`RecentHeld`). A call passes only below the limit, so a stretch of
  time that ends with it holds at most `Limit`.
- `FetchesSpaced`: who is about to fetch leads the only flight and found nothing cached
  after it took the lead; nobody else fills the cache in between (`OneFlight`).
- `OwnersOnly`: what a flow carries between its steps (the account it found, the subject
  it was told) was justified when it was read and e-mails never change, so it is
  justified when it is written.
- `NeverStranded`: an account without a password and without overlapping unlinks has an
  identity, and one of another provider than that which an unlink is about to delete
  (`AlwaysOpen`). It needs the primary key (`OnePerProvider`): without it the count of two
  that `Unlink` reads could be of one provider.
- `RouterSound`: the shards taken are those of the ranges read so far, each of one range
  (`RangesApart`), and with different names every cluster dialled has its pool (`Dialled`).
- `GapsAreAll`: every status a layer can give is one the client decodes, a listed gap, or
  excused by where it came from (`Expected`), and so is what is recorded and handed out
  again; a try waits for the lock only if the client sends a key (`AnswersInv`). The tables of the contract and the handlers
  are data: one lemma each reads off what holds of every operation (`DecodedAre`, `SentAre`,
  `Secured401`, `SentSuffices`, `HandlersListed`, `InFlightListed`).

Typing is proved wherever a proof needs it.

Only model-checked: all liveness (`EveryEventPublished`, `CountSettles`,
`EventuallyComplete`, `RequestsEnd`, `RolesRecover`, `UploadedSettles`), which the prover does
not reach, and with it `WorkerRoles`, whose one property is of that kind; and the
violations, which TLC shows by a behaviour. The theorems remove the bounds on the number
of users, requests, events, rows, workers and failures, not the abstractions below.

## Abstractions and assumptions

- Each relay has a Postgres session of its own for the lock (`Pool = {}`), as with session
  pooling or none, or its lock statements run on any session of `Pool`, as with transaction
  pooling, which the chart configures. Which session runs a publish transaction is left
  out: the pool has one free for each. A session that runs such a transaction is lost as
  before.
- A process whose heartbeat is later than `Every` goes on and counts as late for good;
  the notifications worker, which never calls `Heartbeat`, is the silent process and late
  once it has run for `Every`. The media worker's node 0 issues no ids.
- Dedupe keys and idempotency records do not expire (24 h) while the model runs; the
  lock, the celebrity cache and the counter hash do.
- Lists stay below their caps (800 and 200 entries), and the order inside is left
  out: reads sort by id.
- Payloads are left out except what a handler branches on: the follower count in
  `TweetCreated`, the key, like or unlike.
- A consumer polls one record at a time in `Media`; a real poll returns many, of which
  the rest are handled like the one.
- A `Create`, `Delete`, `Register` or `createUser` that loses a unique constraint fails and
  changes nothing. Usernames are left out of `Accounts`.
- `Api` knows an answer by its status. A handler that answers 500 may have committed.
- A pod's clock is off by a constant in `RateLimiter`; when Redis fails the limiter lets
  requests pass, and `WindowBound` is about the others.
- SQL runs at READ COMMITTED; each statement sees what was committed when it began.

## Not modelled

- `ForEachShard` and the hash of a key: a loop that groups keys by owner and calls a
  function per group until one fails, and a pure function. No store uses the router yet.
- `GetByID`, `GetByUsername`, `UnreadCount`, tweet hydration: single statements that read
  rows. `UpdateProfile` is in `Media` for the avatar; the bio it overwrites is left out.
- The caps of the cached lists; a list that is full would need as many entries.
- Password hashing and JWT signing (pure functions), protobuf encoding, pre-signing.
- The api's start-up, configuration, logging, tracing, metrics, the seed tool, the web
  front end but for its retry, deployment and infrastructure.

What could follow: one `Consumer` specification of Kafka's delivery that `Counters`, `Media`
and `Notifications` refine, proved as `Refinement` is; a bound on what `ReplayDetected` loses
when clocks differ; an abstract home timeline that `HomeTimeline` and `Paging` implement
together.
