# WhisperSocial-Backend in TLA+

WhisperSocial is a small social network: users follow each other, write short
posts and read a timeline. It is a set of Go services over one MySQL database
and one Redis server. Hardly anything in them is transactional across the two
stores, and most handlers are sequences of separate statements and commands, so
the interesting questions are about what happens between two of them.

This directory holds

- TLA+ modules, one per component, and two that compose components: the path of
  a post (`PostPipeline`) and the consumers of the message queue
  (`EventPipeline`);
- TLC configurations for small instances of them (`MC*.tla`, `MC*.cfg`);
- proofs for every instance, checked by TLAPS: `FanoutWorkerProofs`,
  `FollowServiceProofs`, `AuthServiceProofs`, `PostPipelineProofs`,
  `EventPipelineProofs`, `TimelineCacheProofs`, `RateLimiterProofs`,
  `TokenStoreProofs`;
- `PROJECT.json`, which relates every definition to the lines it models.

To check a run: `tlc -config MCFanoutWorkers.cfg MCFanoutWorker`. To check the
proofs of a module: `tlapm FanoutWorkerProofs.tla`.

## 1. The system

| Component | State it keeps | Operations | Module |
|---|---|---|---|
| follow-service | table `followers`, unique on (user, follower) | `POST /follow`, `POST /unfollow`: COUNT, then INSERT or DELETE; reads: followers, counts, `GET /feed` | `FollowService`, `FollowGraph` |
| post-service | table `posts`; stream `post_created_stream` | `POST /posts`: SELECT status, INSERT, XADD | `PostService` |
| fanout-worker | consumer group `fanout_group` with its last delivered entry and pending list; sorted sets `timeline:<user>` | XREADGROUP; count followers, page through them, one Redis pipeline per page; XACK; shutdown on a signal | `FanoutWorker`, `TimelineZSet` |
| admin-service | `users.status`, `posts.deleted_at` | `PATCH /admin/users/:id`, `DELETE /admin/posts/:id`: soft delete, list followers, one ZREM each; listings and statistics | `AdminService` |
| timeline-service | none of its own | `GET /timeline`: whom the caller follows, then their live posts, both from MySQL | `TimelineService` |
| timeline paging | reads the sorted sets | a page of ids by score, a ZSCORE for the next cursor, a query for the rows | `TimelineCache` |
| auth-service | table `users` | register; login; update: read the row, change the copy, write it back | `AuthService` |
| JWT tokens (shared) | Redis keys `refresh:<user>` and `blacklist:<token>` | generate, refresh, revoke, blacklist, clean up, check | `TokenStore` |
| message queue (shared) | RabbitMQ queues and the dead letter queue | publish; consume with retries by republishing; acknowledge, reject | `MessageQueue` |
| notification-service | table `notifications` | a row per event; deliver, page, mark, delete | `NotificationService` |
| WorkerManager | a pool of RabbitMQ consumers and their metrics | start, handle, stop | `WorkerManager` |
| rate limiter (shared) | sorted set `global_rate_limit`, one for all services | trim, count, add, expire in a pipeline, before every handler | `RateLimiter` |
| Redis/DB configuration, RedisLock | connections, `lock:` keys | connect, monitor; nothing takes a lock | left out |
| security middleware, wiring | none that outlives a request | filters over header and body texts; routes, environment | left out |

How they interact. A post is inserted by post-service and announced in the
stream; a worker of the group reads the entry and writes the post's id to the
sorted set of every follower of the author; admin-service may delete the row and
remove the id from the sorted sets; follow-service changes the followers
meanwhile; auth-service and admin-service both write rows of `users`. There are
no calls between services: everything goes through shared tables and keys.
`GET /timeline` and `GET /feed` read the tables, so the sorted sets are, at this
commit, maintained and not read by any route.

Some parts are in the repository but not in operation. `config.InitRabbitMQ` and
`PublishMessage` have no callers and nothing constructs a WorkerManager, so the
message queue and what hangs on it carries no events: `main` of the notification
service hands `SubscribeToEvents` the nil `config.RabbitMQ`, whose channel
`ConsumeMessages` uses at once, so that the process, built as it is, panics before it
listens. EventPipeline is the subscriber with a connection, as its code is written
for. The refresh and blacklist operations of the token store have no callers, and
no handler calls the reader of the sorted sets. These are modelled as the libraries
they are: their callers are whatever the operations allow.

### What is hard here

- **Interleaving between statements.** A handler of follow-service checks and
  writes in two statements; post-service reads a status and inserts later; an
  update of a user writes back a whole row it read two statements earlier; the
  worker counts the followers and then reads pages by `LIMIT/OFFSET` while the
  rows move; a refresh compares a key and replaces it in separate commands.
- **Failure in the middle.** Row stored but no event; entry delivered but the
  worker gone; half a pipeline executed; a ZREM, an UPDATE or a republish whose
  error is ignored.
- **Retries below the code.** go-redis sends a command again when its reply is
  lost (`MaxRetries` in `shared/config/redis.go`): XADD appends twice, a
  blocking XREADGROUP moves on past entries nobody received, a pipeline runs
  twice. RabbitMQ delivers again what was not acknowledged.
- **Competing consumers.** The notification service and the fan-out workers of a
  WorkerManager subscribe to the same queue, so each event reaches one of them.
- **Shutdown.** `main` of the worker closes the connections and returns; it does
  not wait for the consumer goroutine, whose context another goroutine cancels.
  `WorkerManager.Stop` waits for goroutines that no longer do anything, while
  the handlers run on.
- **Clocks and cursors.** Tokens carry whole seconds while their keys expire by
  durations; the cursor of a timeline is a second, and exclusive; the rate
  limiter's window is trimmed by requests in another order than their times.

`PROJECT.json` lists these at their lines, with the properties that would catch
each going wrong.

## 2. The modules

Every SQL statement, Redis command or message is a step; a handler is the
sequence of its steps with the failures of each, and other handlers act between
them. A failed write may have been committed. A process may die under a call.

**FollowGraph** is what the follow API promises with each request atomic;
**FollowService** has the handlers: `Begin` (the use case's refusal of oneself),
`CheckFollow`/`CheckUnfollow` (COUNT), `Insert`, `Delete`, and their failures. A
duplicate key error is reported as `exists`, like the answer of the check. It is
shown to implement FollowGraph (`ImplementsFollowGraph`). The promise is
asymmetric: a follow that is told "ok" added the relation, an unfollow that is
told "ok" may have been the second of two to remove it, because a DELETE that
matches no row is no error.

**PostService**: `Submit`, `CheckStatus`, `Save`, `Publish` and the failure of
each, `PublishReplyLost` for a repeated XADD, `CallLost` for a dying process;
`SetStatus` and `SoftDelete` are what the admin service does meanwhile.

**TimelineZSet**: a timeline as a function from posts to scores, with ZADD, ZREM
and the trim by rank.

**FanoutWorker** is the core. The state is the author's followers in MySQL; the
stream, the group (`groupUp`, `delivered`, `pending`), the timelines and their
expiry in Redis; and for each worker process the phase of its `main`, whether
the consumer's context is cancelled, where the consumer loop is (`pc`), the
entries of its last read (`inbox`) and the local variables of
ProcessPostCreated (`job`). The correspondence:

| Action | Code |
|---|---|
| `Start` | `main` up to `StartConsumer`, XGROUP CREATE from 0, a new consumer name |
| `Loop`, `Read`, `ReadFails`, `ReadReplyLost` | the `for`/`select` of the consumer, XREADGROUP `>` with COUNT 10 |
| `SkipMalformed` | an entry without valid ids is acknowledged and dropped |
| `Count`, `FetchPage`, `NextPage` | ProcessPostCreated: one COUNT, then pages |
| `ZAddNext`, `TrimNext`, `ExpireNext`, `PageDone`, `PipelineRetried` | AddPostToTimelines, command by command |
| `GiveUp`, `Ack`, `AckFails` | how the consumer leaves an entry |
| `Signal`, `CancelContext`, `CloseDB`, `CloseRedis`, `Exit` | the two goroutines that react to SIGTERM |
| `Crash` | the process is killed |

A blocking read that was sent is not recalled when the context is cancelled, so
`Read` does not ask for it; the check of `ctx.Done()` is in `Loop`. The consumer
loop is one goroutine that handles the entries of a read in order.

**AdminService** and **TimelineService** have the actions of their handlers; they
are instantiated by **PostPipeline**, which puts PostService, FanoutWorker,
AdminService and TimelineService on shared tables and keys. Each of its steps is
a step of one service, and it is shown to behave, in PostService's and in
FanoutWorker's variables, as those specifications say.

**AuthService**: `Register` and `Insert`; `Login` and `Read`; `UpdateInfo`,
`Find` (FindByEmail gives the copy that is changed), `Locate` (the repository
looks the row up once more, by the new e-mail) and `Write` (UPDATE of every
column of the row that has the new e-mail, the id included); `SetStatus` is the
admin service. Because the row is selected by the new e-mail, an update that asks
for another e-mail never succeeds: nobody has it and the call fails, or another
user has it and the primary key refuses the write. A bcrypt hash stands for the
password it verifies.

**TokenStore**: `GenerateTokenPair` and `RefreshToken` begin a call, `Sign` takes
the second of the clock, `Store`/`StoreFails` is the SET, whose failure is only
logged; `RevokeRefreshToken`; `BlacklistToken`; `CleanupFinds`,
`CleanupTTLFails`, `CleanupEnds` are the SCAN, TTL and DEL of
CleanupExpiredTokens; `Tick` lets keys expire. `Accepted` is what AuthMiddleware
lets through. A token is the record of what is signed: two pairs signed for a
user in one second are equal. A refresh parses the token and reads the key in one
step: nothing but the clock is between them.

**MessageQueue** has the broker (publish, deliver up to the prefetch, expire,
disconnect, requeue) and the goroutine of ConsumeMessages (`Receive`, the handler,
`Republish`, `Ack`, `Nack`). After a connection breaks the goroutine goes through
the deliveries its process had, without effect on the broker, and ends.
What the broker takes back are the unanswered deliveries of all goroutines of the
process, which share the connection. They return to the front of their queue in
any interleaving that keeps the order of each goroutine; an earlier form of the
action returned those of one goroutine only, which the proofs of the next section
did not let pass.
**WorkerManager** has the worker goroutines, their metrics and `Stop`.
**NotificationService** has the handler (an INSERT), the delivery goroutines, the
calls that mark and delete, and the pages. **EventPipeline** composes the three.
The handlers of the workers and of the notification service are the two
`Handle...` actions; what a worker does with an event is FanoutWorker's matter and
succeeds or fails here.

**TimelineCache** has `GetPostIDs`, `GetScore` and `GetPostsByIDs` of one page, a
client that follows cursors to the end, and the commands by which the other
services change the sorted set.

**RateLimiter** has the sliding window command by command, for all services that
share its key. Their clocks are taken to agree, and a pipeline to end within its
two-second timeout.

### What is external

Modelled from how the code uses it, and marked so in the map: sorted sets and
the pending list of Redis; expiry; the order in which MySQL returns the rows of
a page without ORDER BY, taken to be that of the index `idx_user_follower`, which
covers the query, so by follower id; the client's retries; delivery, requeueing
and dead-lettering of RabbitMQ; the kill of a process. A connection that breaks
has executed a prefix of its pipeline.

## 3. The runs

| Run | Instance | Shows |
|---|---|---|
| `follow` | 2 users, 3 calls | `OneFollowWins`, `AnswersMatchTable`, and the refinement of FollowGraph: the check-then-act of the handlers is still atomic to clients, because of the unique index |
| `fanout_workers` | 2 workers, 2 entries, 2 posts in timelines of 1, 1 failure, crash or signal | `OneHolder`, `StrandedWereHit`, `TimelineBounded`, `ExpiryArmed` |
| `fanout_pages` | 2 workers, 1 entry, 3 users in pages of 2, 2 changes, 1 failure | `AckMeansReached`; `EntriesSettle`: while one worker stays up no entry waits for ever |
| `pipeline` | 1 author, 2 users, 1 post in up to 2 entries, an admin call, 1 change of followers, a read | `EventsHaveRows`, `SuccessMeansPublished`, `BlockedThroughoutSavesNothing`, `ReadsAreCurrent`, `TimelinesHoldPublishedPosts`, `CalmDeletionIsComplete`, `PostedReachesFollowers`, and that the composition is still a behaviour of PostService and of FanoutWorker |
| `accounts` | 2 accounts, 2 calls, status changes | `EmailsBelongToOneRow`, `PromisedPasswordKept`, `UpdatesStayInTheirRow`, `NothingOlderThanTheCall` |
| `tokens` | 1 user, 2 calls at a time, seconds of 3 ticks, lifetimes of 1 and 2 seconds | `RevokedTokensStayRefused`, `SpentTokensStaySpent`, `LastTokenLives`, `SignedOutUsersStayOut` |
| `events` | 2 of 3 events (good, malformed, unknown), a notifier and a worker, 1 retry, 1 fault | `NoEventDisappears`, `DeadLettersWereTried`, `HandledOnce`, `OneNotificationPerEvent`, `MetricsAddUp`, `EventsSettle` |
| `timeline_pages` | 4 posts, timelines of 3, pages of 2, 3 seconds, 2 changes | `NothingTwice`, `ScrollIsComplete` |
| `rate_limiter` | 3 requests, limits 1 and 2, window 3 | `AdmittedUnderLimit`, `RefusedWithCause`, `ForgottenOnlyWhenDue` |

Each property is stated in words at its definition. `TypeOK` is in the runs
`follow`, `fanout_workers` and `accounts`; the other modules state
theirs, and the runs leave them out for the properties they are about.

Three runs show where a statement of the repository does not hold:

- `fanout_churn`: "distributes the wisper to all followers' timelines"
  (`post-service/README.md`). One unfollow between two pages shifts the offsets,
  a user who has followed all along is skipped, and the entry is acknowledged. In
  the trace the followers 1 and 2 are counted, the first page of one writes to 1, who
  then unfollows; 2 has moved into the first page, the second page is empty, and the
  entry is acknowledged. The run looks at behaviours in which followers only go
  (`OnlyUnfollows`); without this restriction TLC finds a shorter way: with one
  follower and one page, a user with a lower id who follows between the COUNT and the
  page takes the place of the follower who was counted.
  `AckMeansReached` says what does hold: everybody is reached whose place in the
  paging order did not move.
- `pipeline_delete_race`: deletion "removes its ID from follower timeline Redis
  ZSET keys" (`RUNBOOK.md`). A fan-out under way writes the id again
  afterwards, for good. `CalmDeletionIsComplete` says when it is true.
- `notification_scroll`: "use cursor-based infinite scroll"
  (`docs/frontend-api.md`). The loop that should split the cursor yields it as
  one part, so every page is the first one.

Other things the models made visible, without a run of their own.

- An entry whose processing failed stays pending for ever: XREADGROUP asks for
  `>` only, the consumer name is new with every start, and no entry is claimed
  (`Stranded`). `StrandedWereHit` bounds the damage to the entries that met a
  failure, and `EntriesSettle` counts a stranded entry as settled for that
  reason.
- An author who is blocked between the SELECT and the INSERT of a post still
  gets it stored; `BlockedThroughoutSavesNothing` is what is left.
- Two updates of a user that overlap overwrite each other, and an update that
  overlaps with a deactivation may undo it. `PromisedPasswordKept` and
  `NothingOlderThanTheCall` say how far back an update can reach: to what the row
  held since the update began.
- `RevokedTokensStayRefused` has the two exceptions that the cleanup makes: it
  deletes an entry whose TTL it failed to read, and one with half a second or
  less left, which Redis rounds to 0. `SpentTokensStaySpent` and
  `SignedOutUsersStayOut` hold for users whose calls did not overlap: two
  refreshes with one token may both succeed, and a sign-out between the GET and
  the SET of a refresh is undone.
- A failed publish for a retry loses the event, since the original is
  acknowledged all the same (`lost` in `NoEventDisappears`).
- `ScrollIsComplete` excepts the other posts of the second at which a full page
  ended, which the exclusive cursor passes over, and a ZSCORE that comes after
  its post was moved or removed, whose 0 makes the client end early.
- A request that the rate limiter refuses extends the window like one it admits,
  so a client that does not pause is refused for as long as it goes on, and a
  service with a small limit (admin: 300) is closed by the traffic of the others
  (1000).

### Bounds

`MaxEntries` (entries added to the stream), `MaxPublished` and `MaxRows` (events,
notifications), `MaxTime` (ticks of the clock), `MaxChanges` (follows, unfollows
and other commands of the environment) and `MaxFaults` (failed calls, lost
replies, broken connections, crashes and signals together) bound what would grow
without end; they are in guards only, and the proofs hold for all their values.
They are chosen so that the case in question can happen and be over: two pages
and a change between them and after them; two workers and as many entries, so
that one can hold an entry while the other reads, crashes, or starts under a new
name; timelines one shorter than the number of posts, so that a trim evicts, with
post ids 9 and 10, whose order as texts is not that of their numbers; one failure
more than is needed to break a job. A page of two (100 in the code) and reads of
two entries (10) make full, partial and empty pages and reads. The rate limiter
needs two windows and the lifetime of its key to pass. In `tokens` a second has
three ticks, so that a rounded TTL is 0 while the token lives, and the clock
passes the end of the first refresh token. In `events` one retry (5 in the code)
gives a first, a last and a refused delivery, and a prefetch of two (10) leaves a
message behind the one that is handled. In `timeline_pages` four posts and three
seconds give pages that end within a second.

In the runs with `CHECK_DEADLOCK FALSE` the system may really stop: all calls
have been answered, all events handled, or all workers are down.

### Fairness

`EntriesSettle` and `PostedReachesFollowers` assume that a worker process that is
up takes the steps of its consumer loop and of its shutdown (`WF_vars(Consume(w))`,
`WF_vars(Shutdown(w))`): both are goroutines with nothing to wait for but replies
and timeouts, which the scheduler runs. `EventsSettle` assumes the same of the
goroutines of ConsumeMessages and of the manager, and that the broker delivers to
a connected consumer with room in its prefetch. Nothing is assumed of starts (no
supervisor is part of the repository's worker), of clients, of administrators or
of failures. All have as hypothesis that some worker, or some consumer of the
queue, stays up. `EventsSettle` holds whether or not `Stop` was called.

## 4. The proofs

Eight modules of proofs, each for every value of the constants under the named
assumption of the module it is about.

**FanoutWorkerProofs**, from `FanoutAssumption` and `ZSetAssumption` (finite sets
of users, workers and posts, positive page and read sizes, different ranks for
different texts):

1. `TypeCorrect` (`TypeOK`). `TypeInv` adds `Shape`: what `pc`, `inbox` and `job`
   may be together. It is needed because types alone do not say that a worker at
   `zadd` has a follower left to write to, or that a worker at `entry` holds an
   entry of the stream; without it `First(job[w].todo)` and
   `stream[Current(w)]` have no type.
2. `NoSharedEntry` (`OneHolder`) and
3. `OnlyHitEntriesStrand` (`StrandedWereHit`), both from `HoldInv`, their
   conjunction, which is inductive on top of `TypeInv`: a read delivers only
   entries beyond `delivered`, which nobody can hold, and an entry leaves a
   worker's hands by an XACK or together with its entry in `hit`.
4. `AcknowledgedMeansReached` (`AckMeansReached`). `CoverageInv` says of a worker
   that has read the first k pages: every owed follower whose rank among the
   current rows is below k times the page size has been written, or is in the
   batch that is being written. The argument has three parts. A follow or
   unfollow takes from `owed` everyone behind it in the order, so the rank of
   those who remain never changes; a page of rank k contains every row whose rank
   is in its range; and an owed follower was among the counted rows, so its rank
   is below the counted number, hence below the number of pages times the page
   size. The last page being done, everyone owed is below the limit.

5. `TimelinesStayBounded` (`TimelineBounded`). The property is not inductive: a
   worker that is shutting down may drop a timeline it has written to and not
   trimmed, at no cost to `faults`. `SizeInv` therefore counts the workers that
   may still do so (`Doomed`), whose signals are in `faults` already:
   members + doomed is at most the limit + faults + workers at the trim, and
   doomed at most faults, which is what a trim needs to come back within the
   bound. Every other step of a worker is shown to pay for what it leaves
   (`Paid`). That a trim leaves at most the limit (`TrimBound`) is an injection:
   no two members that stay have equally many above them, since the order of a
   sorted set is total.
6. `TimelinesExpire` (`ExpiryArmed`): while `faults` is 0 no process is shut down
   (`QuietInv`), so that nothing takes a worker away between its ZADD and its
   EXPIRE.

**FollowServiceProofs**, from `FollowAssumption` (finitely many calls):

7. `TypeCorrect` (`TypeOK`) and `RefinesFollowGraph` (`ImplementsFollowGraph`):
   with `NotAboutOneself` (a call past its first step is not about oneself) every
   step of a handler is a step of the graph or a stutter. INSERT and DELETE carry
   the answer; a COUNT that decides the answer is the moment of the call.
8. `AnswersAgree` (`AnswersMatchTable`) and `OneFollowIsGranted`
   (`OneFollowWins`). The second counts calls: `GrantsInv` says that the grants of
   a pair are at most the removals of it, and one more while it is in the table;
   an INSERT that succeeds turns the one into the other.

**AuthServiceProofs**, from `AuthAssumption` (the absent field is no value):

9. `TypeCorrect`, `OneRowPerEmail` (`EmailsBelongToOneRow`),
   `StoredPasswordStays` (`PromisedPasswordKept`), `UpdatesHitTheirRow`
   (`UpdatesStayInTheirRow`) and `NothingOld` (`NothingOlderThanTheCall`), all from
   one inductive invariant: `TypeOK`, one row per e-mail, the promise, and
   `CallInv`, which says of a call what it knows: the row it read still has the
   e-mail it asked for; the status and the password of its copy are of a row that
   its window holds, the call's own password aside; past `Locate` the copy has
   the new e-mail; and a call that asks for another e-mail has not been answered
   with success. With it and one row per e-mail, the row that `Write` selects is
   the one the call read, or the primary key refuses.

**PostPipelineProofs**, from `PipelineAssumption` (0 is no id, authors are users,
finitely many users, positive limits of reads and pages):

10. `RefinesPostService` and `RefinesFanoutWorker` (`ImplementsPostService`,
    `ImplementsFanoutWorker`): every step of the composition is a step of either
    specification, its environment's included, or leaves its variables alone. They
    need `TaskInv`: a deletion by the admin service is of a row that exists and of
    an author that is one, because the handler read it before; and `PostInv`: what
    a call appends is an event of a post and an author. So the safety of
    FanoutWorker, which holds of every behaviour of its Init and Next, holds in the
    composition.
11. `EventsNameRows`, `SuccessIsPublished` and `BlockedSavesNothing`
    (`EventsHaveRows`, `SuccessMeansPublished`, `BlockedThroughoutSavesNothing`) of
    the composition. `PostInv` says of a call what it has stored and published, and
    that rows keep their authors.
12. `ReadsOnlyCurrent` (`ReadsAreCurrent`), with `ReadsInv`: the users whom a read
    holds were followed at some moment of it, and what it returns was live, by an
    active author, at some moment of it.

13. `TimelinesNamePublishedPosts` (`TimelinesHoldPublishedPosts`) and
    `CalmDeletionsComplete` (`CalmDeletionIsComplete`). Both need `HandsInv`, what
    the workers have in their hands across all services: entries of the stream that
    the group has delivered, and, as long as nobody has followed or unfollowed,
    pages of users who follow the author. So a ZADD, the only command that puts
    anything into a timeline, writes the post of an event, which has its row, and
    (`FollowersOnly`) into the timeline of a follower. `CalmInv` follows a deletion
    that was begun when its post had been fanned out: the post stays fanned out,
    because ids are not used twice and a worker takes only entries that were never
    delivered, so nothing puts it back; and without an error it is left at most in
    the timelines that the call has still to go through.
    `TypeCorrect` is of all the variables of the composition; what the other
    invariants do not say of them is in `RestTypeOK`.

**EventPipelineProofs**, from `EventAssumption` (finitely many goroutines, a worker
is no notifier, a positive prefetch), all on the inductive `PipelineInv`:

14. `TypeCorrect` (`TypeOK`), `NothingDisappears` (`NoEventDisappears`),
    `TriedBeforeBuried` (`DeadLettersWereTried`) and `AtMostOnce` (`HandledOnce`),
    from the part about the queue. `MessageInv`: a message is of a published event,
    stands in a queue of its routing key, and counts no more retries than the event
    has failures. `GoroutineInv`: where a goroutine is says what it has in its hands,
    and what it has after its connection broke is marked in `doubled`. The next two
    speak of what is still open: a goroutine at its acknowledgement is done with the
    first message of its inbox, which is with the broker again, handled or lost.
    `KeptInv`: a published event that is not lost is open in a queue or with a
    connected goroutine, or was handled, or is dead. `OnceInv`: an event that never
    was with a broken connection is open in one place only and once there, is then
    neither handled nor dead, and its message counts exactly its failures, but for
    the one the goroutine is dealing with. That the requeueing of interleaved
    deliveries keeps every message once is proved from the injection into the
    deliveries that defines it.
15. `OneRowPerEvent` (`OneNotificationPerEvent`) and `CountersAddUp`
    (`MetricsAddUp`). The first with `RowsInv`, which bounds the rows of an event by
    the times it was handled as long as every answer of MySQL came back. The second
    with `MetricsInv`: what a worker counted and passed over is at most the number
    of pairs of a foreign event and a time it was handled, so that a counter never
    runs ahead of the events.

16. `RecipientsOnly` (`OnlyRecipientsChange`) of NotificationService by itself: only
    calls of the recipient change a notification, and no call changes a row that
    another deleted since it looked, from `CheckedInv` (a call past its check is
    about a row that its user owns). No run lists it.

**TimelineCacheProofs**, from `ZSetAssumption` and `CacheAssumption`:

17. `TypeCorrect`, `NoRepetition` (`NothingTwice`) and `EverythingIsShown`
    (`ScrollIsComplete`). `ShownInv`: what was shown, and not written again, is gone
    or at the cursor or above, and the next page is strictly below. `StayedInv`:
    what stayed, and was neither shown nor passed over, is still below the cursor,
    and while a page is under way it is on the page, as old as the last of it, or
    older. This needs that a page has a last post and that what is left of the
    range is no higher, for every page size; that a finite set of members has a
    lowest and a highest one is proved from the well-foundedness of strict
    inclusion, since induction is not available.

**RateLimiterProofs**, from `RateAssumption`:

18. `TypeCorrect`, `FewerThanTheLimit` (`AdmittedUnderLimit`),
    `RefusalsHaveACause` (`RefusedWithCause`) and `NobodyForgottenEarly`
    (`ForgottenOnlyWhenDue`). `AnsweredInv` says that what a trim
    leaves is of the window or came in since, so that a request counts rivals only
    (`RivalsInv`). While no pipeline has broken, `CalmInv` says that whoever was
    admitted within the window is still in the sorted set when a request counts
    (`AdmittedInv`). Its difficult part is the expiry of the key, which removes
    everybody at once: a request in the middle of its pipeline may find a deadline
    close at hand, set long ago, but then another request is about to send the
    EXPIRE that moves it (`Covered`). This is where the assumption that a pipeline
    ends sooner than the key outlives the window is needed (`Timeout` at most
    `Grace`: two seconds and one minute in the code). The same invariant, before and
    after a tick, gives the last of the four; a trim cannot take an entry early,
    because the time it compares with is past.

**TokenStoreProofs**, from `TokenAssumption` (a second has ticks, and lifetimes are
positive):

19. `RevocationHolds` (`RevokedTokensStayRefused`), `SuccessorsReplace`
    (`SpentTokensStaySpent`), `LastTokenUsable` (`LastTokenLives`), `SignOutHolds`
    (`SignedOutUsersStayOut`) and `TypeCorrect`, from one inductive invariant.
    `TimesInv`: no key and no call carries a second yet to come, and a call that
    exchanges a token signs in that token's second or later. `RevokedInv`: a
    revoked token is on the blacklist or in its last half second, and of those
    that the cleanup has found expired all are; the rounding of the TTL is where
    the half second comes from. `OutInv`: who is signed out has no key and no call
    that could store one. `SpentInv`: while calls of a user never overlapped, what
    is spent is of an earlier second than the key, than the tokens of the running
    call and than whatever is still to be signed. `LastInv`: the key stored last
    has an expiry no earlier than its token. The lemmas on the integer division
    that turns ticks into seconds are proved from the division itself.

The lemmas on ranks, pages and the ceiling division are stated once, with the
facts about `Cardinality` they need from `FiniteSetTheorems`.

Model-checked only: liveness (`EntriesSettle`, `PostedReachesFollowers`,
`EventsSettle`), and ENABLED with it, which are out of the prover's reach. Every
invariant and every action property that a passing run checks is a theorem. No
module uses a RECURSIVE operator.

## 5. What is not modelled

- The handlers that only read (followers, counts, listings, statistics), apart
  from the timeline, the feed, which are one query, and the pages of notifications.
- The order of the rows of a timeline, the texts of posts, and the wording of
  answers. A result of a read is any `Limit` of the posts it may contain.
- The security middleware: it filters single requests by their texts and keeps no
  state.
- The life of the connections to MySQL and Redis (pools, monitors, reconnection),
  and `RedisLock`, which nothing takes. No property here depends on them.
- The limiter of fiber that timeline-service puts before `GET /timeline` (200
  requests of a user in five minutes). It keeps its counts in the memory of the
  process and in library code, and decides only whether a read begins.
- Operations without a caller that no library model needs: the fixed window and
  the other keys of the rate limiter, `ProcessMessages` of the worker manager,
  `ProcessEvent` and `BatchCreate` of the notification service. Role checks and
  `InspectToken` of the JWT middleware read only the token.
- Redis losing data, MySQL failing over, RabbitMQ losing what it stored, skewed
  clocks, and scores in doubles, which round the nanoseconds of the rate limiter.

## 6. Plan

What could be added: `RedisLock`, as soon as something takes it, and the routes that
would put the message queue and the sorted sets into operation.
