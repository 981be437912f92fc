# CodeWarzz: specification and verification

CodeWarzz is an online judge. A user submits code through the API gateway, the
core service stores the submission and queues it, an evaluator runs it in a
sandbox, the verdict goes back to the core service, and accepted contest
submissions move the leaderboard. This directory holds TLA+ specifications of
the parts of the system that keep state and can get it wrong: where processes,
requests, crashes or message redelivery meet, and where a cached or derived
value can differ from its origin. TLC models check them on small instances,
and TLAPS proves their safety properties for every value of the constants. Paths below are relative to the repository.

## 1. The system

| Component | Source | State it keeps | Talks to |
|---|---|---|---|
| API gateway | `api-gateway/src` | in-process LRU (L1), Redis (L2), in-flight table, token buckets, Bloom filter | every service over HTTP, Redis pub/sub |
| Core service | `core/src` | PostgreSQL (submissions, users, contests, outbox, event streams), Redis (locks, idempotency keys, run results, caches) | RabbitMQ publisher, gRPC server for evaluators |
| Transactional outbox | `core/src/service/outbox.service.ts` | `outbox_messages` rows | PostgreSQL NOTIFY, RabbitMQ |
| Event store | `core/src/service/eventStore.service.ts` | `*_events` rows with a version per entity | PostgreSQL, events exchange |
| Go evaluator (2 replicas) | `evaluation-service-go` | nothing durable; Redis set of solved problems | submission queue, core and leaderboard gRPC |
| TypeScript evaluator (2 replicas) | `evaluation-service/src` | Redis: solved set, processed keys, run results | submission queue, verdict and plagiarism queues, core REST |
| Leaderboard service | `leaderboard-service/src` | Redis sorted set (write model), sorted set + hash (read model) | verdict queue, gRPC, pub/sub |
| Plagiarism worker | `core/src/queues/plagiarism`, `core/src/service/plagiarism` | fingerprints, reports | plagiarism queue |
| RabbitMQ wrapper | `*/src/queues/rabbitmq` | one channel per process, retry and dead-letter queues | RabbitMQ |
| Shared utilities | `core/src/utils`, `core/src/middlewares` | Redis locks, breaker state, buckets, idempotency keys | Redis |
| Web client | `web/src` | the refresh queue of each tab, attempts and polls of a page | gateway over HTTP and SSE |

A submission travels: `POST /submissions` -> row + outbox row in one
transaction -> CDC listener or poller publishes -> `submission.queue` (both
evaluators compete for it) -> `GetProblem`, sandbox, `PersistVerdict` -> solved
set in Redis -> leaderboard (Go: gRPC, TypeScript: verdict queue) -> read model
projection -> pub/sub invalidation -> gateway caches and SSE streams.

### Components, what is hard, what makes them correct

**Transactional outbox.** One batch is one database transaction: claim
(`FOR UPDATE SKIP LOCKED`), mark `IN_FLIGHT`, publish each row, commit. Batches
started by NOTIFY overlap with those of the poller; the broker cannot be rolled
back. Hard: a crash after a publish, confirms that are lost, a channel that
closes under a `drain` wait. Correct if no two batches hold a row, if `PUBLISHED`
means that the broker has the message, if every extra copy has a cause, and if
every row settles.

**Verdict persistence and event store.** `persistVerdict` takes a Redis lock
for an AC verdict and runs `updateSubmission`: one transaction that updates the
submission and the solved count, and appends an event through another pool
connection. Hard: racing writers of one event stream, the retry of an append,
the lock's TTL, a pool with as many transactions as connections. Correct if
streams have no gaps, a committed verdict has its event, and every update ends.

**Evaluators.** Two services with different handlers compete for one queue.
Hard: duplicates, a crash or a lost channel at every step, a call that failed
after it took effect, the republication of a job for a retry. Correct if no job
is dropped, if only accepted and stored verdicts are credited, and once per
user and problem.

**Leaderboard service.** Writes go to a sorted set, reads come from a
projection. Hard: a projection that is not awaited, a verdict consumer next to
the calls, a cold read model with several readers. Correct if the read model is
behind only for a known reason, if verdicts are kept, if a reader does not
mistake a cold model for an empty contest unless the model ran out under it, and
if a cold model is projected by few readers at a time.

**Gateway cache.** Two cache levels and a table of requests in flight, with an
await between the look-up and its use. Hard: coalescing around the moment the
leader answers or fails, invalidation that races a fill, a Redis that is away for
any time and then applies writes that nobody waited for. Correct if one request
per process is at the origin, if whoever waits for a leader is answered, and if
entries age out in bounded time once they are written.

**Leaderboard order and snapshots.** A solve is encoded twice, as points with a
penalty in the fraction, and decoded once; every two minutes the board is
copied to PostgreSQL. Hard: two services that compute penalties from different
clocks, a capture that runs while scores change. Correct if points and then
time decide, and if a snapshot is a whole board of its moment.

**Contests.** Registration, problems and running contests are read through
Redis; a submission passes the gate of the running contests with its problem.
Hard: a fill that races the delete after a write, lists that are a minute old.
Correct if an answer is stale only after such a race, and if strangers pass the
gate only around the start.

**Bloom filters.** Bits are set after the row, rebuilt by every starting core
instance, and read by the gateway. Correct if a row that exists is denied for
no reason but a lost add or a rebuild.

**Sandboxes.** Two implementations judge the same submission. Hard: one time
limit or one per test, limits rounded down or up to seconds, stderr, verdicts that
the column's enum does not have. Correct if `AC` is deserved, and if it depends on
who took the job for known reasons only.

**Plagiarism worker.** Fingerprints by winnowing, five checks at a time, with
retries. Correct if of two similar submissions one reports the other.

**RabbitMQ connection.** Dial, channel, prefetch, and only then handlers.
Correct if a process without a channel is always on its way to one.

**Circuit breaker, token buckets, `withIdempotency`, `Saga`.** Counters that
several processes or calls share. Hard: outcomes from before an outage, clocks
that differ, limiters that let requests through when Redis fails, keys that
expire under their holder, steps that fail after taking effect.
Correct if each count is what the events that are left to it explain.

**Standings, profiles, stream.** Computed from submissions; the page fetches
again when the stream says so. Hard: rows that become visible late, answers
that overtake each other, updates while the stream is down. Correct if
standings only improve, if a quiet page is right, and if the views agree.

**Web session.** Tabs share cookies, the row of a user holds one refresh token,
the interceptor of a tab queues what got a 401. Hard: a token that another tab
rotated, a refresh that gets a 401 itself. Correct if nobody waits for a
refresh that is over.

**Accounts.** Sign-up, sign-in and the exchange of a refresh token each read the
row of a user and write it later. Hard: requests of one user that overlap,
answers that are lost, two tokens of the same second. Correct if a browser's
cookie is the one in the row, and if a replaced token does not come back.

**Go gRPC client.** One breaker for the calls to the core and to the leaderboard.
Hard: failures of one service shut out the other, and a job whose problem
cannot be fetched goes to the dead letters. Correct if that takes failures of
many workers in a row, and if a half-open breaker is decided.

**Drafts.** Every tab keeps its own copy of all drafts and writes it as a whole.
Correct if the last draft is kept unless a tab wrote that was behind.

**Problem pages.** A poll is sent every second whether or not the last one was
answered, and the editor's shortcuts start attempts that disabled buttons would
not. Correct if the last attempt's outcome is the one shown, and if every attempt
ends that is not pending for ever.

## 2. Plan

Modules are written in the order in which a wrong step would hurt most.

| Step | Module | Question | State |
|---|---|---|---|
| 1 | `Delivery`, `Outbox` | is an accepted submission relayed? | modelled, checked, proved, refinement |
| 2 | `Verdicts` | is a verdict recorded and counted? | modelled, checked, proved |
| 3 | `Evaluation` | is each job evaluated and credited? | modelled, checked, proved |
| 4 | `EdgeCache` | does the cache answer, and how old are its answers? | modelled, checked, proved |
| 5 | `Leaderboard` | how far may the read model be behind? | modelled, checked, proved |
| 6 | `Contests`, `Bloom`, `Standings`, `Archive` | may a copy disagree with the rows? | modelled, checked, proved |
| 7 | `Judge`, `Plagiarism` | is a verdict or a report deserved, whoever gives it? | modelled, checked, proved |
| 8 | `Connection`, `Breaker`, `GrpcClient`, `RateLimit`, `Idempotency`, `Saga`, `Accounts` | do the shared utilities keep count, and a row and its copies agree? | modelled, checked, proved |
| 9 | `Session`, `Pages`, `Drafts` | does the client wait for what will come, and show the latest? | modelled, checked, proved |
| 10 | proofs about steps 6 to 9 | the same for every value of the constants | proved: `GuardsProofs`, `ServicesProofs`, `WebProofs` |
| 11 | `Pipeline` | `Delivery`, the queue and `Verdicts` composed | planned |

Abstract specifications: `Delivery` is what the outbox promises, and may be the
environment of `Evaluation` in a composition. Every safety property that a
passing run checks is proved; what the plan has left is step 11.

## 3. Models and code

In every module an action is a stretch of code between two points at which
others can act: between two awaits of a handler, one database or Redis command,
one Lua script, one commit. "History" variables are marked in the declarations;
no action reads them in its guard. Operators named after a mutation ("Mutant:"
in their comment) are not part of a specification; they are plausible slips of
the code with which the properties are tested.

**`Outbox`** (`outbox.service.ts`, `publisher.ts`). `status`, `attempts` are the
committed columns; `claimed`, `todo`, `draft` the open transaction of each relay
(an invocation of `processOutboxBatch`); `copies` what the broker has taken.
`SaveOutboxMessage` is the insert with its trigger, `OnNotification` and
`PollerTick` the two callers, `Claim` the locking select with its LIMIT and
order, `PublishConfirmed / Refused / Unconfirmed / RefusedUnheard / BufferFull`
and `ChannelCloses` the ways a publish goes, `CommitBatch` and `AbortBatch` the
end of the transaction. `CDCConnect`, `CDCLost`, `Crash`, `Restart` are the
notification client and the process.

**`Delivery`** is the outbox without rows, transactions and timers: a message
is accepted, copies reach the broker while it is open, it is settled for good.

**`Verdicts`** (`grpc.server.ts`, `submission.service.ts`,
`eventStore.service.ts`, `distributedLock`). One user and problem. A call is a
gRPC verdict, a REST update (which takes no lock) or the creation event of
`submitSolution`. `Acquire`, `Begin`, `UpdateRow`, `ReadVersion`, `InsertRow`,
`Collide`, `PublishEvent`, `Commit` are the statements in their order; `Fail` is
the rollback with the release. A transaction keeps a pool connection, a query
borrows one. `CallAgain` is an evaluator that calls again.

**`Evaluation`** (`consumer.go`, `consumer.queue.ts`, `rabbitmq/consumer.ts`). A
worker is a goroutine of the Go pool or a handler within the TypeScript
prefetch; `at` is the next call of its handler, and the two handlers differ
where the code does (`IsGo`). `owned` are the deliveries the broker still waits
for: when the connection drops they return to the queue while the handler runs
on. A failed call may or may not have taken effect. `PublishRetry`,
`RetryUnconfirmed`, `GiveUp`, `SettleLost` are the retry of `consumeQueue`.

**`EdgeCache`** (`cache.ts`). One URL; a body is the time it was sent. `L1Hit`,
`L1Miss`, then `RedisGet` (the command is evaluated) and `L2Hit`, `Coalesce` or
`Lead` (the reply is handled) are the middleware; `SendBody`, `SendError` and
`SendErrorUnheard` the patched `res.send`. `SendBody` sends a setex and does not wait
for it: it is in `writes` until Redis applies it (`ApplySetex`), which may be any
time later because the client queues commands without limit
(`redis.config.ts:15`), or until it is lost (`SetexFails`). The TTL counts from
then, and `waited` records how much later that was than the body. Redis evaluates
the commands of one process in order, so a get that was sent after a setex sees it.
`SendErrorUnheard` is `emit("error")`
without a listener, which throws before the table entry is deleted. Whether the
process then ends (`ExitAfterThrow`) or runs on depends on who catches it; both
are allowed.

**`Leaderboard`** (`leaderboard.service.ts`, `leaderboard.readmodel.service.ts`,
`grpc.server.ts`, `verdict/consumer.queue.ts`). A score is the update that wrote
it. `UpdateLeaderboard` and `ProjectAfterUpdate` are a call and the projection it
does not wait for; `IsIdempotent`, `Acquire`, `ApplyVerdict`, `Release`,
`MarkProcessed`, `Ack`, `Retry` the verdict consumer; `GetTop`, `TakeColdLock`,
`ProjectCold`, `DropColdLock`, `List` a reader. The projection is one action
because it is one Lua script. The read model's 48 hours count from the last
projection, so `ModelExpires` may come at any moment, also between the EXISTS and
the ZREVRANGE of a reader; `outlived` records the readers to whom that happened.

**`Archive`** (`consumer.go`, `consumer.queue.ts`, `leaderboard.service.ts` of
the leaderboard and of the core). `UpdateLeaderboard` is the encoding by the
worker and the one by the service: a Go worker takes the minutes a submission
waited, a TypeScript worker twice the minutes since the start, or no penalty
when it could not read the contest. `TakeSnapshot`, `ReadBoard` and
`SaveSnapshots` are a capture, whose time is from before it reads.

**`Contests`** (`contest.service.ts`, `contest.repository.ts`,
`submission.service.ts`). A request goes from `Look` (Redis) to `Select`, `Fill`
(the cache write), `Admit` or `WriteRegistration` / `DeleteRegistration` /
`WriteLink`, and `Sweep` (the deletes after a write). `RedisFails` lets a
command fail where the code swallows that. Time passes in units of a minute.

**`Bloom`** (`bloom.service.ts`, the gateway's `bloomFilter.ts`). `Create` and
`SetBit` are the row and its add, which nobody awaits; `SelectIds`,
`DeleteFilter`, `AddSelected` the rebuild of a starting instance, which another
instance's may interleave. `Blocked` is the gateway's answer.

**`Judge`** (`internal/sandbox`, `evaluation-service/src/sandbox`). A program is
what it does on each test. `GoReport` and `TsReport` are the two computations of
a verdict, each with its own limit (`GoLimit` leaves out the fraction of a second,
`TsLimit` rounds it up), `Persist` the enum column, `Refused` the requeue.

**`Plagiarism`** (`plagiarism.service.ts`, its repository and queue). `Gram`,
`Winnowing`, `Similar` are the algorithm on short codes; `StoreFingerprint`,
`GetFingerprintsForProblem`, `WriteReports` the steps of a check.

**`Connection`** (`rabbitmq/connection.ts`). The fields of the class and the phase
of `_connect()`. `BrokerFails` at any phase shows what the handlers that are not
attached yet would have done.

**`Breaker`** (`circuitBreaker/index.ts`). `calls` are under way while anything
happens; `Hear` is the OPEN message of another process.

**`GrpcClient`** (`internal/grpc/client.go`, the handler of `consumer.go`). A
worker goes from `Take` to GetProblem, `Run`, PersistVerdict and
UpdateLeaderboard; each call is `Begin` (gobreaker's test, which may refuse) and
`Answer` (its outcome is counted if the generation is still the one the call
began in). `GiveUp` is what the handler does when a call fails. The library's
part is modelled from its version 1.0.0.

**`Accounts`** (`auth.service.ts`, `auth.repository.ts`, `cookie.helper.ts`). A
request is sent with the cookie of its browser, finds a row (`Find`), may insert
one, and replaces the row's token (`Update`); the answer sets the cookie
(`Deliver`), or is lost (`Fail`). A token is its user and its second, as in the
JWT. `Session` has the tabs and the interceptors around these requests.

**`RateLimit`** (the core's and the gateway's limiters). Redis expires keys by
its own clock, the scripts compute with that of the host that asks. `FailOpen` is
the catch of both, which lets the request through; `RunsUnheard` a script that runs
although its reply is lost.

**`Standings`** (`submission.repository.ts`, `user.repository.ts`,
`user.service.ts`, `sse.ts`, `ContestLeaderboard.tsx`). `Standing`, `Solved`,
`UserStatus` are the queries over `rows`; a row's number is its `created_at`, so
that `Commit` may make it visible after a younger one. `GlobalLeaderboards` are the
lists that the ranking query may return: its ORDER BY and LIMIT do not say which of
equal users are cut off. `Publish`, `Ask`,
`Serve`, `Answer` are the stream and the page, whose answers may overtake each
other; `GetSolvedCounts` and `GetSubmissionStats` two queries of a profile.

**`Idempotency`** and **`Saga`** (`idempotency.middleware.ts`, `saga`). One key
with its callers; one saga whose `execute()` may be called again. Neither has a
caller in the program yet.

**`Session`** (`api.ts`, the guards, `auth.service.ts` of the core). The server
answers in one step (`Answer`, `AnswerRefresh`) and the tab handles it in
another: `DeliverUnauthorized` queues a request or starts the refresh,
`QueueRefresh` is the refresh that gets a 401 itself, `RefreshFails` the logout.
A second device that signs in replaces the row's token (`SignInElsewhere`).

**`Pages`** (`Problem.tsx`, `ContestProblem.tsx`). An attempt is a run or a
submission with its interval; `AnswerDone` and `PollFails` clear it, other
answers may still be under way. `Start` is a button, which `isRunning` disables;
`Shortcut` is the editor's key binding, which calls the same handler without a
test, as it was in the render in which the editor mounted (`home`). The contest's
page stays mounted when the problem changes (`GoTo`), the problem's page does not;
its one place for outcomes also takes pending statuses and errors (`NoOutcome`).
`Settle` is the judge, of which nothing is assumed, and `Hang` the session's refresh
that waits for itself, behind which requests may not end.

**`Drafts`** (`codeEditorStore.ts`, `useAuthStore.ts`). `Open` reads the storage,
`SaveCode` writes the tab's whole copy, `Logout` clears both. What a page shows
is what its tab's store has.

`MCServices` and `MCWeb` hold several of these modules: `Init` chooses which one
a behaviour is about and the others do not move. They do not interact in the
code, so a product of them would only multiply states; with the choice each
keeps the states it has alone.

## 4. What is checked

| Run | Instance | Shows |
|---|---|---|
| `outbox` | 2 rows of the same instant with 2 attempts, 2 relays, batches of 2, one crash, one aborted batch | `ClaimsAreExclusive`, `PublishedReachedBroker`, `NoRowStaysInFlight`, `CopiesAreExplained`, `SettledIsForever`, `EveryRowSettles`; `ImplementsDelivery` |
| `verdicts` | 2 submissions of a pair, 2 gRPC calls, 1 REST call, 1 creation event, pool of 5, 2 append attempts, one redelivery, one fault | `StreamsHaveNoGaps`, `VerdictsAreRecorded`, `LockedUpdatesExclude`, `EveryUpdateEnds` |
| `evaluation` | 2 accepted submissions of one pair, 1 Go worker, 2 TypeScript handlers, 1 retry, 2 faults | `CreditsAreEarned`, `CreditedOnce`, `EveryJobSettles` |
| `evaluation_mixed` | contest, practice and run job, 1 worker each, 1 fault | `NothingIsDropped` on every branch of the handlers |
| `edge_cache` | 2 processes, 3 requests (2 in one process), TTL 2, 4 ticks, 1 purge or restart, any setex late, lost or sent twice | `NoEntryOutlives`, `OneLeader`, `FollowersAreHeard`, `EveryRequestEnds` |
| `leaderboard` | 1 user, 1 update call, 1 verdict with duplicates, 2 handlers, 3 readers (the third while no verdict is handled), 1 retry, 2 faults | `LaggingIsExplained`, `VerdictsAreKept`, `TopIsServed` |
| `services` | the services' modules of steps 6 to 8 (`Accounts` and `GrpcClient` too), see below | `CopiesAreExplained`, `GateIsClosed`, `StandingsOnlyImprove`, `VerdictsAreDeserved`, `ReportsAreRight`, `ConnectionIsMinded`, `GuardsKeepCount` |
| `web_client` | 2 tabs with 2 requests each, one expiry or sign-in more than the first; or a page with 2 problems, 3 attempts by button or shortcut, 2 overlapping polls, 1 change of problem; or 2 tabs with 2 drafts and 3 changes | `WaitersHaveARefresh`, `PageIsUpToDate`, `RequestsEnd`, `AttemptsEnd` |

Type invariants: each module's `TypeOK` is checked by its run (`evaluation_mixed`
for `Evaluation`, `PartsTypeOK` for all modules of `services`). Four further runs
show a place where the code does not do what the repository says of it:

| Run | What the repository says | What the code does |
|---|---|---|
| `verdicts_pool` | `core/src/service/submission.service.ts:166-167`: row, solved count and event commit together | each update holds a connection and waits for another one: with as many updates as connections none ends |
| `verdicts_solved` | `core/src/service/submission.service.ts:166-167`: the solved count moves with the first accepted submission | the best submission is read after the transaction wrote its own, which is then never "the first" |
| `evaluation_lost` | `README.md:302`: no evaluation data is lost when a container is killed | a worker dies or loses its connection after SADD; the next attempt, of whichever service, finds the pair solved, skips the leaderboard and acknowledges (dead-lettered jobs are excepted) |
| `archive_ties` | `evaluation-service-go/internal/queue/consumer.go:297`: earlier submissions win ties | the penalty is the time a submission waited for its verdict, not the time it was made |

The properties of `services` that gather several modules are conjunctions of
those modules' own: `CopiesAreExplained` of `StaleIsARace`,
`BlockedIsExplained`, `PageCatchesUp`, `ViewsAgree`, `SnapshotsAreBoards`,
`ScoresRank`, `CookieIsCurrent` and `SpentStaysSpent`; `GuardsKeepCount` of
`BreakerIsConsistent`, `AdmittedWithinRate`, `RunsAreExcused`, `LeftBehind`,
`DeadJobsAreBlamed` and `HalfOpenIsDecided`. `PageIsUpToDate` of `web_client` is
that of `Pages` and `DraftsAreLatest`; `TopIsServed` of `leaderboard` is
`EmptyTopIsExplained` and `HerdIsBounded`: each expiry of the cold lock lets one more
reader project, whoever deletes whose lock.

Instances of `services` (requests and service instances are interchangeable, so
symmetry is used for them): contests with one contest, 2 requests at a time and a
failed Redis command (then until the contest ends), or with 2 overlapping contests
and one request; a filter
of 2 identifiers that share a bit, 2 instances and 3 rebuilds; programs of up to
3 tests and a time limit of half a second, which one sandbox rounds down and the
other up; codes of 2 to 4 tokens of 2 kinds, grams and windows of 2; 2 attempts
(10 in the code) and 3 broker failures; 2 breakers with threshold 2 and 2 calls
each; 2 hosts with clocks one unit apart, a bucket of 2 and one failed script; 2
submissions and the page, or 3 submissions in the contest, or 3 outside it with a
profile or of 2 users, and a leaderboard of one; 3 callers of a key; 3 executions of a saga
of 3 steps; 2 users with 2 solves and one capture at a time; one account, 2
browsers, 3 requests and 2 seconds; 3 workers and a breaker with threshold 3 and
2 trial calls.

Bounds. Two actors of each racing kind are what every race in this code needs;
a third one adds no new pair. Where a third matters it is there: two who wait
beside one who runs (`Idempotency`), as many workers as the breaker's threshold
(`GrpcClient`; with fewer no job can be lost), three submissions for a first, a better and
a late one (`Standings`). One more attempt than the first one reaches both
branches of each retry test. On a page three attempts are
needed: an answer that the first one left under way ends the second, whose own
answer is still to come when the third has begun. With two, the outcome shown
could only be late, never an older attempt's under a younger one's name, and a
property that overlooked it passed. `MCWeb` admits a third attempt on the page of
a contest's problem only and while it is mounted, a second one only when nothing
hangs or crosses and the problem's details are there, and one attempt before or
after a change of problem; the proof (`EachPartAlone`) has no such bounds.
`MaxFaults`, `MaxCrashes` and the like cap how
many faults a behaviour has, not where: a single one is tried at every step.
Deadlock is checked for `outbox`. The other passing runs, and the violation
runs beside them, say `CHECK_DEADLOCK FALSE`: their systems stop when all
requests, calls, jobs or attempts have ended.

Fairness. An awaited call to a database, a broker or a service ends or fails, so
a handler that is running goes on (weak fairness of its steps); the poller's
`setInterval` fires again; RabbitMQ hands a message to a consumer with room; a
Redis key with a TTL expires. In the gateway's cache only the handling of a reply
is fair: its Redis client waits as long as Redis is away, and a proxied call has
no limit. In the web client answers or timeouts come (axios has a timeout) unless
the session hangs, and intervals fire while they are set; that a submission is ever
judged is not assumed.
Nothing is assumed of what the code does not provide: no process is restarted,
no notification arrives, no connection comes back, nobody has to send a request
or to sign in. Where the code can wait for ever, the liveness property names
it: `EveryRowSettles` excepts rows held by a relay that waits for `drain` on a
closed channel; `EveryRequestEnds` begins when Redis has answered, and excepts
requests that wait for an origin that never answers and a process with an orphaned
emitter; `RequestsEnd` a tab whose refresh is in its own queue; `AttemptsEnd` an
attempt that is polled for while it stays pending for ever (FAILED outbox rows,
dead-lettered jobs and refused verdicts leave a submission so) and a session that
hangs.

## 5. What is proved

The theorems hold for every value of the constants that satisfies the named
assumptions of the modules, and rest on nothing else. Every invariant and every
action property that a passing run checks, and the refinement, is the statement
of one.

| Module | Invariant is inductive because it adds | Theorems |
|---|---|---|
| `OutboxProofs` | what an open transaction knows of its rows (`DraftAgrees`: the status it will commit fits the attempts and the broker), and that a relay works inside its claim (`TxShape`) | types, `ClaimsAreExclusive`, rows tell the truth (three invariants), `CopiesAreExplained`, `SettledIsForever`, `ImplementsDelivery` |
| `VerdictsProofs` | that the version a call read stays one of its stream (`ReadsAreReal`), that a call past its append has its event (`AppendedBeforeCommit`), and that whoever is past acquire owns the key (`HoldersHold`) | types, `StreamsHaveNoGaps`, `VerdictsAreRecorded`, `LockedUpdatesExclude` |
| `EvaluationProofs` | what a worker has established at each step (`Claim`), that a delivery is owned while its service has a consumer (`Connected`), that one worker per pair is about to credit it (`Arbitrated`) | types, `NothingIsDropped`, `CreditsAreEarned`, `CreditedOnce` |
| `EdgeCacheProofs` | the age bound of each entry and of each reply on its way, counted from when its setex was applied (`Ages`), and that the table holds leaders of its own process | types, `NoEntryOutlives`, `OneLeader`, `FollowersAreHeard` |
| `LeaderboardProofs` | that a slot past its ZADD has applied its verdict (`AppliedBefore`), and that a reader which saw scores finds the read model warm once it need not wait, unless that ran out under it (`ScoredSeeScores`), and that the free lock has room for its next holder (`HerdHasRoom`) | types, `LaggingIsExplained`, `VerdictsAreKept`, `TopIsServed` |
| `GuardsProofs` | see below, component by component | `ConnectionIsMinded`, `GuardsKeepCount`, `VerdictsAreDeserved`, `ReportsAreRight`, `EachGuardAlone` |
| `ServicesProofs` | see below | `GateIsClosed`, `StandingsOnlyImprove`, `CopiesAreExplained`, types of all modules of `services` (`PartsTypeOK`), `EachServiceAlone` |
| `WebProofs` | see below | `WaitersHaveARefresh`, `PageIsUpToDate`, types, `EachPartAlone` |

Each proof has one lemma per action or per group of actions that touch the same
conjunct, and a last step by cases over `Next`. The refinement is proved as in
`StepRefines`: every step of `Outbox` from a state of the invariant is a step of
`Delivery` or changes none of its variables. `ClaimsAreExclusive` is needed there:
without it a commit could settle a row that another relay has settled before.

The modules of steps 6 to 9 do not interact, so each has an invariant of its own
and the theorems about `MCServices` and `MCWeb` put them together. A run of those
chooses one module and bounds what it may do (`Init` and `Next` of the MC
modules); `EachGuardAlone`, `EachServiceAlone` and `EachPartAlone` state the same
properties of every module's own `Spec`, without that choice and those bounds.

What the invariants add to the properties:

- `Connection`: an open channel has an open connection and a broker that is up,
  and a phase under way has attempts left. Without it a broker failure could
  leave nobody to reconnect.
- `Breaker`: a half-open breaker is below its number of successes.
- `RateLimit`: what was admitted by the script was paid for by the tokens that are gone, up to
  the last refill, which is at most the largest skew after the last write
  (`Paid`); so a key that expires had been refilled.
- `Idempotency`: runs that happened, that callers at work may still make, and that
  a free key allows, are together one and the excuses (`RunsAreCounted`); without
  an excuse the key is held by the one caller at work (`OneHolder`).
- `Saga`: the executions that succeeded before this one, which the code does not
  count, and what failed halfway, is stuck or still done account for the effects of
  every step (`EffectsAreAccounted`); a step takes effect once in an execution
  (`OncePerRun`).
- `GrpcClient`: the failures that the breaker counts are of different workers, none
  of which has had an answer to its next GetProblem; a half-open breaker let through
  the calls under way and those that succeeded (`FuseIsSound`).
- `Judge`: a report is what the sandbox computes of the program, and a job that is
  back in the queue was refused by the enum; both limits
  are natural numbers. The one limit of the TypeScript sandbox
  covers a sum over the tests, which grows with each of them.
- `Plagiarism`: of two checks that have read, one saw the other's fingerprint
  (`HasSeen`); that a long enough run of tokens in common leaves a common mark is a
  lemma about winnowing for any grams and windows (`SharedRunsLeaveAMark`).
- `Contests`: for each cache entry, each fill under way and each admission,
  since when its answer may be wrong (`CacheSound`, `FillSound`, `AdmitSound`).
- `Bloom`: every row's bits are set or being added, were lost, or are in the list
  of a rebuild that is not over (`BitsCovered`).
- `Accounts`: a row's token is younger than those it replaced (`SpentAreOlder`), and
  a browser without an excuse has the row's token or an answer with it under way
  (`CookieFits`).
- `Standings`: every answer, shown or under way, is that of the rows, has a reason
  not to be, or will be followed by another one (`AnswerFresh`). That a new row only
  improves a user's standing is a lemma about sums over the problems solved, and that
  whoever is missing from the leaderboard has solved nothing, or no more than anyone on a
  full one, is another (`SolversAreListed`).
- `Archive`: a list that was read ranks, once and in order, whoever has not solved anything
  since the capture's time (`WholeBoard`), and a raw score is the points and a penalty that is
  smaller than one of them (`Placed`).
- `Session`, `Drafts`: the invariants that the run checks are inductive.
- `Pages`: only the last attempt is at work unless an answer was left under way or a
  shortcut put an attempt upon it (`OthersAreQuiet`), the ref holds the active run
  (`RefHolds`), what is polled for is what is shown (`ForShown`), an attempt is of a
  kind its page has (`OpsFit`), the outcome of the last attempt stays where it was put
  (`Told`), and whatever ended with an answer under way overlapped (`LeftBehind`).
  The attempt to prove the earlier form
  of the property failed at an answer that ends another attempt, and TLC then
  found three attempts that violate it; the property now names that case.

Assumptions worth knowing, all of them named in the modules or in `MCServices`
and `MCWeb`. `RateLimit`: clocks differ by no more than what a key's lifetime
exceeds the time to fill its bucket by; in the code that is ten seconds for the
core, and for the gateway most of an hour. `Breaker` and `GrpcClient`: thresholds and timeouts
are positive, as in the constructors' calls. `Archive`: a contest lasts less than
half of `MAX_PENALTY_MINS` (100 000 minutes, 34 days); beyond that penalties can
outweigh points. `Contests`: lifetimes of the cached answers are positive.
`Standings`: a problem's maximum score is positive, which its default of 100 is
and nothing changes. `Session`: no request is called "refresh". The constants
of `MCServices` that were definitions of the instance are parameters for these
proofs, with their values in the configuration.

Where TLC and the prover want different definitions, the prover's was taken if
TLC can evaluate it as well: `Order` of `Archive` is the injective list in which
each member is above the next ones, chosen, rather than sorted by an operator of
the library that the prover cannot open. Facts about sums and counts over data
are proved without the library's induction theorems, by taking the least number
at which a fact would fail.

Only model-checked: the liveness properties `EveryRowSettles`, `EveryUpdateEnds`,
`EveryJobSettles`, `EveryRequestEnds`, `RequestsEnd` and `AttemptsEnd` (the proof
system does not treat `ENABLED`, on which fairness rests), and the violation runs.

## 6. What reading the code showed besides

Differences met while modelling that no run is about; most are described by the
exceptions in a property.

- `core/src/queues/rabbitmq/publisher.ts:38`: `drain` never fires on a closed
  channel, and the relay's transaction (`outbox.service.ts:99`) stays open.
- `core/src/queues/rabbitmq/publisher.ts:48`: a nack that arrives during that
  wait is not seen by `waitForConfirms`, and the row becomes PUBLISHED.
- `core/src/service/submission.service.ts:191`: the event is appended on another
  connection and survives a rollback of the verdict.
- `core/src/service/submission.service.ts:81`: the creation event is appended
  after the commit and may come after the completion event; a replay
  (`eventStore.service.ts:41`) then ends in CREATED.
- `core/src/service/submission.service.ts:145`: the result "queued" of a run may
  overwrite "completed".
- `evaluation-service-go/internal/queue/consumer.go:252`: everything after the
  sandbox is skipped for a run, so that nothing stores the result the client
  polls for.
- `api-gateway/src/middlewares/cache.ts:67`: an L2 entry refills an L1 that was
  just purged, although `README.md:155` says the purge maintains consistency.
- `api-gateway/src/middlewares/cache.ts:103`: the setex is not awaited and its TTL
  counts from when Redis applies it; after an outage (`redis.config.ts:15` retries
  without limit) it brings back a body as old as the outage.
- `api-gateway/src/server.ts:105-111`: `filter(Boolean)` drops the leading empty
  segment, so `parts[1]` is the segment after the contest id.
- `leaderboard-service/src/queues/verdict/consumer.queue.ts:33`: the verdict
  consumer never projects, although the read model is said to be projected after
  every write (`leaderboard.readmodel.service.ts:13-15`); its scores appear with
  the next call or when the model has expired.
- `leaderboard-service/src/services/leaderboard.service.ts:41`: if EXPIREAT
  fails after ZADD the call reports an error for a score that is written, and
  nothing projects it.
- `core/src/service/outbox.service.ts:89`: a row whose attempts run out becomes
  FAILED and nothing tells its submission, which stays PENDING although
  `core/src/service/submission.service.ts:43-45` calls that impossible.
- `README.md:188` promises a fingerprint that makes sandbox execution
  exactly-once; the Go worker reads and writes none.
- `api-gateway/src/middlewares/cache.ts:112`: a leader that fails before anyone
  coalesced leaves an emitter that never fires, although by `README.md:153`
  coalesced requests are resolved when the first response arrives.

Scores. The worker encodes a penalty (`consumer.go:297-310`,
`consumer.queue.ts:301-303`) and the leaderboard service encodes again
(`leaderboard.service.ts:28-33`): decoded points are one or two too many. Without
a penalty the decoded one is the maximum. `zadd` overwrites, so a user's last
solve counts and not the sum. Snapshots are taken only while a contest runs, so
the end of a contest may not be in one; the archive page mixes the rows of all
captures by rank.

Verdicts. The Go sandbox compares stdout and stderr together and has one limit
per test and none for compiling; the TypeScript one has one limit for all tests
and compares stdout. Of 1500 ms the former makes 3 seconds (`executor.go:34`), the
latter 4 (`executor.ts:22`). A crash is reported as "RE: <output>" (`executor.go:52`)
although `sandbox.go:104` speaks of RE: the enum refuses it, and the job is
requeued for ever (`consumer.go:277`). In a run by the Go service, a test that
crashes does not change the verdict, which may be AC.

Plagiarism. Codes of fewer than eight tokens have no fingerprint and are 100 %
similar to each other; a user's own earlier submissions and other languages are
compared as well; a report is listed only for the submission that is its first.

Contests. Standings count PENDING rows as wrong attempts and rows of the contest
whenever they were made. The comment at `contest.service.ts:20-22` does not hold
while the gateway's filter answers 404. A problem created inside a contest does
not delete the contest's cached problems. The queue depth that backpressure
measures is never written, so it never triggers.

Shared utilities. The limiter looks for its rule by method and path without the
colon that the rules' keys have (`rateLimiter.middleware.ts:107`), so that the
first rule whose path is a prefix applies (`POST /submissions/run` is charged to
`POST:/submissions`); it fails open, as the gateway's does, so that a Redis that
refuses scripts leaves both services without a limit.
A half-open breaker lets every call through, counts a 404 as a
failure, and after one success a failure does not open it until the threshold;
the gateway's breakers are constructed and never used (`README.md:165-172`). The
connection gives up after ten attempts, its `close()` does not stop a loop under
way, and consumers are not registered again. In `withIdempotency` a caller that
fails deletes the key of whoever holds it. A saga never repeats a compensation
that failed (`saga.service.ts:64-65`).

Pages of standings. A second accepted row or an overwritten verdict changes
them without an update; reconnecting the stream fetches nothing; of overlapping
fetches the older answer may be shown last (`ContestLeaderboard.tsx:65`).

Web client. By the comment at `csrf.middleware.ts:64-71` the refresh is exempt
from the CSRF check, but line 74 compares a path that starts with `/api/`; pages
that are not themselves below `/api`, the cookie's path, cannot read the token,
and their refresh is refused (`Deployments` in `Session`). The refresh passes the
interceptor that sent it, so that its own 401 waits for itself (`api.ts:63-66`).
Requests in the queue are sent again without the mark that they were. A failed
refresh clears drafts, and a visitor of `/` is sent to `/auth`. The interval of a
submission is not in `pollIntervalRef` (`Problem.tsx:125`), so leaving the page
does not clear it, and it has no limit; on the page of a contest's problem an answer
for one problem may be shown on another. The editor's shortcuts
(`Problem.tsx:616-622`, `ContestProblem.tsx:548-552`) keep the handlers of the render
in which the editor mounted: they start attempts while another one runs, submit the
code of that render for the problem of that render, and on the page of a contest's
problem do nothing if that code was empty.
`ContestDetail.tsx:55` compares the role with 'ADMIN',
`Problems.tsx:89` with 'admin'; `Problems` asks for the first 50 only.

Go worker. One gobreaker guards the calls to both services (`client.go:34`), and
an error of either kind counts, also a verdict that the core refuses. Five
workers whose calls to the leaderboard fail in a row shut out GetProblem for 30
seconds, and every job delivered meanwhile goes to the dead letters at once
(`consumer.go:204-207`): the queue may be emptied into them while the core is up.
With fewer failing workers than the threshold this cannot happen
(`DeadJobsAreBlamed`).

Accounts. A row holds one refresh token: signing in on a second device makes the
first one's cookie useless. Logging out does not clear the row
(`auth.controller.ts:121-137`). Two exchanges of one token in the same second
give the same new token, in different seconds the browser may keep the one that
is no longer in the row. The `state` cookie is SameSite=Strict
(`state.helper.ts:15`), which browsers do not send when Google's page leads back.

Days. `ActivityHeatmap.tsx` turns a local midnight into a UTC date, which east of
Greenwich is the day before.

Shutdown. `rabbitMQ.close()` does not wait for handlers under way, which
`process.exit` ends; the Go worker waits for its own up to 30 seconds. The gateway closes streams in a cleanup after `server.close`, which waits
for them: with a stream open the 15-second timer ends the process. The
leaderboard service never stops its gRPC server.

## 7. Not modelled

About half of the source lines are pages and a vendored component library in
`web/src`: layout, forms, charts and timers. They hold no state that
outlives a render, or make one request each, and no property is about them. Of
the services these are left out:

- CRUD of problems, users and contests: statements on one row. Their caches,
  bits and gates are modelled. The checks of passwords and of Google's tokens
  only decide whether a request of `Accounts` goes on.
- containers, compilers and workspaces: I/O. `Judge` starts from what a program
  does.
- deadlines and transport of gRPC: in `Evaluation` and `GrpcClient` a call fails
  or succeeds, and in the first it may have taken effect when it fails.
- the queue monitor, metrics, tracing, logging and chaos scripts: they observe
  or disturb the system from outside.
- the order of startup and of cleanups: each step runs once, and its failure
  ends the process, which `EdgeCache`, `Evaluation` and `Outbox` allow anywhere.

## 8. Running the checks

`tlc -config MCOutbox.cfg MCOutbox` and likewise for the other configurations;
`tlapm OutboxProofs.tla` and likewise for the other proof modules. `PROJECT.json`
lists the runs, the mutants, the code lines each definition stands for, the
hazards and the theorems.
