----------------------------- MODULE Evaluation -----------------------------
(***************************************************************************)
(* Evaluation of submission jobs.  Two services consume submission.queue:  *)
(* the Go workers (evaluation-service-go/internal/queue/consumer.go) and   *)
(* the TypeScript handlers (evaluation-service/.../consumer.queue.ts, run  *)
(* by consumeQueue of core/src/queues/rabbitmq/consumer.ts).  A job is     *)
(* fetched, run, persisted, credited to its user and settled.              *)
(*                                                                         *)
(* A message is a job and its x-retry-count; "queue" counts the copies in  *)
(* the main and the retry queue together.  A delivery is owned while the   *)
(* broker waits for its ack: when the connection drops, the broker         *)
(* requeues it and the handler runs on without owning it.                  *)
(***************************************************************************)
EXTENDS Naturals, FiniteSets

CONSTANTS
  Jobs, Pairs,
  KindOf,                \* "contest", "practice" or "run" (isRunOnly)
  PairOf,                \* contest, user and problem of a job
  VerdictOf,             \* what the sandbox says of it
  GoWorkers, TsWorkers,  \* goroutines of the pool; handlers within prefetch
  Fallible,              \* processes that may lose their connection or die
  MaxRetries,            \* maxRetries of the TypeScript consumer
  MaxFaults              \* bound: failed calls, crashes, duplicates

Workers == GoWorkers \cup TsWorkers
Procs == {"go", "ts"}

ASSUME JobsAssumption ==
  /\ KindOf \in [Jobs -> {"contest", "practice", "run"}]
  /\ PairOf \in [Jobs -> Pairs]
  /\ VerdictOf \in [Jobs -> {"AC", "WA"}]
ASSUME WorkersAssumption ==
  /\ GoWorkers \cap TsWorkers = {}
  /\ IsFiniteSet(Workers)
  /\ Fallible \subseteq Procs
ASSUME BoundsAssumption == MaxRetries \in Nat /\ MaxFaults \in Nat

Messages == Jobs \X (0 .. MaxRetries)
NoMessage == <<"none", 0>>

VARIABLES
  queue, dlq,     \* copies of each message to deliver; dead-lettered jobs
  at, msg,        \* where each worker is, and on which message
  owned,          \* workers whose delivery the broker still waits for
  consuming,      \* processes with a registered consumer
  processed,      \* idempotency keys (TypeScript only)
  stored,         \* jobs whose verdict the core service has committed
  solved,         \* members of the CodeWarz:Solved sets
  credits,        \* leaderboard updates sent, per pair
  checked,        \* plagiarism checks published
  execs,          \* completed sandbox executions of each job (history)
  result,         \* run-result:<jobId> in Redis
  asked,          \* run jobs whose request has set its result to queued
  faults, redisErrors

broker == <<queue, dlq, owned, consuming>>
redis == <<processed, solved, result>>
effects == <<stored, credits, checked, execs>>
bounds == <<faults, redisErrors>>
vars == <<broker, at, msg, redis, effects, asked, bounds>>

Busy == {"check", "fetch", "run", "store", "persist", "solve", "board",
         "plag", "mark", "retry", "ack"}

TypeOK ==
  /\ queue \in [Messages -> Nat]
  /\ dlq \in SUBSET Jobs
  /\ at \in [Workers -> Busy \cup {"idle"}]
  /\ msg \in [Workers -> Messages \cup {NoMessage}]
  /\ \A w \in Workers : at[w] # "idle" => msg[w] \in Messages
  /\ owned \in SUBSET {w \in Workers : at[w] # "idle"}
  /\ consuming \in SUBSET Procs
  /\ processed \in SUBSET Jobs /\ stored \in SUBSET Jobs
  /\ solved \in SUBSET Pairs /\ credits \in [Pairs -> Nat]
  /\ checked \in SUBSET Jobs
  /\ execs \in [Jobs -> Nat]
  /\ result \in [Jobs -> {"none", "queued", "completed"}]
  /\ asked \in SUBSET Jobs
  /\ faults \in Nat /\ redisErrors \in Nat

Init ==
  /\ queue = [m \in Messages |-> IF m[2] = 0 THEN 1 ELSE 0]
  /\ dlq = {}
  /\ at = [w \in Workers |-> "idle"]
  /\ msg = [w \in Workers |-> NoMessage]
  /\ owned = {}
  /\ consuming = Procs
  /\ processed = {} /\ stored = {} /\ solved = {} /\ checked = {}
  /\ credits = [p \in Pairs |-> 0]
  /\ execs = [j \in Jobs |-> 0]
  /\ result = [j \in Jobs |-> "none"]
  /\ asked = {}
  /\ faults = 0 /\ redisErrors = 0

Job(w) == msg[w][1]
Retries(w) == msg[w][2]
Pair(w) == PairOf[Job(w)]
IsGo(w) == w \in GoWorkers
ProcOf(w) == IF IsGo(w) THEN "go" ELSE "ts"

Goto(w, l) == at' = [at EXCEPT ![w] = l] /\ msg' = msg
Finish(w) ==
  /\ at' = [at EXCEPT ![w] = "idle"]
  /\ msg' = [msg EXCEPT ![w] = NoMessage]

Fault == faults < MaxFaults /\ faults' = faults + 1 /\ redisErrors' = redisErrors
NoFault == UNCHANGED bounds

-----------------------------------------------------------------------------
(* The broker.                                                             *)

Deliver(w, m) ==
  /\ at[w] = "idle"
  /\ ProcOf(w) \in consuming
  /\ queue[m] > 0
  /\ queue' = [queue EXCEPT ![m] = @ - 1]
  /\ at' = [at EXCEPT ![w] = IF IsGo(w) THEN "fetch" ELSE "check"]
  /\ msg' = [msg EXCEPT ![w] = m]
  /\ owned' = owned \cup {w}
  /\ UNCHANGED <<dlq, consuming, redis, effects, asked, bounds>>

\* Nack with requeue, or without: the queue's dead-letter exchange.
Requeue(w) ==
  /\ Finish(w)
  /\ queue' = IF w \in owned THEN [queue EXCEPT ![msg[w]] = @ + 1] ELSE queue
  /\ owned' = owned \ {w}
  /\ UNCHANGED <<dlq, consuming>>

DeadLetter(w) ==
  /\ Finish(w)
  /\ dlq' = IF w \in owned THEN dlq \cup {Job(w)} ELSE dlq
  /\ owned' = owned \ {w}
  /\ UNCHANGED <<queue, consuming>>

\* x-message-ttl of submission.queue.
Expire(m) ==
  /\ queue[m] > 0
  /\ queue' = [queue EXCEPT ![m] = @ - 1]
  /\ dlq' = dlq \cup {m[1]}
  /\ UNCHANGED <<at, msg, owned, consuming, redis, effects, asked, bounds>>

\* The outbox relay delivers at least once.
PublishAgain(j) ==
  /\ Fault
  /\ queue' = [queue EXCEPT ![<<j, 0>>] = @ + 1]
  /\ UNCHANGED <<dlq, at, msg, owned, consuming, redis, effects, asked>>

\* The deliveries of a closed connection return to the queue.
Returned(p, m) == {w \in owned : ProcOf(w) = p /\ msg[w] = m}
Disconnect(p) ==
  /\ p \in Fallible \cap consuming
  /\ Fault
  /\ queue' = [m \in Messages |-> queue[m] + Cardinality(Returned(p, m))]
  /\ owned' = {w \in owned : ProcOf(w) # p}
  /\ consuming' = consuming \ {p}
  /\ UNCHANGED dlq

\* The connection is lost and the handlers go on: neither service registers its
\* consumer again.
LoseConnection(p) ==
  /\ Disconnect(p)
  /\ UNCHANGED <<at, msg, redis, effects, asked>>

StopWorkers(p) ==
  /\ at' = [w \in Workers |-> IF ProcOf(w) = p THEN "idle" ELSE at[w]]
  /\ msg' = [w \in Workers |-> IF ProcOf(w) = p THEN NoMessage ELSE msg[w]]

Crash(p) ==
  /\ Disconnect(p)
  /\ StopWorkers(p)
  /\ UNCHANGED <<redis, effects, asked>>

Restart(p) ==
  /\ p \notin consuming
  /\ StopWorkers(p)
  /\ consuming' = consuming \cup {p}
  /\ UNCHANGED <<queue, dlq, owned, redis, effects, asked, bounds>>

-----------------------------------------------------------------------------
(* Handling a job.  A call of the TypeScript handler that fails throws to  *)
(* consumeQueue, which retries.                                            *)

\* Mutant: the key is claimed before the job is processed.
ClaimFirst(w) ==
  /\ at[w] = "check"
  /\ NoFault
  /\ processed' = processed \cup {Job(w)}
  /\ Goto(w, IF Job(w) \in processed THEN "ack" ELSE "fetch")
  /\ UNCHANGED <<broker, solved, result, effects, asked>>

CheckProcessed(w) ==
  /\ at[w] = "check"
  /\ \/ NoFault /\ Goto(w, IF Job(w) \in processed THEN "ack" ELSE "fetch")
     \/ Fault /\ Goto(w, "retry")
  /\ UNCHANGED <<broker, redis, effects, asked>>

KeyExpires(j) ==
  /\ j \in processed
  /\ processed' = processed \ {j}
  /\ UNCHANGED <<broker, at, msg, solved, result, effects, asked, bounds>>

\* Go dead-letters a job whose problem it cannot fetch.
FetchProblem(w) ==
  /\ at[w] = "fetch"
  /\ \/ NoFault /\ Goto(w, "run") /\ UNCHANGED broker
     \/ Fault /\ IsGo(w) /\ DeadLetter(w)
     \/ Fault /\ ~IsGo(w) /\ Goto(w, "retry") /\ UNCHANGED broker
  /\ UNCHANGED <<redis, effects, asked>>

AfterRun(w) == IF KindOf[Job(w)] # "run" THEN "persist"
               ELSE IF IsGo(w) THEN "ack" ELSE "store"

\* A panic in a Go worker is recovered and dead-letters the job.
RunSandbox(w) ==
  /\ at[w] = "run"
  /\ \/ /\ NoFault /\ Goto(w, AfterRun(w)) /\ UNCHANGED broker
        /\ execs' = [execs EXCEPT ![Job(w)] = @ + 1]
     \/ Fault /\ IsGo(w) /\ DeadLetter(w) /\ UNCHANGED execs
     \/ Fault /\ ~IsGo(w) /\ Goto(w, "retry") /\ UNCHANGED <<broker, execs>>
  /\ UNCHANGED <<redis, stored, credits, checked, asked>>

\* storeRunResult swallows its errors.
StoreRunResult(w) ==
  /\ at[w] = "store"
  /\ Goto(w, "mark")
  /\ \/ NoFault /\ result' = [result EXCEPT ![Job(w)] = "completed"]
     \/ Fault /\ result' = result
  /\ UNCHANGED <<broker, processed, solved, effects, asked>>

\* runProblem sets the result after the outbox row, hence perhaps after the run.
SetQueued(j) ==
  /\ KindOf[j] = "run" /\ j \notin asked
  /\ asked' = asked \cup {j}
  /\ result' = [result EXCEPT ![j] = "queued"]
  /\ UNCHANGED <<broker, at, msg, processed, solved, effects, bounds>>

Accepted(j) == VerdictOf[j] = "AC"
AfterPersist(w) ==
  IF Accepted(Job(w)) /\ KindOf[Job(w)] = "contest" THEN "solve"
  ELSE IF IsGo(w) THEN "ack"
  ELSE IF Accepted(Job(w)) THEN "plag" ELSE "mark"

\* A failed call may have committed: the answer is lost or late.
MayStore(w) == stored' \in {stored, stored \cup {Job(w)}}

\* Mutant: the result of PersistVerdict is ignored.
PersistIgnoresErrors(w) ==
  /\ at[w] = "persist"
  /\ \/ NoFault /\ stored' = stored \cup {Job(w)}
     \/ Fault /\ MayStore(w)
  /\ Goto(w, AfterPersist(w))
  /\ UNCHANGED <<broker, redis, credits, checked, execs, asked>>

PersistVerdict(w) ==
  /\ at[w] = "persist"
  /\ \/ /\ NoFault /\ Goto(w, AfterPersist(w)) /\ UNCHANGED broker
        /\ stored' = stored \cup {Job(w)}
     \/ Fault /\ MayStore(w) /\ IsGo(w) /\ Requeue(w)
     \/ Fault /\ MayStore(w) /\ ~IsGo(w) /\ Goto(w, "retry") /\ UNCHANGED broker
  /\ UNCHANGED <<redis, credits, checked, execs, asked>>

\* Mutant: the answer of SADD is not looked at.
SolveIgnoresAnswer(w) ==
  /\ at[w] = "solve"
  /\ solved' = solved \cup {Pair(w)}
  /\ Goto(w, "board")
  /\ NoFault
  /\ UNCHANGED <<broker, processed, result, effects, asked>>

\* SADD tells the first solve of the pair; an error is taken for a first solve.
\* When it is not the first, Go settles at once and TypeScript goes on.
AddSolved(w) ==
  /\ at[w] = "solve"
  /\ \/ /\ NoFault
        /\ solved' = solved \cup {Pair(w)}
        /\ Goto(w, IF Pair(w) \notin solved THEN "board"
                   ELSE IF IsGo(w) THEN "ack" ELSE "plag")
     \/ /\ faults < MaxFaults /\ faults' = faults + 1
        /\ redisErrors' = redisErrors + 1
        /\ solved' \in {solved, solved \cup {Pair(w)}}
        /\ Goto(w, "board")
  /\ UNCHANGED <<broker, processed, result, effects, asked>>

Credited(w) == [credits EXCEPT ![Pair(w)] = @ + 1]

\* Go only logs that the update of the leaderboard failed.
UpdateLeaderboard(w) ==
  /\ at[w] = "board"
  /\ \/ NoFault /\ credits' = Credited(w) /\ Goto(w, "plag")
     \/ /\ Fault /\ credits' \in {credits, Credited(w)}
        /\ Goto(w, IF IsGo(w) THEN "plag" ELSE "retry")
  /\ UNCHANGED <<broker, redis, stored, checked, execs, asked>>

AfterCheck(w) == IF IsGo(w) THEN "ack" ELSE "mark"
PublishPlagiarism(w) ==
  /\ at[w] = "plag"
  /\ \/ NoFault /\ checked' = checked \cup {Job(w)} /\ Goto(w, AfterCheck(w))
     \/ /\ Fault /\ checked' \in {checked, checked \cup {Job(w)}}
        /\ Goto(w, IF IsGo(w) THEN "ack" ELSE "retry")
  /\ UNCHANGED <<broker, redis, stored, credits, execs, asked>>

MarkProcessed(w) ==
  /\ at[w] = "mark"
  /\ \/ NoFault /\ processed' = processed \cup {Job(w)} /\ Goto(w, "ack")
     \/ /\ Fault /\ processed' \in {processed, processed \cup {Job(w)}}
        /\ Goto(w, "retry")
  /\ UNCHANGED <<broker, solved, result, effects, asked>>

-----------------------------------------------------------------------------
(* Settling a delivery.                                                    *)

\* Mutant: the handler returns without settling.
ReturnUnacked(w) ==
  /\ at[w] = "ack" /\ w \in owned
  /\ Finish(w)
  /\ NoFault
  /\ UNCHANGED <<broker, redis, effects, asked>>

Ack(w) ==
  /\ at[w] = "ack" /\ w \in owned
  /\ Finish(w)
  /\ owned' = owned \ {w}
  /\ NoFault
  /\ UNCHANGED <<queue, dlq, consuming, redis, effects, asked>>

\* The retry copy: the same job with its count one higher.
Copied(w) == [queue EXCEPT ![<<Job(w), Retries(w) + 1>>] = @ + 1]

GiveUp(w) ==
  /\ at[w] = "retry" /\ w \in owned
  /\ Retries(w) >= MaxRetries
  /\ DeadLetter(w)
  /\ NoFault
  /\ UNCHANGED <<redis, effects, asked>>

\* The original is acked only after the broker has confirmed the copy.
PublishRetry(w) ==
  /\ at[w] = "retry" /\ w \in owned
  /\ Retries(w) < MaxRetries
  /\ queue' = Copied(w)
  /\ Goto(w, "ack")
  /\ NoFault
  /\ UNCHANGED <<dlq, owned, consuming, redis, effects, asked>>

\* A failed confirm, or a full buffer (which sends the copy all the same): the
\* original is requeued, perhaps next to its copy.
RetryUnconfirmed(w) ==
  /\ at[w] = "retry" /\ w \in owned
  /\ Retries(w) < MaxRetries
  /\ Fault
  /\ \E q \in {queue, Copied(w)} : queue' = [q EXCEPT ![msg[w]] = @ + 1]
  /\ Finish(w)
  /\ owned' = owned \ {w}
  /\ UNCHANGED <<dlq, consuming, redis, effects, asked>>

\* Settling on a lost channel: Go ignores the error; in TypeScript the second
\* throw is an unhandled rejection, which ends the process.
SettleLost(w) ==
  /\ at[w] \in {"ack", "retry"} /\ w \notin owned
  /\ IF IsGo(w) THEN Finish(w) ELSE StopWorkers("ts")
  /\ NoFault
  /\ UNCHANGED <<broker, redis, effects, asked>>

-----------------------------------------------------------------------------
Handle(w) ==
  \/ CheckProcessed(w) \/ FetchProblem(w) \/ RunSandbox(w) \/ StoreRunResult(w)
  \/ PersistVerdict(w) \/ AddSolved(w) \/ UpdateLeaderboard(w)
  \/ PublishPlagiarism(w) \/ MarkProcessed(w)
Settle(w) == Ack(w) \/ GiveUp(w) \/ PublishRetry(w) \/ RetryUnconfirmed(w) \/ SettleLost(w)
Environment ==
  \/ \E m \in Messages : Expire(m)
  \/ \E j \in Jobs : PublishAgain(j) \/ KeyExpires(j) \/ SetQueued(j)
  \/ \E p \in Procs : LoseConnection(p) \/ Crash(p) \/ Restart(p)

Next ==
  \/ \E w \in Workers : Handle(w) \/ Settle(w) \/ \E m \in Messages : Deliver(w, m)
  \/ Environment

Spec == Init /\ [][Next]_vars

\* A worker that holds a job goes on; a service with a consumer and an idle
\* worker is given a message.  Nothing restarts a service, no message must expire.
Fairness ==
  /\ \A w \in Workers : WF_vars(Handle(w)) /\ WF_vars(Settle(w))
  /\ WF_vars(\E w \in Workers, m \in Messages : Deliver(w, m))
  /\ \A j \in Jobs : WF_vars(SetQueued(j))
FairSpec == Spec /\ Fairness

-----------------------------------------------------------------------------
(* Properties.                                                             *)

Evaluated(j) == IF KindOf[j] = "run" THEN execs[j] > 0 ELSE j \in stored
Queued(j) == \E m \in Messages : m[1] = j /\ queue[m] > 0
Held(j) == \E w \in owned : Job(w) = j /\ at[w] # "ack"

\* A job is never dropped: it is evaluated, dead-lettered, or some copy of it is
\* still to be handled, whatever the workers, the broker and the acks do.
NothingIsDropped == \A j \in Jobs : Evaluated(j) \/ j \in dlq \/ Queued(j) \/ Held(j)

\* A pair is marked solved, credited or checked for plagiarism only for an
\* accepted job whose verdict the core service has committed before.
CreditsAreEarned ==
  /\ \A p \in Pairs : p \in solved \/ credits[p] > 0 =>
       \E j \in stored : PairOf[j] = p /\ Accepted(j) /\ KindOf[j] = "contest"
  /\ \A j \in checked : j \in stored /\ Accepted(j)

\* As long as Redis answers, duplicates, retries and two services at once credit
\* a pair at most once: SADD arbitrates.
CreditedOnce == redisErrors = 0 => \A p \in Pairs : credits[p] <= 1

\* Every job is in the end evaluated or dead-lettered, though one of the services
\* loses its connection or dies.
EveryJobSettles == \A j \in Jobs : <>(Evaluated(j) \/ j \in dlq)

\* README.md:302: dead letter queues ensure that no evaluation data is lost when a
\* container is killed: a pair recorded as solved is in the end credited on the
\* leaderboard, or a job of it is kept in the dead letter queue.
SolvedIsCredited ==
  \A p \in Pairs : p \in solved ~> (credits[p] > 0 \/ \E j \in dlq : PairOf[j] = p)

=============================================================================
