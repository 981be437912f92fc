----------------------------- MODULE Leaderboard -----------------------------
(* The leaderboard service for one contest: the write model (a sorted set), *)
(* the read model that a Lua script projects from it in one step, and the   *)
(* three kinds of clients: update calls (gRPC UpdateLeaderboard and POST    *)
(* /update), the consumer of the verdict queue, and readers of the top list.*)
(* A score is represented by the update that wrote it.                      *)
EXTENDS Naturals, FiniteSets

CONSTANTS
  Users,
  Calls,       \* update calls
  Verdicts,    \* messages of the verdict queue, by submissionId
  UserOf,      \* the user each update is for
  Slots,       \* deliveries handled at a time
  Readers,     \* requests for the top list
  Nothing,     \* no update
  MaxRetries,  \* maxRetries of the consumer
  MaxFaults    \* bound: failed Redis commands, expiries, crashes and duplicates

Updates == Calls \cup Verdicts

ASSUME LeaderboardAssumption ==
  /\ Calls \cap Verdicts = {} /\ Nothing \notin Updates \cup Slots
  /\ UserOf \in [Updates -> Users]
  /\ MaxRetries \in Nat /\ MaxFaults \in Nat
  /\ IsFiniteSet(Slots) /\ IsFiniteSet(Readers)

VARIABLES
  write,      \* the sorted set: the update whose score each user has
  warm, read, \* the read model: whether it exists, and what it shows
  locks,      \* lock:leaderboard:<contest>:<user>: its holder
  processed,  \* idempotency keys
  queue,      \* verdict.queue and its retry queue: copies by retry count
  dead,       \* verdict.dlq
  at, msg,    \* where each slot is, with which message
  call,       \* where each update call is
  asking,     \* where each reader is
  coldLock,   \* ReadModel:Lock:<contest> is set
  applied,    \* history: updates that reached the sorted set
  scored,     \* history: readers that asked when the sorted set had scores
  outlived,   \* history: readers that found the read model, which then ran out
  expiries,   \* history: how often the cold lock ran out
  faults

model == <<write, warm, read>>
broker == <<queue, dead>>
slots == <<at, msg>>
histories == <<scored, outlived, expiries>>
readers == <<asking, coldLock, histories>>
consumer == <<locks, processed, broker, slots>>
vars == <<model, consumer, call, readers, applied, faults>>

Messages == Verdicts \X (0..MaxRetries)
SlotPlaces == {"idle", "check", "lock", "zadd", "unlock", "undo", "mark", "ack", "retry"}
CallPlaces == {"new", "written", "shown", "unshown", "failed"}
ReaderPlaces == {"new", "cold", "project", "projected", "failing", "wait", "list",
                 "full", "empty", "emptyAfterWait", "failed"}

Verdict(s) == msg[s][1]
Held(m) == {s \in Slots : at[s] # "idle" /\ msg[s] = m}

TypeOK ==
  /\ write \in [Users -> Updates \cup {Nothing}]
  /\ warm \in BOOLEAN /\ read \in [Users -> Updates \cup {Nothing}]
  /\ locks \in [Users -> Slots \cup {Nothing}]
  /\ processed \subseteq Verdicts /\ dead \subseteq Verdicts
  /\ queue \in [Messages -> Nat]
  /\ at \in [Slots -> SlotPlaces] /\ msg \in [Slots -> Messages \cup {Nothing}]
  /\ \A s \in Slots : at[s] # "idle" => msg[s] \in Messages
  /\ call \in [Calls -> CallPlaces]
  /\ asking \in [Readers -> ReaderPlaces] /\ coldLock \in BOOLEAN
  /\ applied \subseteq Updates /\ scored \subseteq Readers /\ outlived \subseteq Readers
  /\ expiries \in Nat
  /\ faults \in 0..MaxFaults

Init ==
  /\ write = [u \in Users |-> Nothing]
  /\ warm = FALSE /\ read = [u \in Users |-> Nothing]
  /\ locks = [u \in Users |-> Nothing]
  /\ processed = {} /\ dead = {}
  /\ queue = [m \in Messages |-> IF m[2] = 0 THEN 1 ELSE 0]
  /\ at = [s \in Slots |-> "idle"] /\ msg = [s \in Slots |-> Nothing]
  /\ call = [c \in Calls |-> "new"]
  /\ asking = [r \in Readers |-> "new"] /\ coldLock = FALSE
  /\ applied = {} /\ scored = {} /\ outlived = {} /\ expiries = 0
  /\ faults = 0

Fault == faults < MaxFaults /\ faults' = faults + 1
NoFault == faults' = faults

-----------------------------------------------------------------------------
(* The write model and its projection.                                     *)

\* ZADD: the user's score is replaced.
Zadd(x) ==
  /\ write' = [write EXCEPT ![UserOf[x]] = x]
  /\ applied' = applied \cup {x}
  /\ UNCHANGED <<warm, read>>

Scores == \E u \in Users : write[u] # Nothing

\* The Lua script: the read model becomes the write model, unless that is empty.
Project ==
  /\ IF Scores THEN warm' = TRUE /\ read' = write ELSE UNCHANGED <<warm, read>>
  /\ UNCHANGED write

\* EXPIRE, 48 hours after the last projection, which may be long before a reader
\* comes: the model can run out between its EXISTS and its ZREVRANGE.
ModelExpires ==
  /\ warm /\ Fault
  /\ warm' = FALSE /\ read' = [u \in Users |-> Nothing]
  /\ outlived' = outlived \cup {r \in Readers : asking[r] \in {"projected", "list"}}
  /\ UNCHANGED <<write, consumer, call, asking, coldLock, scored, expiries, applied>>

-----------------------------------------------------------------------------
(* Update calls.                                                           *)

\* Mutant: the projection runs before the write.
ProjectThenWrite(c) ==
  /\ call[c] = "new"
  /\ write' = [write EXCEPT ![UserOf[c]] = c] /\ applied' = applied \cup {c}
  /\ IF Scores THEN warm' = TRUE /\ read' = write ELSE UNCHANGED <<warm, read>>
  /\ NoFault
  /\ call' = [call EXCEPT ![c] = "shown"]
  /\ UNCHANGED <<consumer, readers>>

\* ZADD, then EXPIREAT: if that fails the score is written, but the call answers
\* with an error and starts no projection.
UpdateLeaderboard(c) ==
  /\ call[c] = "new"
  /\ \/ Zadd(c) /\ NoFault /\ call' = [call EXCEPT ![c] = "written"]
     \/ Zadd(c) /\ Fault /\ call' = [call EXCEPT ![c] = "unshown"]
     \/ Fault /\ call' = [call EXCEPT ![c] = "failed"] /\ UNCHANGED <<model, applied>>
  /\ UNCHANGED <<consumer, readers>>

\* The projection the call started and did not wait for; an error is only logged.
ProjectAfterUpdate(c) ==
  /\ call[c] = "written"
  /\ \/ Project /\ NoFault /\ call' = [call EXCEPT ![c] = "shown"]
     \/ Fault /\ call' = [call EXCEPT ![c] = "unshown"] /\ UNCHANGED model
  /\ UNCHANGED <<consumer, readers, applied>>

-----------------------------------------------------------------------------
(* The verdict consumer.  Any step that throws ends in consumeQueue's retry. *)

Goto(s, place) == at' = [at EXCEPT ![s] = place] /\ UNCHANGED msg
Settle(s) ==
  /\ at' = [at EXCEPT ![s] = "idle"]
  /\ msg' = [msg EXCEPT ![s] = Nothing]
User(s) == UserOf[Verdict(s)]

Deliver(s, m) ==
  /\ at[s] = "idle" /\ queue[m] > 0
  /\ queue' = [queue EXCEPT ![m] = @ - 1]
  /\ at' = [at EXCEPT ![s] = "check"] /\ msg' = [msg EXCEPT ![s] = m]
  /\ UNCHANGED <<model, locks, processed, dead, call, readers, applied, faults>>

\* Mutant: the key is written when the verdict is first seen.
ClaimFirst(s) ==
  /\ at[s] = "check"
  /\ NoFault
  /\ processed' = processed \cup {Verdict(s)}
  /\ Goto(s, IF Verdict(s) \in processed THEN "ack" ELSE "lock")
  /\ UNCHANGED <<model, locks, broker, call, readers, applied>>

IsIdempotent(s) ==
  /\ at[s] = "check"
  /\ \/ NoFault /\ Goto(s, IF Verdict(s) \in processed THEN "ack" ELSE "lock")
     \/ Fault /\ Goto(s, "retry")
  /\ UNCHANGED <<model, locks, processed, broker, call, readers, applied>>

\* A lock that is held, or a Redis error, throws.
Acquire(s) ==
  /\ at[s] = "lock"
  /\ \/ /\ locks[User(s)] = Nothing /\ NoFault
        /\ locks' = [locks EXCEPT ![User(s)] = s] /\ Goto(s, "zadd")
     \/ locks[User(s)] # Nothing /\ NoFault /\ Goto(s, "retry") /\ UNCHANGED locks
     \/ Fault /\ Goto(s, "retry") /\ UNCHANGED locks
  /\ UNCHANGED <<model, processed, broker, call, readers, applied>>

\* ZADD, then EXPIREAT, which can fail after the score is written.  Unlike an
\* update call, the consumer starts no projection.
ApplyVerdict(s) ==
  /\ at[s] = "zadd"
  /\ \/ Zadd(Verdict(s)) /\ NoFault /\ Goto(s, "unlock")
     \/ Zadd(Verdict(s)) /\ Fault /\ Goto(s, "undo")
     \/ Fault /\ Goto(s, "undo") /\ UNCHANGED <<model, applied>>
  /\ UNCHANGED <<locks, processed, broker, call, readers>>

\* The finally block deletes the lock if it is still the slot's own; an error of
\* the release is thrown even when the update succeeded.
Release(s) ==
  /\ at[s] \in {"unlock", "undo"}
  /\ \/ /\ NoFault
        /\ locks' = IF locks[User(s)] = s THEN [locks EXCEPT ![User(s)] = Nothing] ELSE locks
        /\ Goto(s, IF at[s] = "unlock" THEN "mark" ELSE "retry")
     \/ Fault /\ Goto(s, "retry") /\ UNCHANGED locks
  /\ UNCHANGED <<model, processed, broker, call, readers, applied>>

MarkProcessed(s) ==
  /\ at[s] = "mark"
  /\ \/ NoFault /\ processed' = processed \cup {Verdict(s)} /\ Goto(s, "ack")
     \/ Fault /\ UNCHANGED processed /\ Goto(s, "retry")
  /\ UNCHANGED <<model, locks, broker, call, readers, applied>>

Ack(s) ==
  /\ at[s] = "ack"
  /\ Settle(s)
  /\ UNCHANGED <<model, locks, processed, broker, call, readers, applied, faults>>

\* Mutant: one more retry than maxRetries.
RetryOnceMore(s) ==
  /\ at[s] = "retry"
  /\ queue' = [m \in Messages \cup {<<Verdict(s), msg[s][2] + 1>>} |->
       (IF m \in Messages THEN queue[m] ELSE 0)
         + (IF m = <<Verdict(s), msg[s][2] + 1>> THEN 1 ELSE 0)]
  /\ Settle(s)
  /\ UNCHANGED <<model, locks, processed, dead, call, readers, applied, faults>>

\* Another copy after a delay, or the dead-letter queue (Evaluation has the steps
\* of the republication).
Retry(s) ==
  /\ at[s] = "retry"
  /\ IF msg[s][2] < MaxRetries
     THEN /\ queue' = [queue EXCEPT ![<<Verdict(s), msg[s][2] + 1>>] = @ + 1]
          /\ UNCHANGED dead
     ELSE dead' = dead \cup {Verdict(s)} /\ UNCHANGED queue
  /\ Settle(s)
  /\ UNCHANGED <<model, locks, processed, call, readers, applied, faults>>

-----------------------------------------------------------------------------
(* Readers of the top list.                                                *)

Move(r, place) == asking' = [asking EXCEPT ![r] = place]

\* EXISTS on the index of the read model.
GetTop(r) ==
  /\ asking[r] = "new"
  /\ Move(r, IF warm THEN "list" ELSE "cold")
  /\ scored' = IF Scores THEN scored \cup {r} ELSE scored
  /\ UNCHANGED <<model, consumer, call, coldLock, outlived, expiries, applied, faults>>

\* SET NX: one reader projects, the others wait 100 ms.
TakeColdLock(r) ==
  /\ asking[r] = "cold"
  /\ Move(r, IF coldLock THEN "wait" ELSE "project")
  /\ coldLock' = TRUE
  /\ UNCHANGED <<model, consumer, call, histories, applied, faults>>

\* Mutant: the reader that took the lock reads without projecting.
SkipProjection(r) ==
  /\ asking[r] = "project"
  /\ Move(r, "projected")
  /\ UNCHANGED <<model, consumer, call, coldLock, histories, applied, faults>>

ProjectCold(r) ==
  /\ asking[r] = "project"
  /\ \/ Project /\ NoFault /\ Move(r, "projected")
     \/ Fault /\ Move(r, "failing") /\ UNCHANGED model
  /\ UNCHANGED <<consumer, call, coldLock, histories, applied>>

\* DEL without looking whose lock it is; after an error the reader answers 500.
DropColdLock(r) ==
  /\ asking[r] \in {"projected", "failing"}
  /\ Move(r, IF asking[r] = "projected" THEN "list" ELSE "failed")
  /\ coldLock' = FALSE
  /\ UNCHANGED <<model, consumer, call, histories, applied, faults>>

\* The lock lives ten seconds.
ColdLockExpires ==
  /\ coldLock /\ Fault
  /\ coldLock' = FALSE /\ expiries' = expiries + 1
  /\ UNCHANGED <<model, consumer, call, asking, scored, outlived, applied>>

\* What the read model has: nothing if it is still cold, or no longer there.  The
\* index and the hash run out together, so the HGETs that follow add nothing.
List(r) ==
  /\ asking[r] \in {"list", "wait"}
  /\ Move(r, IF warm THEN "full" ELSE IF asking[r] = "list" THEN "empty" ELSE "emptyAfterWait")
  /\ UNCHANGED <<model, consumer, call, coldLock, histories, applied, faults>>

-----------------------------------------------------------------------------
(* The environment.                                                        *)

\* The TTL of a lock runs out, under its holder or after it died.
LockExpires(u) ==
  /\ locks[u] # Nothing /\ Fault
  /\ locks' = [locks EXCEPT ![u] = Nothing]
  /\ UNCHANGED <<model, processed, broker, slots, call, readers, applied>>

\* An idempotency key lives an hour.
KeyExpires(v) ==
  /\ v \in processed /\ Fault
  /\ processed' = processed \ {v}
  /\ UNCHANGED <<model, locks, broker, slots, call, readers, applied>>

\* x-message-ttl of verdict.queue.
MessageExpires(m) ==
  /\ queue[m] > 0 /\ Fault
  /\ queue' = [queue EXCEPT ![m] = @ - 1]
  /\ dead' = dead \cup {m[1]}
  /\ UNCHANGED <<model, locks, processed, slots, call, readers, applied>>

\* An evaluator publishes a verdict again.
PublishAgain(v) ==
  /\ Fault
  /\ queue' = [queue EXCEPT ![<<v, 0>>] = @ + 1]
  /\ UNCHANGED <<model, locks, processed, dead, slots, call, readers, applied>>

\* The service dies: deliveries return to the queue, projections and readers are
\* gone, locks stay.  A restarted service takes over at once.
Crash ==
  /\ Fault
  /\ queue' = [m \in Messages |-> queue[m] + Cardinality(Held(m))]
  /\ at' = [s \in Slots |-> "idle"] /\ msg' = [s \in Slots |-> Nothing]
  /\ call' = [c \in Calls |-> IF call[c] = "written" THEN "unshown" ELSE call[c]]
  /\ asking' = [r \in Readers |->
       IF asking[r] \in {"new", "full", "empty", "emptyAfterWait"} THEN asking[r] ELSE "failed"]
  /\ UNCHANGED <<model, locks, processed, dead, coldLock, histories, applied>>

Handle(s) ==
  \/ IsIdempotent(s) \/ Acquire(s) \/ ApplyVerdict(s) \/ Release(s)
  \/ MarkProcessed(s) \/ Ack(s) \/ Retry(s)
Receive(s) == \E m \in Messages : Deliver(s, m)
Read(r) == GetTop(r) \/ TakeColdLock(r) \/ ProjectCold(r) \/ DropColdLock(r) \/ List(r)
Environment ==
  \/ ModelExpires \/ ColdLockExpires \/ Crash
  \/ \E u \in Users : LockExpires(u)
  \/ \E v \in Verdicts : KeyExpires(v) \/ PublishAgain(v)
  \/ \E m \in Messages : MessageExpires(m)

Next ==
  \/ \E c \in Calls : UpdateLeaderboard(c) \/ ProjectAfterUpdate(c)
  \/ \E s \in Slots : Receive(s) \/ Handle(s)
  \/ \E r \in Readers : Read(r)
  \/ Environment

Spec == Init /\ [][Next]_vars

-----------------------------------------------------------------------------
\* A read model that exists shows every user's current score, except a score
\* that came by the verdict queue, or whose projection is still running or was
\* lost (leaderboard.readmodel.service.ts:43-111, grpc.server.ts:77-88).
LaggingIsExplained ==
  warm => \A u \in Users :
    \/ read[u] = write[u]
    \/ write[u] \in Verdicts
    \/ write[u] \in Calls /\ call[write[u]] \in {"written", "unshown"}

\* Whatever fails, a verdict has reached the sorted set, or is dead-lettered, or
\* is queued or held, and only one that reached the set counts as processed
\* (consumer.queue.ts:11-52, consumer.ts:66-140).
VerdictsAreKept ==
  \A v \in Verdicts :
    /\ v \in applied \/ v \in dead \/ \E m \in Messages : m[1] = v /\ (queue[m] > 0 \/ Held(m) # {})
    /\ v \in processed => v \in applied

\* A reader answers an empty list to a contest with scores only after it waited
\* for another reader's projection, or if the read model it had found, or made,
\* ran out before it listed it (leaderboard.readmodel.service.ts:125-142).
EmptyTopIsExplained == \A r \in scored : asking[r] = "empty" => r \in outlived

\* The cold lock keeps a herd from projecting: whoever deletes whose lock, each
\* time that it runs out lets in one reader more (readmodel.service.ts:128-134).
Projecting == {r \in Readers : asking[r] \in {"project", "projected", "failing"}}
HerdIsBounded == Cardinality(Projecting) <= 1 + expiries

TopIsServed == EmptyTopIsExplained /\ HerdIsBounded
=============================================================================
