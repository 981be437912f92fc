------------------------------ MODULE Verdicts ------------------------------
(***************************************************************************)
(* Verdicts of the submissions of one user for one problem: persistVerdict *)
(* (core/src/grpc/grpc.server.ts), updateSubmission and the tail of        *)
(* submitSolution (core/src/service/submission.service.ts), the event      *)
(* store (core/src/service/eventStore.service.ts) and the Redis lock       *)
(* (core/src/utils/distributedLock).                                       *)
(*                                                                         *)
(* A call of kind "grpc" takes the solved-count lock when its verdict is   *)
(* AC; one of kind "patch" (the REST route) never does; one of kind        *)
(* "create" is submitSolution after its commit, appending its event.       *)
(* appendEvent uses the pool, not the transaction of its caller.           *)
(***************************************************************************)
EXTENDS Naturals, FiniteSets

CONSTANTS
  Subs, Calls,
  SubOf, VerdictOf, KindOf,  \* what each call is about
  PoolSize,                  \* connections of the node-postgres pool
  MaxAppends,                \* MAX_APPEND_RETRIES
  MaxAgain,                  \* bound: redeliveries of a finished or failed call
  MaxFaults                  \* bound: publish failures, lock overruns, crashes

ASSUME CallsAssumption ==
  /\ SubOf \in [Calls -> Subs]
  /\ VerdictOf \in [Calls -> {"AC", "WA"}]
  /\ KindOf \in [Calls -> {"grpc", "patch", "create"}]
  /\ "free" \notin Calls /\ "orphan" \notin Calls
ASSUME SizesAssumption ==
  /\ PoolSize \in Nat \ {0}
  /\ MaxAppends \in Nat \ {0}
  /\ MaxAgain \in Nat
  /\ MaxFaults \in Nat

VARIABLES
  verdict,   \* committed verdict of each submission
  solved,    \* committed solvedCount of the user
  events,    \* submission_events rows of each submission
  lock,      \* the call whose value the lock key holds, "free" or "orphan"
  pc,        \* where each call is
  credits,   \* the call's open transaction increments solvedCount
  lastSeen,  \* version the call read in appendEvent
  appends,   \* attempts of appendEvent so far
  again, faults,
  overruns   \* times the lock expired under a running call (history)

db == <<verdict, solved>>
locals == <<credits, lastSeen, appends>>
bounds == <<again, faults, overruns>>
vars == <<db, events, lock, pc, locals, bounds>>

EventTypes == {"SUBMISSION_CREATED", "SUBMISSION_COMPLETED"}
Rows == [version : Nat \ {0}, type : EventTypes, by : Calls]
InTx == {"update", "event", "insert", "publish", "commit"}
Ended == {"done", "failed"}

TypeOK ==
  /\ verdict \in [Subs -> {"PENDING", "AC", "WA"}]
  /\ solved \in Nat
  /\ events \in [Subs -> SUBSET Rows]
  /\ lock \in Calls \cup {"free", "orphan"}
  /\ pc \in [Calls -> InTx \cup Ended \cup {"idle", "begin"}]
  /\ credits \in [Calls -> BOOLEAN]
  /\ lastSeen \in [Calls -> Nat]
  /\ appends \in [Calls -> Nat]
  /\ again \in Nat /\ faults \in Nat /\ overruns \in Nat

Init ==
  /\ verdict = [s \in Subs |-> "PENDING"]
  /\ solved = 0
  /\ events = [s \in Subs |-> {}]
  /\ lock = "free"
  /\ pc = [c \in Calls |-> "idle"]
  /\ credits = [c \in Calls |-> FALSE]
  /\ lastSeen = [c \in Calls |-> 0]
  /\ appends = [c \in Calls |-> 0]
  /\ again = 0 /\ faults = 0 /\ overruns = 0

Goto(c, l) == pc' = [pc EXCEPT ![c] = l]

IsUpdate(c) == KindOf[c] # "create"
TakesLock(c) == KindOf[c] = "grpc" /\ VerdictOf[c] = "AC"

-----------------------------------------------------------------------------
(* The pool: a transaction keeps its connection, a query borrows one.      *)

Transactions == {c \in Calls : IsUpdate(c) /\ pc[c] \in InTx}
ConnectionFree == Cardinality(Transactions) < PoolSize

-----------------------------------------------------------------------------
(* persistVerdict and the route: the lock, then the transaction.           *)

\* Mutant: SET without NX.
AcquireAlways(c) ==
  /\ pc[c] = "idle"
  /\ TakesLock(c)
  /\ lock' = c
  /\ Goto(c, "begin")
  /\ UNCHANGED <<db, events, locals, bounds>>

\* getSubmissionById borrows a connection to find the pair, then SET key value
\* PX ttl NX; without the lock the call fails at once.
Acquire(c) ==
  /\ pc[c] = "idle"
  /\ TakesLock(c)
  /\ ConnectionFree
  /\ IF lock = "free" THEN lock' = c /\ Goto(c, "begin")
                      ELSE lock' = lock /\ Goto(c, "failed")
  /\ UNCHANGED <<db, events, locals, bounds>>

StartUnlocked(c) ==
  /\ pc[c] = "idle"
  /\ ~TakesLock(c)
  /\ Goto(c, IF IsUpdate(c) THEN "begin" ELSE "event")
  /\ UNCHANGED <<db, events, lock, locals, bounds>>

Begin(c) ==
  /\ pc[c] = "begin"
  /\ ConnectionFree
  /\ Goto(c, "update")
  /\ UNCHANGED <<db, events, lock, locals, bounds>>

\* The row lock of an UPDATE is held until its transaction ends.
RowFree(c) ==
  \A d \in Transactions \ {c} : pc[d] # "update" => SubOf[d] # SubOf[c]

\* What the transaction of c sees once it has written its own verdict.
Visible(c) == [verdict EXCEPT ![SubOf[c]] = VerdictOf[c]]

\* The submission is updated first; for AC, the best accepted submission of the
\* pair decides whether solvedCount is incremented.
UpdateRow(c) ==
  /\ pc[c] = "update"
  /\ RowFree(c)
  /\ credits' = [credits EXCEPT ![c] =
                   VerdictOf[c] = "AC" /\ \A s \in Subs : Visible(c)[s] # "AC"]
  /\ Goto(c, "event")
  /\ UNCHANGED <<db, events, lock, lastSeen, appends, bounds>>

-----------------------------------------------------------------------------
(* appendEvent.                                                            *)

Versions(s) == {e.version : e \in events[s]}
Latest(s) == IF events[s] = {} THEN 0
             ELSE CHOOSE v \in Versions(s) : \A w \in Versions(s) : w <= v

\* Mutant: the error of appendEvent is swallowed by its caller.
ReadVersionSwallowed(c) ==
  /\ pc[c] = "event"
  /\ ConnectionFree
  /\ lastSeen' = [lastSeen EXCEPT ![c] = Latest(SubOf[c])]
  /\ appends' = [appends EXCEPT ![c] = @ + 1]
  /\ \/ Goto(c, "insert")
     \/ faults < MaxFaults /\ Goto(c, "commit")
  /\ UNCHANGED <<db, events, lock, credits, bounds>>

ReadVersion(c) ==
  /\ pc[c] = "event"
  /\ ConnectionFree
  /\ lastSeen' = [lastSeen EXCEPT ![c] = Latest(SubOf[c])]
  /\ appends' = [appends EXCEPT ![c] = @ + 1]
  /\ Goto(c, "insert")
  /\ UNCHANGED <<db, events, lock, credits, bounds>>

\* Mutant: the version read is used again instead of the next one.
NewRowStale(c) ==
  [version |-> lastSeen[c],
   type |-> IF IsUpdate(c) THEN "SUBMISSION_COMPLETED" ELSE "SUBMISSION_CREATED",
   by |-> c]

NewRow(c) ==
  [version |-> lastSeen[c] + 1,
   type |-> IF IsUpdate(c) THEN "SUBMISSION_COMPLETED" ELSE "SUBMISSION_CREATED",
   by |-> c]

\* Mutant: no unique index on (submission, version).
InsertRowUnchecked(c) ==
  /\ pc[c] = "insert"
  /\ ConnectionFree
  /\ events' = [events EXCEPT ![SubOf[c]] = @ \cup {NewRow(c)}]
  /\ Goto(c, "publish")
  /\ UNCHANGED <<db, lock, locals, bounds>>

InsertRow(c) ==
  /\ pc[c] = "insert"
  /\ ConnectionFree
  /\ NewRow(c).version \notin Versions(SubOf[c])
  /\ events' = [events EXCEPT ![SubOf[c]] = @ \cup {NewRow(c)}]
  /\ Goto(c, "publish")
  /\ UNCHANGED <<db, lock, locals, bounds>>

-----------------------------------------------------------------------------
(* How a call ends.                                                        *)

Reset(c) ==
  /\ credits' = [credits EXCEPT ![c] = FALSE]
  /\ lastSeen' = [lastSeen EXCEPT ![c] = 0]
  /\ appends' = [appends EXCEPT ![c] = 0]

\* The compare-and-delete script: only the holder's own value is deleted.
Release(c) == lock' = IF lock = c THEN "free" ELSE lock

\* The callback of the transaction throws: rollback, release, error reply.
\* For "create" the error is only logged.
Fail(c) ==
  /\ Goto(c, "failed")
  /\ Reset(c)
  /\ Release(c)
  /\ UNCHANGED <<db, events>>

\* Mutant: the retry inserts the same version instead of reading again.
CollideWithoutReading(c) ==
  /\ pc[c] = "insert"
  /\ ConnectionFree
  /\ NewRow(c).version \in Versions(SubOf[c])
  /\ UNCHANGED vars

\* unique_violation: read again while attempts remain, else throw.
Collide(c) ==
  /\ pc[c] = "insert"
  /\ ConnectionFree
  /\ NewRow(c).version \in Versions(SubOf[c])
  /\ IF appends[c] < MaxAppends
       THEN Goto(c, "event") /\ UNCHANGED <<db, events, lock, locals>>
       ELSE Fail(c)
  /\ UNCHANGED bounds

PublishEvent(c) ==
  /\ pc[c] = "publish"
  /\ IF IsUpdate(c) THEN Goto(c, "commit") /\ UNCHANGED locals
                    ELSE Goto(c, "done") /\ Reset(c)
  /\ UNCHANGED <<db, events, lock, bounds>>

\* The publish after the insert fails; the row inserted by appendEvent stays.
PublishEventFails(c) ==
  /\ pc[c] = "publish"
  /\ faults < MaxFaults
  /\ faults' = faults + 1
  /\ Fail(c)
  /\ UNCHANGED <<again, overruns>>

Commit(c) ==
  /\ pc[c] = "commit"
  /\ verdict' = Visible(c)
  /\ solved' = IF credits[c] THEN solved + 1 ELSE solved
  /\ Goto(c, "done")
  /\ Reset(c)
  /\ Release(c)
  /\ UNCHANGED <<events, bounds>>

\* The evaluator did not hear the answer, or heard an error: it calls again.
CallAgain(c) ==
  /\ IsUpdate(c)
  /\ pc[c] \in Ended
  /\ again < MaxAgain
  /\ again' = again + 1
  /\ Goto(c, "idle")
  /\ UNCHANGED <<db, events, lock, locals, faults, overruns>>

\* The 5 s TTL of the lock runs out under a call that still works.
LockOverruns ==
  /\ lock \in Calls
  /\ faults < MaxFaults
  /\ faults' = faults + 1
  /\ overruns' = overruns + 1
  /\ lock' = "free"
  /\ UNCHANGED <<db, events, pc, locals, again>>

\* The TTL also frees a lock whose holder died.
OrphanExpires ==
  /\ lock = "orphan"
  /\ lock' = "free"
  /\ UNCHANGED <<db, events, pc, locals, bounds>>

\* The process dies: open transactions roll back, the lock key survives.
Crash ==
  /\ faults < MaxFaults
  /\ faults' = faults + 1
  /\ pc' = [c \in Calls |-> IF pc[c] \in {"idle"} \cup Ended THEN pc[c] ELSE "failed"]
  /\ credits' = [c \in Calls |-> FALSE]
  /\ lastSeen' = [c \in Calls |-> 0]
  /\ appends' = [c \in Calls |-> 0]
  /\ lock' = IF lock = "free" THEN "free" ELSE "orphan"
  /\ UNCHANGED <<db, events, again, overruns>>

Step(c) ==
  \/ Acquire(c)
  \/ StartUnlocked(c)
  \/ Begin(c)
  \/ UpdateRow(c)
  \/ ReadVersion(c)
  \/ InsertRow(c)
  \/ Collide(c)
  \/ PublishEvent(c)
  \/ Commit(c)

Next ==
  \/ \E c \in Calls : Step(c) \/ PublishEventFails(c) \/ CallAgain(c)
  \/ LockOverruns
  \/ OrphanExpires
  \/ Crash

Spec == Init /\ [][Next]_vars

\* A running handler goes on; a Redis key with a TTL expires.
FairSpec ==
  Spec /\ (\A c \in Calls : WF_vars(Step(c))) /\ WF_vars(OrphanExpires)

-----------------------------------------------------------------------------
(* Properties.                                                             *)

\* The versions of a stream are 1, 2, ... without gap or duplicate, whichever
\* writers race in appendEvent and whichever of them crash.
StreamsHaveNoGaps ==
  \A s \in Subs :
    /\ \A v \in Versions(s) : 1..v \subseteq Versions(s)
    /\ \A e, f \in events[s] : e.version = f.version => e = f

\* A verdict that is committed has its SUBMISSION_COMPLETED event: updateSubmission
\* appends before it commits.
VerdictsAreRecorded ==
  \A s \in Subs :
    verdict[s] # "PENDING" =>
      \E e \in events[s] : /\ e.type = "SUBMISSION_COMPLETED"
                           /\ VerdictOf[e.by] = verdict[s]

\* Unless a lock expired under its holder, two AC verdicts that came by gRPC for
\* the same user and problem are never between acquire and release together.
LockedUpdatesExclude ==
  overruns = 0 =>
    \A c, d \in Calls :
      /\ TakesLock(c) /\ pc[c] \in InTx \cup {"begin"}
      /\ TakesLock(d) /\ pc[d] \in InTx \cup {"begin"}
      => c = d

\* Every update that was started ends, with a commit or with an error.
EveryUpdateEnds ==
  \A c \in Calls : pc[c] = "begin" ~> pc[c] \in Ended

\* submission.service.ts:166-167: with the first accepted submission of the
\* pair the solved count is incremented in the same commit.
SolvedIsCounted == (\E s \in Subs : verdict[s] = "AC") => solved > 0

=============================================================================
