------------------------------- MODULE Outbox -------------------------------
(***************************************************************************)
(* The transactional outbox of the core service                            *)
(* (core/src/service/outbox.service.ts) and the publisher it calls         *)
(* (core/src/queues/rabbitmq/publisher.ts).                                *)
(*                                                                         *)
(* A submission and its outbox row commit together.  Batches relay PENDING *)
(* rows to the broker: one batch is one database transaction that claims   *)
(* rows FOR UPDATE SKIP LOCKED, marks them IN_FLIGHT, publishes them one   *)
(* by one, and commits.  Batches start from a NOTIFY (the CDC listener) or *)
(* from the poller, and overlap.  What a batch writes is visible to nobody *)
(* until it commits; what it sends to the broker cannot be taken back.     *)
(***************************************************************************)
EXTENDS Naturals, FiniteSets

CONSTANTS
  Msgs,         \* outbox rows that may ever be inserted
  Relays,       \* invocations of processOutboxBatch that can run at once
  MaxAttempts,  \* max_attempts column of each row: 5 for submit, 3 for run
  CreatedAt,    \* created_at column: the start of the inserting transaction
  BatchSize,    \* LIMIT of the claim (20 in both callers)
  MaxCrashes,   \* bound: crashes of the process explored
  MaxAborts     \* bound: batches whose transaction the database aborts

ASSUME MaxAttemptsAssumption == MaxAttempts \in [Msgs -> Nat \ {0}]
ASSUME CreatedAtAssumption == CreatedAt \in [Msgs -> Nat]
ASSUME BatchSizeAssumption == BatchSize \in Nat \ {0}
ASSUME BoundsAssumption == MaxCrashes \in Nat /\ MaxAborts \in Nat

VARIABLES
  status,    \* committed status column; "NONE" before the row exists
  attempts,  \* committed attempts column
  pc,        \* where each relay is
  claimed,   \* rows each relay's transaction has locked
  todo,      \* claimed rows the loop has not reached yet
  draft,     \* status each relay's open transaction has written to its rows
  shipped,   \* rows the broker has taken from each relay's open transaction
  copies,    \* copies of each message the broker has taken (history)
  orphans,   \* copies whose transaction was rolled back afterwards (history)
  unheard,   \* messages the broker refused while nobody listened (history)
  up,        \* the core process is running
  cdc,       \* state of the CDC client
  notices,   \* notifications delivered to the client and not handled yet
  crashes, aborts

rows == <<status, attempts>>
txs == <<pc, claimed, todo, draft, shipped>>
broker == <<copies, orphans, unheard>>
process == <<up, cdc, notices>>
faults == <<crashes, aborts>>
vars == <<rows, txs, broker, process, faults>>

Statuses == {"PENDING", "IN_FLIGHT", "PUBLISHED", "FAILED"}
Settled == {"PUBLISHED", "FAILED"}

TypeOK ==
  /\ status \in [Msgs -> Statuses \cup {"NONE"}]
  /\ attempts \in [Msgs -> Nat]
  /\ pc \in [Relays -> {"idle", "relaying", "draining", "hung"}]
  /\ claimed \in [Relays -> SUBSET Msgs]
  /\ todo \in [Relays -> SUBSET Msgs]
  /\ draft \in [Relays -> [Msgs -> Statuses]]
  /\ shipped \in [Relays -> SUBSET Msgs]
  /\ copies \in [Msgs -> Nat]
  /\ orphans \in [Msgs -> Nat]
  /\ unheard \subseteq Msgs
  /\ up \in BOOLEAN
  /\ cdc \in {"off", "listening", "waiting"}
  /\ notices \in Nat
  /\ crashes \in Nat
  /\ aborts \in Nat

NoDraft == [m \in Msgs |-> "PENDING"]

Init ==
  /\ status = [m \in Msgs |-> "NONE"]
  /\ attempts = [m \in Msgs |-> 0]
  /\ pc = [r \in Relays |-> "idle"]
  /\ claimed = [r \in Relays |-> {}]
  /\ todo = [r \in Relays |-> {}]
  /\ draft = [r \in Relays |-> NoDraft]
  /\ shipped = [r \in Relays |-> {}]
  /\ copies = [m \in Msgs |-> 0]
  /\ orphans = [m \in Msgs |-> 0]
  /\ unheard = {}
  /\ up = TRUE
  /\ cdc = "waiting"
  /\ notices = 0
  /\ crashes = 0
  /\ aborts = 0

-----------------------------------------------------------------------------
(* Inserting a row.                                                        *)

\* The inserting transaction commits; the trigger's NOTIFY goes out with the
\* commit and reaches the client only if it is listening at that moment.
SaveOutboxMessage(m) ==
  /\ up
  /\ status[m] = "NONE"
  /\ status' = [status EXCEPT ![m] = "PENDING"]
  /\ notices' = IF cdc = "listening" THEN notices + 1 ELSE notices
  /\ UNCHANGED <<attempts, txs, broker, up, cdc, faults>>

-----------------------------------------------------------------------------
(* A relay: one call of processOutboxBatch.                                *)

Locked == UNION {claimed[r] : r \in Relays}

\* Mutants: the claim without SKIP LOCKED, and one that takes FAILED rows back.
EligibleUnlocked == {m \in Msgs : status[m] = "PENDING" /\ attempts[m] <= MaxAttempts[m]}
EligibleFailedToo ==
  {m \in Msgs \ Locked : status[m] \in {"PENDING", "FAILED"}}

Eligible ==
  {m \in Msgs \ Locked : status[m] = "PENDING" /\ attempts[m] <= MaxAttempts[m]}

\* ORDER BY created_at LIMIT BatchSize over the rows nobody holds locked.
OldestOf(S) ==
  {B \in SUBSET S :
     /\ Cardinality(B) <= BatchSize
     /\ B # S => Cardinality(B) = BatchSize
     /\ \A b \in B, m \in S \ B : CreatedAt[b] <= CreatedAt[m]}

\* The claim locks the rows and marks them IN_FLIGHT in the open transaction.
Claim(r) ==
  /\ pc[r] = "idle"
  /\ \E batch \in OldestOf(Eligible) :
       IF batch = {}
         THEN UNCHANGED txs
         ELSE /\ pc' = [pc EXCEPT ![r] = "relaying"]
              /\ claimed' = [claimed EXCEPT ![r] = batch]
              /\ todo' = [todo EXCEPT ![r] = batch]
              /\ draft' = [draft EXCEPT ![r] =
                             [m \in Msgs |-> IF m \in batch THEN "IN_FLIGHT" ELSE "PENDING"]]
              /\ UNCHANGED shipped

\* A notification starts a batch, whichever row it names.
OnNotification(r) ==
  /\ up
  /\ notices > 0
  /\ notices' = notices - 1
  /\ Claim(r)
  /\ UNCHANGED <<rows, broker, up, cdc, faults>>

PollerTick(r) ==
  /\ up
  /\ Eligible # {}
  /\ Claim(r)
  /\ UNCHANGED <<rows, broker, process, faults>>

\* The loop publishes the rows of the batch in created_at order.
IsNext(r, m) ==
  /\ m \in todo[r]
  /\ \A n \in todo[r] : CreatedAt[m] <= CreatedAt[n]

Written(r, m, s) ==
  /\ draft' = [draft EXCEPT ![r][m] = s]
  /\ todo' = [todo EXCEPT ![r] = @ \ {m}]
  /\ pc' = [pc EXCEPT ![r] = "relaying"]
  /\ UNCHANGED claimed

\* Mutants: the row not reverted to PENDING, and a status the column never has.
AfterErrorUntyped(m) == IF attempts[m] + 1 >= MaxAttempts[m] THEN "FAILED" ELSE "NONE"
AfterErrorInFlight(m) ==
  IF attempts[m] + 1 >= MaxAttempts[m] THEN "FAILED" ELSE "IN_FLIGHT"

AfterError(m) ==
  IF attempts[m] + 1 >= MaxAttempts[m] THEN "FAILED" ELSE "PENDING"

Taken(r, m) ==
  /\ copies' = [copies EXCEPT ![m] = @ + 1]
  /\ shipped' = [shipped EXCEPT ![r] = @ \cup {m}]

\* The confirm of the broker arrives.
PublishConfirmed(r, m) ==
  /\ pc[r] \in {"relaying", "draining"}
  /\ IsNext(r, m)
  /\ Taken(r, m)
  /\ Written(r, m, "PUBLISHED")
  /\ UNCHANGED <<rows, orphans, unheard, process, faults>>

\* Mutant: no wait for the confirm, the row becomes PUBLISHED regardless.
PublishRefusedIgnored(r, m) ==
  /\ pc[r] = "relaying"
  /\ IsNext(r, m)
  /\ Written(r, m, "PUBLISHED")
  /\ UNCHANGED <<rows, shipped, broker, process, faults>>

\* No channel, or the broker refuses the message: the publisher throws.
PublishRefused(r, m) ==
  /\ pc[r] = "relaying"
  /\ IsNext(r, m)
  /\ Written(r, m, AfterError(m))
  /\ UNCHANGED <<rows, shipped, broker, process, faults>>

\* The broker has the message, but waitForConfirms rejects: the channel closes
\* before the confirm, or another message on the shared channel is refused.
PublishUnconfirmed(r, m) ==
  /\ pc[r] \in {"relaying", "draining"}
  /\ IsNext(r, m)
  /\ Taken(r, m)
  /\ Written(r, m, AfterError(m))
  /\ UNCHANGED <<rows, orphans, unheard, process, faults>>

\* channel.publish returns false: the publisher waits for 'drain' first.
PublishBufferFull(r) ==
  /\ pc[r] = "relaying"
  /\ todo[r] # {}
  /\ pc' = [pc EXCEPT ![r] = "draining"]
  /\ UNCHANGED <<rows, claimed, todo, draft, shipped, broker, process, faults>>

\* A refusal that arrives during the wait for 'drain' is not seen by the
\* waitForConfirms called afterwards, which then finds nothing to wait for.
PublishRefusedUnheard(r, m) ==
  /\ pc[r] = "draining"
  /\ IsNext(r, m)
  /\ unheard' = unheard \cup {m}
  /\ Written(r, m, "PUBLISHED")
  /\ UNCHANGED <<rows, shipped, copies, orphans, process, faults>>

\* The channel closes: 'drain' never fires for those who wait for it.  The
\* messages they had buffered may or may not have reached the broker.
ChannelCloses ==
  /\ \E r \in Relays : pc[r] = "draining"
  /\ \E S \in SUBSET {m \in Msgs : \E r \in Relays : pc[r] = "draining" /\ IsNext(r, m)} :
       /\ \A r \in Relays, m, n \in S : IsNext(r, m) /\ IsNext(r, n) => m = n
       /\ copies' = [m \in Msgs |-> IF m \in S THEN copies[m] + 1 ELSE copies[m]]
       /\ shipped' = [r \in Relays |->
                        IF pc[r] = "draining"
                          THEN shipped[r] \cup {m \in S : IsNext(r, m)} ELSE shipped[r]]
  /\ pc' = [r \in Relays |-> IF pc[r] = "draining" THEN "hung" ELSE pc[r]]
  /\ UNCHANGED <<rows, claimed, todo, draft, orphans, unheard, process, faults>>

\* Mutant: the retry does not count as an attempt.
CommitBatchUncounted(r) ==
  /\ pc[r] = "relaying"
  /\ todo[r] = {}
  /\ status' = [m \in Msgs |-> IF m \in claimed[r] THEN draft[r][m] ELSE status[m]]
  /\ pc' = [pc EXCEPT ![r] = "idle"]
  /\ claimed' = [claimed EXCEPT ![r] = {}]
  /\ draft' = [draft EXCEPT ![r] = NoDraft]
  /\ shipped' = [shipped EXCEPT ![r] = {}]
  /\ UNCHANGED <<attempts, todo, broker, process, faults>>

\* Every row of the batch is handled: the transaction commits.
CommitBatch(r) ==
  /\ pc[r] = "relaying"
  /\ todo[r] = {}
  /\ status' = [m \in Msgs |-> IF m \in claimed[r] THEN draft[r][m] ELSE status[m]]
  /\ attempts' = [m \in Msgs |->
                    IF m \in claimed[r] /\ draft[r][m] \in {"PENDING", "FAILED"}
                      THEN attempts[m] + 1 ELSE attempts[m]]
  /\ pc' = [pc EXCEPT ![r] = "idle"]
  /\ claimed' = [claimed EXCEPT ![r] = {}]
  /\ draft' = [draft EXCEPT ![r] = NoDraft]
  /\ shipped' = [shipped EXCEPT ![r] = {}]
  /\ UNCHANGED <<todo, broker, process, faults>>

\* Transactions of the relays in R roll back; what they shipped stays shipped.
RollBack(R) ==
  /\ pc' = [r \in Relays |-> IF r \in R THEN "idle" ELSE pc[r]]
  /\ claimed' = [r \in Relays |-> IF r \in R THEN {} ELSE claimed[r]]
  /\ todo' = [r \in Relays |-> IF r \in R THEN {} ELSE todo[r]]
  /\ draft' = [r \in Relays |-> IF r \in R THEN NoDraft ELSE draft[r]]
  /\ shipped' = [r \in Relays |-> IF r \in R THEN {} ELSE shipped[r]]
  /\ orphans' = [m \in Msgs |-> IF \E r \in R : m \in shipped[r]
                                  THEN orphans[m] + 1 ELSE orphans[m]]
  /\ UNCHANGED <<rows, copies, unheard>>

\* A statement of the batch fails: the callback throws, the caller only logs.
AbortBatch(r) ==
  /\ pc[r] = "relaying"
  /\ aborts < MaxAborts
  /\ aborts' = aborts + 1
  /\ RollBack({r})
  /\ UNCHANGED <<process, crashes>>

-----------------------------------------------------------------------------
(* The CDC client and the process.                                         *)

\* connect() and LISTEN succeed, at start or when the reconnect timer fires.
CDCConnect ==
  /\ up
  /\ cdc = "waiting"
  /\ cdc' = "listening"
  /\ UNCHANGED <<rows, txs, broker, up, notices, faults>>

\* 'error' or 'end': listeners are removed and a reconnect is scheduled.
CDCLost ==
  /\ cdc = "listening"
  /\ cdc' = "waiting"
  /\ notices' = 0
  /\ UNCHANGED <<rows, txs, broker, up, faults>>

Crash ==
  /\ up
  /\ crashes < MaxCrashes
  /\ crashes' = crashes + 1
  /\ RollBack(Relays)
  /\ up' = FALSE
  /\ cdc' = "off"
  /\ notices' = 0
  /\ UNCHANGED aborts

\* server.ts starts the CDC listener and then the poller.
Restart ==
  /\ ~up
  /\ up' = TRUE
  /\ cdc' = "waiting"
  /\ UNCHANGED <<rows, txs, broker, notices, faults>>

-----------------------------------------------------------------------------
PublishEnds(r) ==
  \E m \in Msgs : \/ PublishConfirmed(r, m)
                  \/ PublishRefused(r, m)
                  \/ PublishUnconfirmed(r, m)
                  \/ PublishRefusedUnheard(r, m)

Relay(r) ==
  \/ OnNotification(r)
  \/ PollerTick(r)
  \/ PublishEnds(r)
  \/ PublishBufferFull(r)
  \/ CommitBatch(r)
  \/ AbortBatch(r)

Next ==
  \/ \E m \in Msgs : SaveOutboxMessage(m)
  \/ \E r \in Relays : Relay(r)
  \/ ChannelCloses
  \/ CDCConnect
  \/ CDCLost
  \/ Crash
  \/ Restart

Spec == Init /\ [][Next]_vars

\* The interval timer of the poller keeps firing, a publish that is not stuck
\* on a dead channel ends, and the database answers a COMMIT.  Nothing is
\* assumed of CDC, and nothing of Restart: docker-compose.yml gives the core
\* service no restart policy.
Fairness ==
  \A r \in Relays : /\ WF_vars(PollerTick(r))
                    /\ WF_vars(PublishEnds(r))
                    /\ WF_vars(CommitBatch(r))

FairSpec == Spec /\ Fairness

-----------------------------------------------------------------------------
(* What the outbox guarantees.                                             *)

\* Two concurrent batches never hold the same row, and a row a batch holds is
\* still PENDING in the table: the claim of processOutboxBatch (FOR UPDATE
\* SKIP LOCKED) keeps the CDC listener and the poller apart.
ClaimsAreExclusive ==
  /\ \A r, s \in Relays : r # s => claimed[r] \cap claimed[s] = {}
  /\ \A r \in Relays : \A m \in claimed[r] : status[m] = "PENDING"

\* A row says PUBLISHED only if the broker took the message, or refused it
\* while the publisher was waiting for 'drain' and could not hear the refusal.
PublishedReachedBroker ==
  \A m \in Msgs : status[m] = "PUBLISHED" => copies[m] > 0 \/ m \in unheard

\* No committed row is IN_FLIGHT.  Nothing in the code ever selects such a row
\* again, so one left behind by a crash would be lost without a trace.
NoRowStaysInFlight == \A m \in Msgs : status[m] # "IN_FLIGHT"

\* A row is retried exactly as long as it has attempts left: FAILED rows have
\* used them all, and the looser attempts <= max_attempts of the claim never
\* gives a row one more.
AttemptsMeetTheirLimit ==
  \A m \in Msgs : /\ status[m] = "PENDING" => attempts[m] < MaxAttempts[m]
                  /\ status[m] = "FAILED" => attempts[m] = MaxAttempts[m]

\* Consumers may see a message more than once, but every copy is explained: it
\* is the one whose row became PUBLISHED, or one whose confirm failed (each
\* costs an attempt), or one whose batch was rolled back, or one in an open batch.
CopiesAreExplained ==
  \A m \in Msgs :
    copies[m] <= attempts[m] + orphans[m]
                 + (IF \/ status[m] = "PUBLISHED"
                       \/ \E r \in Relays : m \in shipped[r] THEN 1 ELSE 0)

\* Once a row is PUBLISHED or FAILED it stays so and no further copy of its
\* message is sent, whatever batches are running and whoever crashes.
SettledIsForever ==
  [][\A m \in Msgs : status[m] \in Settled =>
        /\ status'[m] = status[m]
        /\ attempts'[m] = attempts[m]
        /\ copies'[m] = copies[m]]_vars

PhaseOf(s) ==
  CASE s = "NONE" -> "unknown"
    [] s = "PUBLISHED" -> "published"
    [] s = "FAILED" -> "failed"
    [] OTHER -> "open"

Abstract == INSTANCE Delivery WITH phase <- [m \in Msgs |-> PhaseOf(status[m])]

\* The outbox implements the delivery it promises to the rest of the system.
ImplementsDelivery == Abstract!Spec

HeldByHungRelay(m) == \E r \in Relays : pc[r] = "hung" /\ m \in claimed[r]

\* Every row is eventually settled by the poller alone, however many
\* notifications are lost, unless the process stays down, or a relay that waits
\* for a 'drain' that never comes keeps the row locked, or all relays do.
EveryRowSettles ==
  \A m \in Msgs :
    status[m] = "PENDING" ~> \/ status[m] \in Settled \/ ~up
                             \/ HeldByHungRelay(m) \/ \A r \in Relays : pc[r] = "hung"

=============================================================================
