---------------------------- MODULE OutboxProofs ----------------------------
(***************************************************************************)
(* Proofs about Outbox for any number of rows and relays.  The inductive   *)
(* invariant says what an open transaction knows of the rows it holds.     *)
(***************************************************************************)
EXTENDS Outbox, TLAPS

\* A relay works inside its own claim, and an idle relay holds nothing.
TxShape ==
  \A r \in Relays :
    /\ todo[r] \subseteq claimed[r]
    /\ shipped[r] \subseteq claimed[r]
    /\ pc[r] = "idle" => claimed[r] = {}
    /\ pc[r] # "hung" => shipped[r] \cap todo[r] = {}

\* What a relay has written to a row it holds agrees with the committed row.
DraftAgrees ==
  \A r \in Relays : \A m \in claimed[r] :
    /\ m \notin todo[r] => draft[r][m] # "IN_FLIGHT"
    /\ draft[r][m] = "PUBLISHED" => copies[m] > 0 \/ m \in unheard
    /\ draft[r][m] = "FAILED" => attempts[m] + 1 = MaxAttempts[m]
    /\ draft[r][m] = "PENDING" => attempts[m] + 1 < MaxAttempts[m]

IInv ==
  /\ TypeOK
  /\ ClaimsAreExclusive
  /\ TxShape
  /\ DraftAgrees
  /\ PublishedReachedBroker
  /\ NoRowStaysInFlight
  /\ AttemptsMeetTheirLimit
  /\ CopiesAreExplained
  /\ \A m \in Msgs : status[m] = "NONE" => attempts[m] = 0

USE MaxAttemptsAssumption

-----------------------------------------------------------------------------
LEMMA InitIInv == Init => IInv
<1> SUFFICES ASSUME Init PROVE IInv
  OBVIOUS
<1>1. TypeOK
  BY DEF Init, TypeOK, NoDraft, Statuses
<1>2. ClaimsAreExclusive /\ TxShape /\ DraftAgrees
  BY DEF Init, ClaimsAreExclusive, TxShape, DraftAgrees
<1>3. PublishedReachedBroker /\ NoRowStaysInFlight /\ AttemptsMeetTheirLimit
  BY DEF Init, PublishedReachedBroker, NoRowStaysInFlight, AttemptsMeetTheirLimit
<1>4. CopiesAreExplained
  BY DEF Init, CopiesAreExplained
<1> QED
  BY <1>1, <1>2, <1>3, <1>4 DEF IInv, Init

LEMMA SaveStep ==
  ASSUME IInv, NEW m \in Msgs, SaveOutboxMessage(m)
  PROVE  IInv'
<1> USE DEF IInv, SaveOutboxMessage, txs, broker, faults
<1>1. TypeOK'
  BY DEF TypeOK, Statuses
<1>2. ClaimsAreExclusive' /\ TxShape' /\ DraftAgrees'
  BY DEF TypeOK, ClaimsAreExclusive, TxShape, DraftAgrees
<1>3. PublishedReachedBroker' /\ NoRowStaysInFlight' /\ AttemptsMeetTheirLimit'
  BY DEF TypeOK, PublishedReachedBroker, NoRowStaysInFlight, AttemptsMeetTheirLimit
<1>4. CopiesAreExplained'
  BY DEF TypeOK, CopiesAreExplained
<1> QED
  BY <1>1, <1>2, <1>3, <1>4 DEF TypeOK

\* The CDC client, the process flag and the fault counters are not part of the
\* argument.
LEMMA FrameStep ==
  ASSUME IInv, UNCHANGED <<rows, txs, broker>>,
         up' \in BOOLEAN, cdc' \in {"off", "listening", "waiting"},
         notices' \in Nat, crashes' \in Nat, aborts' \in Nat
  PROVE  IInv'
<1> USE DEF IInv, rows, txs, broker
<1>1. TypeOK'
  BY DEF TypeOK
<1>2. ClaimsAreExclusive' /\ TxShape' /\ DraftAgrees'
  BY DEF ClaimsAreExclusive, TxShape, DraftAgrees
<1>3. (PublishedReachedBroker /\ NoRowStaysInFlight /\ AttemptsMeetTheirLimit)'
  BY DEF PublishedReachedBroker, NoRowStaysInFlight, AttemptsMeetTheirLimit
<1>4. CopiesAreExplained'
  BY DEF CopiesAreExplained
<1> QED
  BY <1>1, <1>2, <1>3, <1>4

\* Claiming rows disturbs only the transaction of the relay that claims.
LEMMA ClaimStep ==
  ASSUME IInv, NEW r \in Relays, Claim(r),
         UNCHANGED <<rows, broker>>,
         up' \in BOOLEAN, cdc' \in {"off", "listening", "waiting"},
         notices' \in Nat, UNCHANGED faults
  PROVE  IInv'
<1> USE DEF IInv, rows, broker, faults
<1>0. crashes' \in Nat /\ aborts' \in Nat
  BY DEF TypeOK
<1>1. CASE UNCHANGED txs
  BY <1>0, <1>1, FrameStep
<1>2. ASSUME NEW batch \in OldestOf(Eligible),
             pc' = [pc EXCEPT ![r] = "relaying"],
             claimed' = [claimed EXCEPT ![r] = batch],
             todo' = [todo EXCEPT ![r] = batch],
             draft' = [draft EXCEPT ![r] =
                         [m \in Msgs |-> IF m \in batch THEN "IN_FLIGHT" ELSE "PENDING"]],
             UNCHANGED shipped,
             pc[r] = "idle"
      PROVE  IInv'
  <2>1. /\ batch \subseteq Msgs
        /\ \A m \in batch : status[m] = "PENDING" /\ \A s \in Relays : m \notin claimed[s]
    BY DEF OldestOf, Eligible, Locked
  <2>2. TypeOK'
    BY <1>2, <2>1 DEF TypeOK, Statuses
  <2>3. ClaimsAreExclusive'
    BY <1>2, <2>1 DEF TypeOK, ClaimsAreExclusive
  <2>4. TxShape'
    BY <1>2, <2>1 DEF TypeOK, TxShape
  <2>5. DraftAgrees'
    BY <1>2, <2>1 DEF TypeOK, DraftAgrees
  <2>6. (PublishedReachedBroker /\ NoRowStaysInFlight /\ AttemptsMeetTheirLimit)'
    BY DEF PublishedReachedBroker, NoRowStaysInFlight, AttemptsMeetTheirLimit
  <2>7. CopiesAreExplained'
    BY <1>2 DEF CopiesAreExplained
  <2> QED
    BY <2>2, <2>3, <2>4, <2>5, <2>6, <2>7
<1> QED
  BY <1>1, <1>2 DEF Claim

LEMMA AfterErrorAgrees ==
  ASSUME IInv, NEW m \in Msgs, status[m] = "PENDING"
  PROVE  /\ AfterError(m) \in {"FAILED", "PENDING"}
         /\ AfterError(m) = "FAILED" => attempts[m] + 1 = MaxAttempts[m]
         /\ AfterError(m) = "PENDING" => attempts[m] + 1 < MaxAttempts[m]
  BY DEF IInv, TypeOK, AfterError, AttemptsMeetTheirLimit

\* A publish ends: row m of relay r leaves the loop with status s written.  It
\* may have been taken by the broker on the way.
LEMMA PublishStep ==
  ASSUME IInv, NEW r \in Relays, NEW m \in todo[r], NEW s \in {"PENDING", "PUBLISHED", "FAILED"},
         pc[r] # "hung", Written(r, m, s),
         UNCHANGED <<rows, orphans, process, faults>>,
         unheard' \in {unheard, unheard \cup {m}},
         Taken(r, m) \/ UNCHANGED <<copies, shipped>>,
         s = "PUBLISHED" => Taken(r, m) \/ m \in unheard',
         s = "FAILED" => attempts[m] + 1 = MaxAttempts[m],
         s = "PENDING" => attempts[m] + 1 < MaxAttempts[m]
  PROVE  IInv'
<1> USE DEF IInv, rows, process, faults, Written
<1>1. /\ m \in Msgs /\ m \in claimed[r] /\ status[m] = "PENDING"
      /\ \A q \in Relays : m \notin shipped[q]
  BY DEF TypeOK, TxShape, ClaimsAreExclusive
<1>2. /\ \A n \in Msgs : copies'[n] >= copies[n]
      /\ \A n \in Msgs : n # m => copies'[n] = copies[n]
      /\ unheard \subseteq unheard'
  BY <1>1 DEF TypeOK, Taken
<1>3. TypeOK'
  <2>1. copies' \in [Msgs -> Nat] /\ shipped' \in [Relays -> SUBSET Msgs]
    <3>1. CASE Taken(r, m)
      <4>1. copies' \in [Msgs -> Nat]
        BY <1>1, <3>1 DEF TypeOK, Taken
      <4>2. shipped' \in [Relays -> SUBSET Msgs]
        BY <1>1, <3>1 DEF TypeOK, Taken
      <4> QED
        BY <4>1, <4>2
    <3>2. CASE UNCHANGED <<copies, shipped>>
      BY <3>2 DEF TypeOK
    <3> QED
      BY <3>1, <3>2
  <2>2. /\ draft' \in [Relays -> [Msgs -> Statuses]]
        /\ todo' \in [Relays -> SUBSET Msgs]
        /\ pc' \in [Relays -> {"idle", "relaying", "draining", "hung"}]
    BY <1>1 DEF TypeOK, Statuses
  <2>3. unheard' \subseteq Msgs
    BY <1>1 DEF TypeOK
  <2> QED
    BY <2>1, <2>2, <2>3 DEF TypeOK
<1>4. ClaimsAreExclusive'
  BY DEF ClaimsAreExclusive
<1>5. TxShape'
  BY <1>1 DEF TypeOK, TxShape, Taken
<1>6. DraftAgrees'
  <2> SUFFICES ASSUME NEW q \in Relays, NEW n \in claimed[q]
               PROVE  /\ n \notin todo'[q] => draft'[q][n] # "IN_FLIGHT"
                      /\ draft'[q][n] = "PUBLISHED" => copies'[n] > 0 \/ n \in unheard'
                      /\ draft'[q][n] = "FAILED" => attempts[n] + 1 = MaxAttempts[n]
                      /\ draft'[q][n] = "PENDING" => attempts[n] + 1 < MaxAttempts[n]
    BY DEF DraftAgrees
  <2>1. CASE q = r /\ n = m
    BY <1>1, <2>1 DEF TypeOK, Taken
  <2>2. CASE ~(q = r /\ n = m)
    <3>1. n \in Msgs /\ draft'[q][n] = draft[q][n]
      BY <1>1, <2>2 DEF TypeOK
    <3>2. n \in todo[q] <=> n \in todo'[q]
      BY <1>1, <2>2 DEF TypeOK
    <3>3. copies[n] > 0 \/ n \in unheard => copies'[n] > 0 \/ n \in unheard'
      BY <1>2, <1>3, <3>1 DEF TypeOK
    <3>4. n \in claimed[q]
      BY DEF TypeOK
    <3> QED
      BY <3>1, <3>2, <3>3, <3>4 DEF DraftAgrees
  <2> QED
    BY <2>1, <2>2
<1>7. (PublishedReachedBroker /\ NoRowStaysInFlight /\ AttemptsMeetTheirLimit)'
  BY <1>2, <1>3 DEF TypeOK, PublishedReachedBroker, NoRowStaysInFlight, AttemptsMeetTheirLimit
<1>8. CopiesAreExplained'
  <2>1. CASE UNCHANGED <<copies, shipped>>
    BY <2>1 DEF CopiesAreExplained
  <2>2. CASE Taken(r, m)
    <3> SUFFICES ASSUME NEW n \in Msgs
                 PROVE  copies'[n] <= attempts[n] + orphans[n]
                          + (IF \/ status[n] = "PUBLISHED"
                                \/ \E q \in Relays : n \in shipped'[q] THEN 1 ELSE 0)
      BY DEF CopiesAreExplained
    <3>1. CASE n = m
      <4>1. copies[n] <= attempts[n] + orphans[n]
        BY <1>1, <3>1 DEF CopiesAreExplained, TypeOK
      <4>2. n \in shipped'[r] /\ copies'[n] = copies[n] + 1
        BY <1>1, <2>2, <3>1 DEF Taken, TypeOK
      <4> QED
        BY <4>1, <4>2 DEF TypeOK
    <3>2. CASE n # m
      <4>1. \A q \in Relays : n \in shipped'[q] <=> n \in shipped[q]
        BY <2>2, <3>2 DEF Taken, TypeOK
      <4> QED
        BY <1>2, <3>2, <4>1 DEF CopiesAreExplained
    <3> QED
      BY <3>1, <3>2
  <2> QED
    BY <2>1, <2>2
<1> QED
  BY <1>3, <1>4, <1>5, <1>6, <1>7, <1>8

LEMMA PublishEndsStep ==
  ASSUME IInv, NEW r \in Relays, PublishEnds(r)
  PROVE  IInv'
<1>1. PICK m \in Msgs : \/ PublishConfirmed(r, m)
                       \/ PublishRefused(r, m)
                       \/ PublishUnconfirmed(r, m)
                       \/ PublishRefusedUnheard(r, m)
  BY DEF PublishEnds
<1>2. m \in todo[r] /\ pc[r] # "hung"
  BY <1>1 DEF PublishConfirmed, PublishRefused, PublishUnconfirmed, PublishRefusedUnheard, IsNext
<1>3. status[m] = "PENDING"
  BY <1>2 DEF IInv, TxShape, ClaimsAreExclusive
<1>4. /\ AfterError(m) \in {"FAILED", "PENDING"}
      /\ AfterError(m) = "FAILED" => attempts[m] + 1 = MaxAttempts[m]
      /\ AfterError(m) = "PENDING" => attempts[m] + 1 < MaxAttempts[m]
  BY <1>3, AfterErrorAgrees
<1>5. CASE PublishConfirmed(r, m)
  BY <1>2, <1>5, PublishStep DEF PublishConfirmed
<1>6. CASE PublishRefused(r, m)
  BY <1>2, <1>4, <1>6, PublishStep DEF PublishRefused, broker
<1>7. CASE PublishUnconfirmed(r, m)
  BY <1>2, <1>4, <1>7, PublishStep DEF PublishUnconfirmed
<1>8. CASE PublishRefusedUnheard(r, m)
  BY <1>2, <1>8, PublishStep DEF PublishRefusedUnheard
<1> QED
  BY <1>1, <1>5, <1>6, <1>7, <1>8

LEMMA BufferFullStep ==
  ASSUME IInv, NEW r \in Relays, PublishBufferFull(r)
  PROVE  IInv'
<1> USE DEF IInv, PublishBufferFull, rows, broker, process, faults
<1>1. TypeOK'
  BY DEF TypeOK
<1>2. TxShape'
  BY DEF TypeOK, TxShape
<1>3. ClaimsAreExclusive' /\ DraftAgrees'
  BY DEF ClaimsAreExclusive, DraftAgrees
<1>4. (PublishedReachedBroker /\ NoRowStaysInFlight /\ AttemptsMeetTheirLimit)'
  BY DEF PublishedReachedBroker, NoRowStaysInFlight, AttemptsMeetTheirLimit
<1>5. CopiesAreExplained'
  BY DEF CopiesAreExplained
<1> QED
  BY <1>1, <1>2, <1>3, <1>4, <1>5

\* A closing channel only hangs relays and adds copies of rows they hold.
LEMMA ChannelClosesStep ==
  ASSUME IInv, ChannelCloses
  PROVE  IInv'
<1> USE DEF IInv, rows, process, faults
<1> DEFINE Heads == {m \in Msgs : \E r \in Relays : pc[r] = "draining" /\ IsNext(r, m)}
<1>1. PICK S \in SUBSET Heads :
        /\ copies' = [m \in Msgs |-> IF m \in S THEN copies[m] + 1 ELSE copies[m]]
        /\ shipped' = [r \in Relays |->
                         IF pc[r] = "draining"
                           THEN shipped[r] \cup {m \in S : IsNext(r, m)} ELSE shipped[r]]
  BY DEF ChannelCloses
<1>2. /\ pc' = [r \in Relays |-> IF pc[r] = "draining" THEN "hung" ELSE pc[r]]
      /\ UNCHANGED <<rows, claimed, todo, draft, orphans, unheard, process, faults>>
  BY DEF ChannelCloses
<1>3. \A n \in Msgs : copies'[n] >= copies[n]
  BY <1>1 DEF TypeOK
<1>4. TypeOK'
  BY <1>1, <1>2 DEF TypeOK
<1>5. ClaimsAreExclusive'
  BY <1>2 DEF ClaimsAreExclusive
<1>6. TxShape'
  BY <1>1, <1>2 DEF TypeOK, TxShape, IsNext
<1>7. DraftAgrees'
  BY <1>2, <1>3, <1>4 DEF TypeOK, DraftAgrees
<1>8. (PublishedReachedBroker /\ NoRowStaysInFlight /\ AttemptsMeetTheirLimit)'
  BY <1>2, <1>3, <1>4 DEF TypeOK, PublishedReachedBroker, NoRowStaysInFlight, AttemptsMeetTheirLimit
<1>9. CopiesAreExplained'
  <2> SUFFICES ASSUME NEW n \in Msgs
               PROVE  copies'[n] <= attempts[n] + orphans[n]
                        + (IF \/ status[n] = "PUBLISHED"
                              \/ \E q \in Relays : n \in shipped'[q] THEN 1 ELSE 0)
    BY <1>2 DEF CopiesAreExplained
  <2>1. CASE n \in S
    <3>1. PICK r \in Relays : pc[r] = "draining" /\ IsNext(r, n)
      BY <1>1, <2>1
    <3>2. n \in shipped'[r]
      BY <1>1, <2>1, <3>1
    <3>3. /\ status[n] # "PUBLISHED"
          /\ \A q \in Relays : n \notin shipped[q]
      BY <3>1 DEF IsNext, TxShape, ClaimsAreExclusive, TypeOK
    <3>4. copies[n] <= attempts[n] + orphans[n]
      BY <3>3 DEF CopiesAreExplained, TypeOK
    <3> QED
      BY <1>1, <2>1, <3>2, <3>4 DEF TypeOK
  <2>2. CASE n \notin S
    <3>1. \A q \in Relays : n \in shipped'[q] <=> n \in shipped[q]
      BY <1>1, <2>2
    <3> QED
      BY <1>1, <2>2, <3>1 DEF CopiesAreExplained
  <2> QED
    BY <2>1, <2>2
<1> QED
  BY <1>2, <1>4, <1>5, <1>6, <1>7, <1>8, <1>9

LEMMA CommitStep ==
  ASSUME IInv, NEW r \in Relays, CommitBatch(r)
  PROVE  IInv'
<1> USE DEF IInv, CommitBatch, broker, process, faults
<1>1. \A m \in claimed[r] : /\ m \in Msgs
                            /\ status[m] = "PENDING"
                            /\ draft[r][m] \in {"PENDING", "PUBLISHED", "FAILED"}
  BY DEF TypeOK, ClaimsAreExclusive, DraftAgrees, Statuses
<1>2. TypeOK'
  BY <1>1 DEF TypeOK, Statuses, NoDraft
<1>4. ClaimsAreExclusive'
  BY DEF TypeOK, ClaimsAreExclusive
<1>5. TxShape'
  BY DEF TypeOK, TxShape
<1>6. DraftAgrees'
  <2> SUFFICES ASSUME NEW q \in Relays, NEW n \in claimed'[q]
               PROVE  /\ n \notin todo[q] => draft'[q][n] # "IN_FLIGHT"
                      /\ draft'[q][n] = "PUBLISHED" => copies[n] > 0 \/ n \in unheard
                      /\ draft'[q][n] = "FAILED" => attempts'[n] + 1 = MaxAttempts[n]
                      /\ draft'[q][n] = "PENDING" => attempts'[n] + 1 < MaxAttempts[n]
    BY DEF DraftAgrees
  <2>1. q # r /\ n \in claimed[q] /\ draft'[q] = draft[q]
    BY DEF TypeOK
  <2>2. n \in Msgs /\ attempts'[n] = attempts[n]
    BY <2>1 DEF TypeOK, ClaimsAreExclusive
  <2> QED
    BY <2>1, <2>2 DEF DraftAgrees
<1>7. PublishedReachedBroker' /\ NoRowStaysInFlight'
  BY <1>1 DEF TypeOK, PublishedReachedBroker, NoRowStaysInFlight, DraftAgrees
<1>8. AttemptsMeetTheirLimit'
  BY <1>1 DEF TypeOK, AttemptsMeetTheirLimit, DraftAgrees
<1>9. CopiesAreExplained'
  <2> SUFFICES ASSUME NEW n \in Msgs
               PROVE  copies[n] <= attempts'[n] + orphans[n]
                        + (IF \/ status'[n] = "PUBLISHED"
                              \/ \E q \in Relays : n \in shipped'[q] THEN 1 ELSE 0)
    BY DEF CopiesAreExplained
  <2>0. copies[n] \in Nat /\ attempts[n] \in Nat /\ attempts'[n] \in Nat /\ orphans[n] \in Nat
    BY <1>2 DEF TypeOK
  <2>1. CASE n \in claimed[r]
    <3>1. copies[n] <= attempts[n] + orphans[n] + 1
      BY <2>0 DEF CopiesAreExplained
    <3>2. \/ status'[n] = "PUBLISHED" /\ attempts'[n] = attempts[n]
          \/ attempts'[n] = attempts[n] + 1
      BY <1>1, <2>1 DEF TypeOK
    <3> QED
      BY <2>0, <3>1, <3>2
  <2>2. CASE n \notin claimed[r]
    <3>1. status'[n] = status[n] /\ attempts'[n] = attempts[n]
      BY <2>2 DEF TypeOK
    <3>2. \A q \in Relays : n \in shipped[q] <=> n \in shipped'[q]
      BY <2>2 DEF TypeOK, TxShape
    <3> QED
      BY <3>1, <3>2 DEF CopiesAreExplained
  <2> QED
    BY <2>1, <2>2
<1>10. \A m \in Msgs : status'[m] = "NONE" => attempts'[m] = 0
  BY <1>1 DEF TypeOK
<1> QED
  BY <1>2, <1>4, <1>5, <1>6, <1>7, <1>8, <1>9, <1>10

LEMMA RollBackStep ==
  ASSUME IInv, NEW R, RollBack(R),
         up' \in BOOLEAN, cdc' \in {"off", "listening", "waiting"},
         notices' \in Nat, crashes' \in Nat, aborts' \in Nat
  PROVE  IInv'
<1> USE DEF IInv, RollBack, rows
<1>1. TypeOK'
  BY DEF TypeOK, NoDraft, Statuses
<1>2. ClaimsAreExclusive' /\ TxShape'
  BY DEF TypeOK, ClaimsAreExclusive, TxShape
<1>3. DraftAgrees'
  BY DEF TypeOK, DraftAgrees
<1>4. (PublishedReachedBroker /\ NoRowStaysInFlight /\ AttemptsMeetTheirLimit)'
  BY DEF PublishedReachedBroker, NoRowStaysInFlight, AttemptsMeetTheirLimit
<1>5. CopiesAreExplained'
  <2> SUFFICES ASSUME NEW n \in Msgs
               PROVE  copies[n] <= attempts[n] + orphans'[n]
                        + (IF \/ status[n] = "PUBLISHED"
                              \/ \E q \in Relays : n \in shipped'[q] THEN 1 ELSE 0)
    BY DEF CopiesAreExplained
  <2>0. copies[n] \in Nat /\ attempts[n] \in Nat /\ orphans[n] \in Nat /\ orphans'[n] \in Nat
    BY <1>1 DEF TypeOK
  <2>1. CASE \E q \in R : n \in shipped[q]
    <3>1. orphans'[n] = orphans[n] + 1
      BY <2>1
    <3> QED
      BY <2>0, <3>1 DEF CopiesAreExplained
  <2>2. CASE ~ \E q \in R : n \in shipped[q]
    <3>1. orphans'[n] = orphans[n]
      BY <2>2 DEF TypeOK
    <3>2. \A q \in Relays : n \in shipped[q] <=> n \in shipped'[q]
      BY <2>2
    <3> QED
      BY <2>0, <3>1, <3>2 DEF CopiesAreExplained
  <2> QED
    BY <2>1, <2>2
<1> QED
  BY <1>1, <1>2, <1>3, <1>4, <1>5

LEMMA NextIInv == IInv /\ [Next]_vars => IInv'
<1> SUFFICES ASSUME IInv, [Next]_vars PROVE IInv'
  OBVIOUS
<1>1. /\ up \in BOOLEAN /\ cdc \in {"off", "listening", "waiting"}
      /\ notices \in Nat /\ crashes \in Nat /\ aborts \in Nat
  BY DEF IInv, TypeOK
<1>2. ASSUME NEW m \in Msgs, SaveOutboxMessage(m) PROVE IInv'
  BY <1>2, SaveStep
<1>3. ASSUME NEW r \in Relays, Relay(r) PROVE IInv'
  <2>1. CASE OnNotification(r)
    BY <1>1, <2>1, ClaimStep DEF OnNotification
  <2>2. CASE PollerTick(r)
    BY <1>1, <2>2, ClaimStep DEF PollerTick, process
  <2>3. CASE PublishEnds(r)
    BY <2>3, PublishEndsStep
  <2>4. CASE PublishBufferFull(r)
    BY <2>4, BufferFullStep
  <2>5. CASE CommitBatch(r)
    BY <2>5, CommitStep
  <2>6. CASE AbortBatch(r)
    BY <1>1, <2>6, RollBackStep DEF AbortBatch, process
  <2> QED
    BY <1>3, <2>1, <2>2, <2>3, <2>4, <2>5, <2>6 DEF Relay
<1>4. CASE ChannelCloses
  BY <1>4, ChannelClosesStep
<1>5. CASE CDCConnect
  BY <1>1, <1>5, FrameStep DEF CDCConnect, faults
<1>6. CASE CDCLost
  BY <1>1, <1>6, FrameStep DEF CDCLost, faults
<1>7. CASE Crash
  <2>1. RollBack(Relays) /\ crashes' = crashes + 1 /\ aborts' = aborts /\ notices' = 0
    BY <1>7 DEF Crash
  <2>2. up' \in BOOLEAN /\ cdc' \in {"off", "listening", "waiting"}
    BY <1>7 DEF Crash
  <2>3. notices' \in Nat /\ crashes' \in Nat /\ aborts' \in Nat
    BY <1>1, <2>1
  <2> QED
    BY <2>1, <2>2, <2>3, RollBackStep
<1>8. CASE Restart
  BY <1>1, <1>8, FrameStep DEF Restart, faults
<1>9. CASE UNCHANGED vars
  BY <1>1, <1>9, FrameStep DEF vars, process, faults
<1> QED
  BY <1>2, <1>3, <1>4, <1>5, <1>6, <1>7, <1>8, <1>9 DEF Next

\* The inductive invariant holds in every reachable state of the outbox.
THEOREM OutboxInvariant == Spec => []IInv
<1> QED
  BY InitIInv, NextIInv, PTL DEF Spec

\* Every variable keeps its type, for any number of rows and relays.
THEOREM OutboxTypeCorrect == Spec => []TypeOK
<1>1. IInv => TypeOK
  BY DEF IInv
<1> QED
  BY <1>1, OutboxInvariant, PTL

\* FOR UPDATE SKIP LOCKED keeps concurrent batches on disjoint PENDING rows.
THEOREM OutboxClaimsAreExclusive == Spec => []ClaimsAreExclusive
<1>1. IInv => ClaimsAreExclusive
  BY DEF IInv
<1> QED
  BY <1>1, OutboxInvariant, PTL

\* A PUBLISHED row means the broker has the message, or refused it unheard;
\* FAILED means every attempt was used; no row is ever left IN_FLIGHT.
THEOREM OutboxRowsTellTheTruth ==
  Spec => [](PublishedReachedBroker /\ NoRowStaysInFlight /\ AttemptsMeetTheirLimit)
<1>1. IInv => PublishedReachedBroker /\ NoRowStaysInFlight /\ AttemptsMeetTheirLimit
  BY DEF IInv
<1> QED
  BY <1>1, OutboxInvariant, PTL

\* A relay that crashes, loses its channel or aborts its batch leaves no row IN_FLIGHT:
\* the mark is made and taken back inside one transaction.
THEOREM OutboxLeavesNothingInFlight == Spec => []NoRowStaysInFlight
<1>1. PublishedReachedBroker /\ NoRowStaysInFlight /\ AttemptsMeetTheirLimit => NoRowStaysInFlight
  OBVIOUS
<1> QED
  BY <1>1, OutboxRowsTellTheTruth, PTL

\* Every duplicate is paid for by a counted attempt or a rolled-back batch.
THEOREM OutboxCopiesAreExplained == Spec => []CopiesAreExplained
<1>1. IInv => CopiesAreExplained
  BY DEF IInv
<1> QED
  BY <1>1, OutboxInvariant, PTL

-----------------------------------------------------------------------------
(* Settled rows and refinement.                                            *)

\* Rows a relay still has to publish are PENDING in the table.
LEMMA HeadIsPending ==
  ASSUME IInv, NEW r \in Relays, NEW m \in todo[r]
  PROVE  m \in Msgs /\ status[m] = "PENDING"
  BY DEF IInv, TypeOK, TxShape, ClaimsAreExclusive

LEMMA SettledStep ==
  ASSUME IInv, [Next]_vars, NEW m \in Msgs, status[m] \in Settled
  PROVE  status'[m] = status[m] /\ attempts'[m] = attempts[m] /\ copies'[m] = copies[m]
<1>1. status[m] # "PENDING" /\ status[m] # "NONE"
  BY DEF Settled
<1>2. ASSUME NEW n \in Msgs, SaveOutboxMessage(n)
      PROVE  UNCHANGED <<status[m], attempts[m], copies[m]>>
  BY <1>1, <1>2 DEF SaveOutboxMessage, broker, IInv, TypeOK
<1>3. ASSUME NEW r \in Relays, Relay(r)
      PROVE  UNCHANGED <<status[m], attempts[m], copies[m]>>
  <2>1. CASE PublishEnds(r)
    <3>1. PICK n \in Msgs : \/ PublishConfirmed(r, n)
                           \/ PublishRefused(r, n)
                           \/ PublishUnconfirmed(r, n)
                           \/ PublishRefusedUnheard(r, n)
      BY <2>1 DEF PublishEnds
    <3>2. n \in todo[r] /\ UNCHANGED rows
      BY <3>1 DEF PublishConfirmed, PublishRefused, PublishUnconfirmed, PublishRefusedUnheard, IsNext
    <3>3. n # m
      BY <1>1, <3>2, HeadIsPending
    <3>4. copies' = copies \/ copies' = [copies EXCEPT ![n] = @ + 1]
      BY <3>1 DEF PublishConfirmed, PublishRefused, PublishUnconfirmed, PublishRefusedUnheard,
                  Taken, broker
    <3> QED
      BY <3>2, <3>3, <3>4 DEF rows, IInv, TypeOK
  <2>2. CASE CommitBatch(r)
    <3>1. m \notin claimed[r]
      BY <1>1 DEF IInv, ClaimsAreExclusive
    <3> QED
      BY <2>2, <3>1 DEF CommitBatch, broker
  <2>3. CASE OnNotification(r) \/ PollerTick(r) \/ PublishBufferFull(r) \/ AbortBatch(r)
    BY <2>3 DEF OnNotification, PollerTick, PublishBufferFull, AbortBatch, RollBack, rows, broker
  <2> QED
    BY <1>3, <2>1, <2>2, <2>3 DEF Relay
<1>4. CASE ChannelCloses
  <2>1. PICK S \in SUBSET {n \in Msgs : \E r \in Relays : pc[r] = "draining" /\ IsNext(r, n)} :
          copies' = [n \in Msgs |-> IF n \in S THEN copies[n] + 1 ELSE copies[n]]
    BY <1>4 DEF ChannelCloses
  <2>2. m \notin S
    BY <1>1, HeadIsPending DEF IsNext
  <2> QED
    BY <1>4, <2>1, <2>2 DEF ChannelCloses, rows
<1>5. CASE Crash
  BY <1>5 DEF Crash, RollBack, rows
<1>6. CASE CDCConnect \/ CDCLost \/ Restart \/ UNCHANGED vars
  BY <1>6 DEF CDCConnect, CDCLost, Restart, vars, rows, broker
<1> QED
  BY <1>2, <1>3, <1>4, <1>5, <1>6 DEF Next

\* Nothing happens to a settled row, and no copy of it is sent, ever again.
THEOREM OutboxSettledIsForever == Spec => SettledIsForever
<1>1. IInv /\ [Next]_vars =>
        [\A m \in Msgs : status[m] \in Settled =>
           /\ status'[m] = status[m]
           /\ attempts'[m] = attempts[m]
           /\ copies'[m] = copies[m]]_vars
  BY SettledStep
<1> QED
  BY <1>1, OutboxInvariant, PTL DEF Spec, SettledIsForever

LEMMA InitRefines == Init => Abstract!Init
  BY DEF Init, Abstract!Init, PhaseOf

LEMMA StutterRefines ==
  ASSUME UNCHANGED <<status, copies, unheard>>
  PROVE  [Abstract!Next]_(Abstract!vars)
  BY DEF Abstract!vars

LEMMA SaveRefines ==
  ASSUME IInv, NEW m \in Msgs, SaveOutboxMessage(m)
  PROVE  Abstract!Next
<1>1. Abstract!Accept(m)
  BY DEF SaveOutboxMessage, Abstract!Accept, PhaseOf, IInv, TypeOK, broker
<1> QED
  BY <1>1 DEF Abstract!Next

\* Copies of rows that are PENDING in the table reach the broker.
LEMMA SendRefines ==
  ASSUME IInv, NEW S \in SUBSET Msgs,
         \A m \in S : status[m] = "PENDING",
         copies' = [m \in Msgs |-> IF m \in S THEN copies[m] + 1 ELSE copies[m]],
         UNCHANGED <<status, unheard>>
  PROVE  Abstract!Next
<1>1. Abstract!Send(S)
  BY DEF Abstract!Send, PhaseOf
<1> QED
  BY <1>1 DEF Abstract!Next

LEMMA PublishRefines ==
  ASSUME IInv, NEW r \in Relays, NEW m \in Msgs,
         \/ PublishConfirmed(r, m)
         \/ PublishRefused(r, m)
         \/ PublishUnconfirmed(r, m)
         \/ PublishRefusedUnheard(r, m)
  PROVE  [Abstract!Next]_(Abstract!vars)
<1>1. m \in todo[r]
  BY DEF PublishConfirmed, PublishRefused, PublishUnconfirmed, PublishRefusedUnheard, IsNext
<1>2. status[m] = "PENDING"
  BY <1>1, HeadIsPending
<1>3. CASE PublishConfirmed(r, m) \/ PublishUnconfirmed(r, m)
  <2>1. /\ copies' = [n \in Msgs |-> IF n \in {m} THEN copies[n] + 1 ELSE copies[n]]
        /\ UNCHANGED <<status, unheard>>
    BY <1>3 DEF PublishConfirmed, PublishUnconfirmed, Taken, rows, IInv, TypeOK
  <2>2. {m} \in SUBSET Msgs /\ \A n \in {m} : status[n] = "PENDING"
    BY <1>2
  <2>3. Abstract!Next
    BY <2>1, <2>2, SendRefines
  <2> QED
    BY <2>3
<1>4. CASE PublishRefused(r, m)
  BY <1>4, StutterRefines DEF PublishRefused, rows, broker
<1>5. CASE PublishRefusedUnheard(r, m)
  <2>1. Abstract!MissRefusal(m)
    BY <1>2, <1>5 DEF PublishRefusedUnheard, Abstract!MissRefusal, PhaseOf, rows
  <2> QED
    BY <2>1 DEF Abstract!Next
<1> QED
  BY <1>3, <1>4, <1>5

LEMMA CommitRefines ==
  ASSUME IInv, NEW r \in Relays, CommitBatch(r)
  PROVE  Abstract!Next
<1> DEFINE done == {m \in claimed[r] : draft[r][m] = "PUBLISHED"}
           dead == {m \in claimed[r] : draft[r][m] = "FAILED"}
<1>1. \A m \in claimed[r] : /\ m \in Msgs
                            /\ status[m] = "PENDING"
                            /\ draft[r][m] \in {"PENDING", "PUBLISHED", "FAILED"}
                            /\ m \in done => copies[m] > 0 \/ m \in unheard
  BY DEF IInv, TypeOK, ClaimsAreExclusive, DraftAgrees, Statuses, CommitBatch
<1>2. done \in SUBSET Msgs /\ dead \in SUBSET (Msgs \ done)
  BY <1>1
<1>3. \A m \in Msgs : PhaseOf(status'[m]) = IF m \in done THEN "published"
                                            ELSE IF m \in dead THEN "failed"
                                            ELSE PhaseOf(status[m])
  BY <1>1 DEF CommitBatch, PhaseOf
<1>4. Abstract!Settle(done, dead)
  BY <1>1, <1>3 DEF Abstract!Settle, PhaseOf, CommitBatch, broker
<1> QED
  BY <1>2, <1>4 DEF Abstract!Next

LEMMA StepRefines == IInv /\ [Next]_vars => [Abstract!Next]_(Abstract!vars)
<1> SUFFICES ASSUME IInv, [Next]_vars PROVE [Abstract!Next]_(Abstract!vars)
  OBVIOUS
<1>1. ASSUME NEW m \in Msgs, SaveOutboxMessage(m) PROVE Abstract!Next
  BY <1>1, SaveRefines
<1>2. ASSUME NEW r \in Relays, Relay(r) PROVE [Abstract!Next]_(Abstract!vars)
  <2>1. CASE PublishEnds(r)
    BY <2>1, PublishRefines DEF PublishEnds
  <2>2. CASE CommitBatch(r)
    BY <2>2, CommitRefines
  <2>3. CASE OnNotification(r) \/ PollerTick(r) \/ PublishBufferFull(r) \/ AbortBatch(r)
    BY <2>3, StutterRefines
    DEF OnNotification, PollerTick, PublishBufferFull, AbortBatch, RollBack, rows, broker
  <2> QED
    BY <1>2, <2>1, <2>2, <2>3 DEF Relay
<1>3. CASE ChannelCloses
  <2>1. PICK S \in SUBSET {n \in Msgs : \E r \in Relays : pc[r] = "draining" /\ IsNext(r, n)} :
          copies' = [n \in Msgs |-> IF n \in S THEN copies[n] + 1 ELSE copies[n]]
    BY <1>3 DEF ChannelCloses
  <2>2. S \in SUBSET Msgs /\ \A m \in S : status[m] = "PENDING"
    BY HeadIsPending DEF IsNext
  <2>3. UNCHANGED <<status, unheard>>
    BY <1>3 DEF ChannelCloses, rows
  <2>4. Abstract!Next
    BY <2>1, <2>2, <2>3, SendRefines
  <2> QED
    BY <2>4
<1>4. CASE CDCConnect \/ CDCLost \/ Crash \/ Restart \/ UNCHANGED vars
  BY <1>4, StutterRefines
  DEF CDCConnect, CDCLost, Crash, Restart, RollBack, vars, rows, broker
<1> QED
  BY <1>1, <1>2, <1>3, <1>4 DEF Next

\* The outbox, with its transactions, locks, notifications, timers and crashes,
\* implements the delivery it promises: every step settles, sends or stutters.
THEOREM OutboxImplementsDelivery == Spec => ImplementsDelivery
<1> QED
  BY InitRefines, StepRefines, OutboxInvariant, PTL DEF Spec, ImplementsDelivery, Abstract!Spec
=============================================================================
