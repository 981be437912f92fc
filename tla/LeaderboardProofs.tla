-------------------------- MODULE LeaderboardProofs --------------------------
(* Proofs about Leaderboard for any users, updates, slots and readers, and *)
(* for any number of retries and faults.                                   *)
EXTENDS Leaderboard, FiniteSetTheorems, TLAPS

\* A slot that is past its ZADD has applied its verdict; a key is written later.
AppliedBefore ==
  /\ \A s \in Slots : at[s] \in {"unlock", "mark"} => Verdict(s) \in applied
  /\ \A s \in Slots : at[s] = "ack" => Verdict(s) \in applied
  /\ processed \subseteq applied

Kept(v) ==
  \/ v \in applied \/ v \in dead
  \/ \E m \in Messages : m[1] = v /\ (queue[m] > 0 \/ Held(m) # {})

\* A reader that saw scores finds the read model once it need not wait, unless
\* that ran out under it.
ScoredSeeScores ==
  /\ scored # {} => Scores
  /\ \A r \in scored \ outlived : asking[r] \in {"projected", "list"} => warm
  /\ \A r \in scored \ outlived : asking[r] # "empty"

\* The readers that project, and the place the lock has for one more.
Room == IF coldLock THEN 0 ELSE 1
HerdHasRoom == Cardinality(Projecting) + Room <= 1 + expiries

\* The inductive invariant.
IInv ==
  /\ TypeOK
  /\ LaggingIsExplained
  /\ AppliedBefore
  /\ \A v \in Verdicts : Kept(v)
  /\ ScoredSeeScores
  /\ HerdHasRoom

USE LeaderboardAssumption

-----------------------------------------------------------------------------
(* The initial state.                                                      *)

\* The two parts of TypeOK that are Booleans, and the rest.
Flags == warm \in BOOLEAN /\ coldLock \in BOOLEAN
Typed ==
  /\ write \in [Users -> Updates \cup {Nothing}] /\ read \in [Users -> Updates \cup {Nothing}]
  /\ locks \in [Users -> Slots \cup {Nothing}]
  /\ processed \subseteq Verdicts /\ dead \subseteq Verdicts
  /\ queue \in [Messages -> Nat]
  /\ at \in [Slots -> SlotPlaces] /\ msg \in [Slots -> Messages \cup {Nothing}]
  /\ \A s \in Slots : at[s] # "idle" => msg[s] \in Messages
  /\ call \in [Calls -> CallPlaces] /\ asking \in [Readers -> ReaderPlaces]
  /\ applied \subseteq Updates /\ scored \subseteq Readers /\ outlived \subseteq Readers
  /\ expiries \in Nat
  /\ faults \in 0..MaxFaults

LEMMA TypeParts == TypeOK <=> Flags /\ Typed
BY Zenon DEF TypeOK, Flags, Typed

LEMMA InitHolds == Init => IInv
<1> SUFFICES ASSUME Init PROVE IInv
  OBVIOUS
<1> USE DEF Init
<1>1. TypeOK
  <2>1. Flags
    BY Zenon DEF Flags
  <2>2. Typed
    BY DEF Typed, Messages, SlotPlaces, CallPlaces, ReaderPlaces
  <2> QED
    BY <2>1, <2>2, TypeParts
<1>2. LaggingIsExplained /\ AppliedBefore /\ ScoredSeeScores
  BY DEF LaggingIsExplained, AppliedBefore, ScoredSeeScores, Verdict
<1>4. HerdHasRoom
  <2>1. Projecting = {}
    BY DEF Projecting
  <2> QED
    BY <2>1, FS_EmptySet DEF HerdHasRoom, Room
<1>3. \A v \in Verdicts : Kept(v)
  <2> TAKE v \in Verdicts
  <2>1. <<v, 0>> \in Messages /\ <<v, 0>>[1] = v /\ queue[<<v, 0>>] > 0
    BY DEF Messages
  <2> QED
    BY <2>1 DEF Kept
<1> QED
  BY <1>1, <1>2, <1>3, <1>4 DEF IInv

-----------------------------------------------------------------------------
(* Type correctness.                                                       *)

LEMMA TypedStep == Typed /\ [Next]_vars => Typed'
<1> SUFFICES ASSUME Typed, [Next]_vars PROVE Typed'
  OBVIOUS
<1> USE DEF Typed, SlotPlaces, CallPlaces, ReaderPlaces, Updates, Fault, NoFault,
            model, broker, slots, readers, histories, consumer
<1>1. ASSUME NEW c \in Calls, UpdateLeaderboard(c) \/ ProjectAfterUpdate(c) PROVE Typed'
  BY <1>1 DEF UpdateLeaderboard, ProjectAfterUpdate, Zadd, Project
<1>2. ASSUME NEW s \in Slots, NEW m \in Messages, Deliver(s, m) PROVE Typed'
  BY <1>2 DEF Deliver
<1>3. ASSUME NEW s \in Slots, Handle(s) PROVE Typed'
  <2>1. at[s] # "idle" => msg[s] \in Messages /\ Verdict(s) \in Verdicts /\ User(s) \in Users
    BY DEF Messages, Verdict, User
  <2>2. CASE IsIdempotent(s)
    BY <2>2 DEF IsIdempotent, Goto
  <2>3. CASE Acquire(s)
    BY <2>1, <2>3 DEF Acquire, Goto
  <2>4. CASE ApplyVerdict(s)
    BY <2>1, <2>4 DEF ApplyVerdict, Goto, Zadd
  <2>5. CASE Release(s)
    BY <2>1, <2>5 DEF Release, Goto
  <2>6. CASE MarkProcessed(s)
    BY <2>1, <2>6 DEF MarkProcessed, Goto
  <2>7. CASE Ack(s)
    BY <2>7 DEF Ack, Settle
  <2>8. CASE Retry(s)
    <3>1. msg[s][2] < MaxRetries => <<Verdict(s), msg[s][2] + 1>> \in Messages
      BY <2>1, <2>8 DEF Retry, Messages
    <3>2. queue' \in [Messages -> Nat]
      BY <3>1, <2>8 DEF Retry
    <3> QED
      BY <2>1, <2>8, <3>2 DEF Retry, Settle
  <2> QED
    BY <1>3, <2>2, <2>3, <2>4, <2>5, <2>6, <2>7, <2>8 DEF Handle
<1>4. ASSUME NEW r \in Readers, Read(r) PROVE Typed'
  BY <1>4 DEF Read, GetTop, TakeColdLock, ProjectCold, DropColdLock, List, Move, Project
<1>5. ASSUME Crash PROVE Typed'
  <2>1. \A m \in Messages : Cardinality(Held(m)) \in Nat
    <3> TAKE m \in Messages
    <3>1. Held(m) \subseteq Slots
      BY DEF Held
    <3> QED
      BY <3>1, FS_Subset, FS_CardinalityType
  <2>2. queue' \in [Messages -> Nat]
    BY <1>5, <2>1 DEF Crash
  <2> QED
    BY <1>5, <2>2 DEF Crash
<1>6. ASSUME Environment, ~Crash PROVE Typed'
  <2>1. CASE ModelExpires \/ ColdLockExpires
    BY <2>1 DEF ModelExpires, ColdLockExpires
  <2>2. ASSUME NEW u \in Users, LockExpires(u) PROVE Typed'
    BY <2>2 DEF LockExpires
  <2>3. ASSUME NEW v \in Verdicts, KeyExpires(v) PROVE Typed'
    BY <2>3 DEF KeyExpires
  <2>4. ASSUME NEW v \in Verdicts, PublishAgain(v) PROVE Typed'
    <3>1. <<v, 0>> \in Messages
      BY DEF Messages
    <3> QED
      BY <2>4, <3>1 DEF PublishAgain
  <2>5. ASSUME NEW m \in Messages, MessageExpires(m) PROVE Typed'
    BY <2>5 DEF MessageExpires, Messages
  <2> QED
    BY <1>6, <2>1, <2>2, <2>3, <2>4, <2>5 DEF Environment
<1>7. ASSUME UNCHANGED vars PROVE Typed'
  BY <1>7 DEF vars
<1> QED
  BY <1>1, <1>2, <1>3, <1>4, <1>5, <1>6, <1>7 DEF Next, Receive

\* Every action sets a flag to TRUE or FALSE or leaves it.
LEMMA FlagsStep == Flags /\ [Next]_vars => Flags'
<1> SUFFICES ASSUME Flags, [Next]_vars PROVE Flags'
  OBVIOUS
<1> USE DEF Flags, model, readers, histories, consumer
<1>1. ASSUME NEW c \in Calls, UpdateLeaderboard(c) \/ ProjectAfterUpdate(c) PROVE Flags'
  BY <1>1, Zenon DEF UpdateLeaderboard, ProjectAfterUpdate, Zadd, Project
<1>2. ASSUME NEW s \in Slots, Receive(s) \/ Handle(s) PROVE Flags'
  BY <1>2, Zenon DEF Receive, Deliver, Handle, IsIdempotent, Acquire, ApplyVerdict, Zadd,
     Release, MarkProcessed, Ack, Retry
<1>3. ASSUME NEW r \in Readers, Read(r) PROVE Flags'
  BY <1>3, Zenon DEF Read, GetTop, TakeColdLock, ProjectCold, DropColdLock, List, Project
<1>4. ASSUME Environment PROVE Flags'
  BY <1>4, Zenon DEF Environment, ModelExpires, ColdLockExpires, Crash, LockExpires,
     KeyExpires, PublishAgain, MessageExpires
<1>5. ASSUME UNCHANGED vars PROVE Flags'
  BY <1>5, Zenon DEF vars
<1> QED
  BY <1>1, <1>2, <1>3, <1>4, <1>5, Zenon DEF Next

LEMMA TypeStep == TypeOK /\ [Next]_vars => TypeOK'
BY TypeParts, TypedStep, FlagsStep, Zenon DEF TypeOK, Flags, Typed

-----------------------------------------------------------------------------
(* The models.                                                             *)

\* A projection brings the read model up to the write model.
LEMMA ProjectStep ==
  ASSUME TypeOK, LaggingIsExplained, Project
  PROVE  \A u \in Users : warm' => read'[u] = write'[u]
<1>1. CASE Scores
  BY <1>1 DEF Project
<1>2. CASE ~Scores
  <2>1. UNCHANGED <<write, warm, read>> /\ \A u \in Users : write[u] = Nothing
    BY <1>2 DEF Project, Scores
  <2> QED
    BY <2>1 DEF LaggingIsExplained, Updates
<1> QED
  BY <1>1, <1>2

LEMMA LaggingStep == TypeOK /\ LaggingIsExplained /\ [Next]_vars => LaggingIsExplained'
<1> SUFFICES ASSUME TypeOK, LaggingIsExplained, [Next]_vars PROVE LaggingIsExplained'
  OBVIOUS
<1> USE DEF LaggingIsExplained, model, readers, histories, consumer
<1>1. ASSUME UNCHANGED <<write, warm, read, call>> PROVE LaggingIsExplained'
  BY <1>1
<1>2. ASSUME NEW c \in Calls, UpdateLeaderboard(c) PROVE LaggingIsExplained'
  <2>1. CASE UNCHANGED model
    BY <1>2, <2>1 DEF UpdateLeaderboard, TypeOK
  <2>2. CASE Zadd(c) /\ call'[c] \in {"written", "unshown"}
    <3>1. \A d \in Calls \ {c} : call'[d] = call[d]
      BY <1>2 DEF UpdateLeaderboard, TypeOK
    <3>2. \A u \in Users : write'[u] = IF u = UserOf[c] THEN c ELSE write[u]
      BY <2>2 DEF Zadd, TypeOK
    <3>3. UNCHANGED <<warm, read>>
      BY <2>2 DEF Zadd
    <3> QED
      BY <2>2, <3>1, <3>2, <3>3
  <2> QED
    BY <1>2, <2>1, <2>2 DEF UpdateLeaderboard, TypeOK
<1>3. ASSUME NEW c \in Calls, ProjectAfterUpdate(c) PROVE LaggingIsExplained'
  <2>1. CASE Project
    BY <2>1, ProjectStep
  <2>2. CASE UNCHANGED model /\ call' = [call EXCEPT ![c] = "unshown"]
    BY <2>2 DEF TypeOK
  <2> QED
    BY <1>3, <2>1, <2>2 DEF ProjectAfterUpdate
<1>4. ASSUME NEW s \in Slots, Handle(s) PROVE LaggingIsExplained'
  <2>1. CASE ApplyVerdict(s) /\ Zadd(Verdict(s))
    <3>1. Verdict(s) \in Verdicts
      BY <2>1 DEF ApplyVerdict, TypeOK, Messages, Verdict
    <3>2. \A u \in Users : write'[u] = IF u = UserOf[Verdict(s)] THEN Verdict(s) ELSE write[u]
      BY <2>1 DEF Zadd, TypeOK
    <3>3. UNCHANGED <<warm, read, call>>
      BY <2>1 DEF ApplyVerdict, Zadd
    <3> QED
      BY <3>1, <3>2, <3>3
  <2>2. CASE ~(ApplyVerdict(s) /\ Zadd(Verdict(s)))
    BY <1>1, <1>4, <2>2 DEF Handle, IsIdempotent, Acquire, ApplyVerdict, Release,
       MarkProcessed, Ack, Retry
  <2> QED
    BY <2>1, <2>2
<1>5. ASSUME NEW r \in Readers, Read(r) PROVE LaggingIsExplained'
  <2>1. CASE ProjectCold(r) /\ Project
    BY <2>1, ProjectStep
  <2>2. CASE ~(ProjectCold(r) /\ Project)
    BY <1>1, <1>5, <2>2 DEF Read, GetTop, TakeColdLock, ProjectCold, DropColdLock, List
  <2> QED
    BY <2>1, <2>2
<1>6. ASSUME Environment PROVE LaggingIsExplained'
  <2>1. CASE ModelExpires
    BY <2>1 DEF ModelExpires
  <2>2. CASE Crash
    BY <2>2 DEF Crash, TypeOK
  <2>3. CASE ~ModelExpires /\ ~Crash
    BY <1>1, <1>6, <2>3 DEF Environment, ColdLockExpires, LockExpires, KeyExpires,
       PublishAgain, MessageExpires
  <2> QED
    BY <2>1, <2>2, <2>3
<1>7. ASSUME NEW s \in Slots, Receive(s) PROVE LaggingIsExplained'
  BY <1>1, <1>7 DEF Receive, Deliver
<1>8. ASSUME UNCHANGED vars PROVE LaggingIsExplained'
  BY <1>1, <1>8 DEF vars
<1> QED
  BY <1>2, <1>3, <1>4, <1>5, <1>6, <1>7, <1>8 DEF Next

-----------------------------------------------------------------------------
(* The verdict consumer.                                                   *)

\* A slot that holds a message holds a verdict; nothing else is applied by it.
LEMMA SlotFacts ==
  ASSUME TypeOK, NEW s \in Slots, at[s] # "idle"
  PROVE  /\ msg[s] \in Messages /\ Verdict(s) \in Verdicts
         /\ msg[s][2] \in 0..MaxRetries /\ msg[s] = <<Verdict(s), msg[s][2]>>
BY DEF TypeOK, Messages, Verdict

LEMMA AppliedStep == TypeOK /\ AppliedBefore /\ [Next]_vars => AppliedBefore'
<1> SUFFICES ASSUME TypeOK, AppliedBefore, [Next]_vars PROVE AppliedBefore'
  OBVIOUS
<1> USE DEF AppliedBefore, Verdict, consumer, slots, broker
<1>1. ASSUME UNCHANGED <<at, msg>>, processed' \subseteq processed, applied \subseteq applied'
      PROVE  AppliedBefore'
  BY <1>1
<1>2. ASSUME NEW c \in Calls, UpdateLeaderboard(c) \/ ProjectAfterUpdate(c) PROVE AppliedBefore'
  BY <1>1, <1>2 DEF UpdateLeaderboard, ProjectAfterUpdate, Zadd
<1>3. ASSUME NEW s \in Slots, NEW m \in Messages, Deliver(s, m) PROVE AppliedBefore'
  BY <1>3 DEF Deliver, TypeOK
<1>4. ASSUME NEW s \in Slots, Handle(s) PROVE AppliedBefore'
  <2> USE DEF TypeOK
  <2>1. CASE IsIdempotent(s)
    BY <2>1 DEF IsIdempotent, Goto
  <2>2. CASE Acquire(s)
    BY <2>2 DEF Acquire, Goto
  <2>3. CASE ApplyVerdict(s)
    BY <2>3 DEF ApplyVerdict, Goto, Zadd
  <2>4. CASE Release(s)
    BY <2>4 DEF Release, Goto
  <2>5. CASE MarkProcessed(s)
    BY <2>5 DEF MarkProcessed, Goto
  <2>6. CASE Ack(s) \/ Retry(s)
    BY <2>6 DEF Ack, Retry, Settle
  <2> QED
    BY <1>4, <2>1, <2>2, <2>3, <2>4, <2>5, <2>6 DEF Handle
<1>5. ASSUME NEW r \in Readers, Read(r) PROVE AppliedBefore'
  BY <1>1, <1>5 DEF Read, GetTop, TakeColdLock, ProjectCold, DropColdLock, List
<1>6. ASSUME Environment PROVE AppliedBefore'
  <2>1. CASE Crash
    BY <2>1 DEF Crash
  <2>2. CASE ~Crash
    BY <1>1, <1>6, <2>2 DEF Environment, ModelExpires, ColdLockExpires, LockExpires,
       KeyExpires, PublishAgain, MessageExpires
  <2> QED
    BY <2>1, <2>2
<1>7. ASSUME UNCHANGED vars PROVE AppliedBefore'
  BY <1>1, <1>7 DEF vars
<1> QED
  BY <1>2, <1>3, <1>4, <1>5, <1>6, <1>7 DEF Next, Receive

\* A step that takes no copy and no slot away from a verdict keeps it.
LEMMA StillKept ==
  ASSUME NEW v \in Verdicts, Kept(v), v \in applied => v \in applied', v \in dead => v \in dead',
         \A m \in Messages : m[1] = v /\ queue[m] > 0 => Kept(v)',
         \A s \in Slots : at[s] # "idle" /\ msg[s] \in Messages /\ Verdict(s) = v => Kept(v)'
  PROVE  Kept(v)'
<1>1. CASE v \in applied \/ v \in dead
  BY <1>1 DEF Kept
<1>2. CASE \E m \in Messages : m[1] = v /\ (queue[m] > 0 \/ Held(m) # {})
  BY <1>2 DEF Held, Verdict
<1> QED
  BY <1>1, <1>2 DEF Kept

\* What keeps a verdict: a copy in the queue, or a busy slot.
LEMMA QueuedIsKept ==
  ASSUME NEW v \in Verdicts, NEW m \in Messages, m[1] = v, queue'[m] > 0
  PROVE  Kept(v)'
BY DEF Kept

LEMMA HeldIsKept ==
  ASSUME NEW v \in Verdicts, NEW s \in Slots, at'[s] # "idle", msg'[s] \in Messages, msg'[s][1] = v
  PROVE  Kept(v)'
BY DEF Kept, Held

LEMMA KeptStep ==
  TypeOK /\ AppliedBefore /\ (\A v \in Verdicts : Kept(v)) /\ [Next]_vars
    => \A v \in Verdicts : Kept(v)'
<1> SUFFICES ASSUME TypeOK, AppliedBefore, NEW v \in Verdicts, Kept(v), [Next]_vars
             PROVE  Kept(v)'
  OBVIOUS
<1> USE DEF consumer, slots, broker
\* No slot moves away from its message and no copy is lost.
<1>1. ASSUME \A m \in Messages : queue[m] > 0 => queue'[m] > 0, applied \subseteq applied', dead \subseteq dead',
             \A s \in Slots : at[s] # "idle" => at'[s] # "idle" /\ msg'[s] = msg[s]
      PROVE  Kept(v)'
  <2>1. \A m \in Messages : m[1] = v /\ queue[m] > 0 => Kept(v)'
    BY <1>1, QueuedIsKept
  <2>2. \A s \in Slots : at[s] # "idle" /\ msg[s] \in Messages /\ Verdict(s) = v => Kept(v)'
    BY <1>1, HeldIsKept DEF Verdict
  <2> QED
    BY <1>1, <2>1, <2>2, StillKept
<1>2. ASSUME NEW c \in Calls, UpdateLeaderboard(c) \/ ProjectAfterUpdate(c) PROVE Kept(v)'
  BY <1>1, <1>2 DEF UpdateLeaderboard, ProjectAfterUpdate, Zadd, TypeOK
<1>3. ASSUME NEW s \in Slots, NEW m \in Messages, Deliver(s, m) PROVE Kept(v)'
  <2>1. at'[s] = "check" /\ msg'[s] = m
    BY <1>3 DEF Deliver, TypeOK
  <2>2. m[1] = v => Kept(v)'
    BY <2>1, HeldIsKept
  <2>3. \A n \in Messages : n[1] = v /\ queue[n] > 0 => Kept(v)'
    BY <1>3, <2>2, QueuedIsKept DEF Deliver, TypeOK
  <2>4. \A t \in Slots : at[t] # "idle" /\ msg[t] \in Messages /\ Verdict(t) = v => Kept(v)'
    BY <1>3, HeldIsKept DEF Deliver, TypeOK, Verdict
  <2>5. UNCHANGED <<applied, dead>>
    BY <1>3 DEF Deliver
  <2> QED
    BY <2>3, <2>4, <2>5, StillKept
<1>4. ASSUME NEW s \in Slots, Handle(s), ~Ack(s), ~Retry(s) PROVE Kept(v)'
  <2> USE DEF TypeOK
  <2>1. UNCHANGED <<queue, dead>> /\ applied \subseteq applied'
    BY <1>4 DEF Handle, IsIdempotent, Acquire, ApplyVerdict, Release, MarkProcessed, Zadd
  <2>2. \A t \in Slots : at[t] # "idle" => at'[t] # "idle" /\ msg'[t] = msg[t]
    BY <1>4 DEF Handle, IsIdempotent, Acquire, ApplyVerdict, Release, MarkProcessed, Goto
  <2> QED
    BY <1>1, <2>1, <2>2
<1>5. ASSUME NEW s \in Slots, Ack(s) \/ Retry(s) PROVE Kept(v)'
  <2>1. /\ at[s] # "idle" /\ msg[s] \in Messages /\ Verdict(s) \in Verdicts
        /\ msg[s][2] \in 0..MaxRetries
    BY <1>5, SlotFacts DEF Ack, Retry
  <2>2. applied' = applied /\ dead \subseteq dead'
    BY <1>5 DEF Ack, Retry
  <2>3. \A m \in Messages : queue[m] > 0 => queue'[m] > 0
    BY <1>5, <2>1 DEF Ack, Retry, TypeOK
  <2>4. Verdict(s) = v => Kept(v)'
    <3>1. CASE Ack(s)
      BY <3>1, <2>2 DEF Ack, AppliedBefore, Kept
    <3>2. CASE Retry(s) /\ msg[s][2] < MaxRetries
      <4>1. <<Verdict(s), msg[s][2] + 1>> \in Messages
        BY <2>1, <3>2 DEF Messages
      <4>2. queue'[<<Verdict(s), msg[s][2] + 1>>] > 0
        BY <3>2, <4>1 DEF Retry, TypeOK
      <4> QED
        BY <4>1, <4>2, QueuedIsKept
    <3>3. CASE Retry(s) /\ ~(msg[s][2] < MaxRetries)
      BY <3>3 DEF Retry, Kept
    <3> QED
      BY <1>5, <3>1, <3>2, <3>3
  <2>5. \A t \in Slots \ {s} : at'[t] = at[t] /\ msg'[t] = msg[t]
    BY <1>5 DEF Ack, Retry, Settle, TypeOK
  <2>6. \A t \in Slots : at[t] # "idle" /\ msg[t] \in Messages /\ Verdict(t) = v => Kept(v)'
    BY <2>4, <2>5, HeldIsKept DEF Verdict
  <2>7. \A m \in Messages : m[1] = v /\ queue[m] > 0 => Kept(v)'
    BY <2>3, QueuedIsKept
  <2> QED
    BY <2>2, <2>6, <2>7, StillKept
<1>6. ASSUME NEW r \in Readers, Read(r) PROVE Kept(v)'
  BY <1>1, <1>6 DEF Read, GetTop, TakeColdLock, ProjectCold, DropColdLock, List, TypeOK
<1>7. ASSUME Crash PROVE Kept(v)'
  <2>1. ASSUME NEW m \in Messages PROVE queue[m] > 0 \/ Held(m) # {} => queue'[m] > 0
    <3>1. IsFiniteSet(Held(m)) /\ Cardinality(Held(m)) \in Nat
      <4>1. Held(m) \subseteq Slots
        BY DEF Held
      <4> QED
        BY <4>1, FS_Subset, FS_CardinalityType
    <3>2. Held(m) # {} => Cardinality(Held(m)) # 0
      BY <3>1, FS_EmptySet
    <3>3. queue'[m] = queue[m] + Cardinality(Held(m))
      BY <1>7 DEF Crash
    <3> QED
      BY <3>1, <3>2, <3>3 DEF TypeOK
  <2>2. \A m \in Messages : m[1] = v /\ queue[m] > 0 => Kept(v)'
    BY <2>1, QueuedIsKept
  <2>3. \A s \in Slots : at[s] # "idle" /\ msg[s] \in Messages /\ Verdict(s) = v => Kept(v)'
    BY <2>1, QueuedIsKept DEF Held, Verdict
  <2>4. UNCHANGED <<applied, dead>>
    BY <1>7 DEF Crash
  <2> QED
    BY <2>2, <2>3, <2>4, StillKept
<1>8. ASSUME NEW m \in Messages, MessageExpires(m) PROVE Kept(v)'
  <2>1. m[1] = v => Kept(v)'
    BY <1>8 DEF MessageExpires, Kept
  <2>2. \A n \in Messages : n[1] = v /\ queue[n] > 0 => Kept(v)'
    BY <1>8, <2>1, QueuedIsKept DEF MessageExpires, TypeOK
  <2>3. \A s \in Slots : at[s] # "idle" /\ msg[s] \in Messages /\ Verdict(s) = v => Kept(v)'
    BY <1>8, HeldIsKept DEF MessageExpires, Verdict
  <2>4. applied' = applied /\ dead \subseteq dead'
    BY <1>8 DEF MessageExpires
  <2> QED
    BY <2>2, <2>3, <2>4, StillKept
<1>9. ASSUME Environment, ~Crash, \A m \in Messages : ~MessageExpires(m) PROVE Kept(v)'
  <2>1. UNCHANGED <<slots, applied, dead>>
    BY <1>9 DEF Environment, ModelExpires, ColdLockExpires, LockExpires, KeyExpires, PublishAgain
  <2>2. \A m \in Messages : queue[m] > 0 => queue'[m] > 0
    <3>1. CASE UNCHANGED queue
      BY <3>1
    <3>2. ASSUME NEW w \in Verdicts, PublishAgain(w)
          PROVE  \A m \in Messages : queue[m] > 0 => queue'[m] > 0
      BY <3>2 DEF PublishAgain, TypeOK
    <3> QED
      BY <1>9, <3>1, <3>2 DEF Environment, ModelExpires, ColdLockExpires, LockExpires, KeyExpires
  <2> QED
    BY <1>1, <2>1, <2>2
<1>10. ASSUME UNCHANGED vars PROVE Kept(v)'
  BY <1>1, <1>10 DEF vars, TypeOK
<1> QED
  BY <1>2, <1>3, <1>4, <1>5, <1>6, <1>7, <1>8, <1>9, <1>10 DEF Next, Receive, Environment

-----------------------------------------------------------------------------
(* The readers.                                                            *)

\* Once there are scores, there always are, and a projection leaves it warm.
LEMMA ScoresStep ==
  ASSUME TypeOK, Scores, NEW x \in Updates, Zadd(x)
  PROVE  Scores'
<1>1. PICK u \in Users : write[u] # Nothing
  BY DEF Scores
<1>2. write'[u] # Nothing
  BY <1>1 DEF Zadd, TypeOK
<1> QED
  BY <1>1, <1>2 DEF Scores

LEMMA ScoredStep == TypeOK /\ ScoredSeeScores /\ [Next]_vars => ScoredSeeScores'
<1> SUFFICES ASSUME TypeOK, ScoredSeeScores, [Next]_vars PROVE ScoredSeeScores'
  OBVIOUS
<1> USE DEF ScoredSeeScores, model, readers, histories, consumer
<1>1. ASSUME UNCHANGED <<warm, asking, scored, outlived>>, Scores => Scores' PROVE ScoredSeeScores'
  BY <1>1
<1>2. UNCHANGED write => (Scores <=> Scores')
  BY DEF Scores
<1>3. ASSUME NEW c \in Calls, UpdateLeaderboard(c) PROVE ScoredSeeScores'
  <2>1. UNCHANGED <<warm, asking, scored, outlived>>
    BY <1>3 DEF UpdateLeaderboard, Zadd
  <2>2. Scores => Scores'
    BY <1>2, <1>3, ScoresStep DEF UpdateLeaderboard, Updates
  <2> QED
    BY <1>1, <2>1, <2>2
<1>4. ASSUME NEW c \in Calls, ProjectAfterUpdate(c) PROVE ScoredSeeScores'
  <2>1. UNCHANGED <<write, asking, scored, outlived>> /\ (warm => warm')
    BY <1>4 DEF ProjectAfterUpdate, Project
  <2> QED
    BY <1>2, <2>1
<1>5. ASSUME NEW s \in Slots, Handle(s) PROVE ScoredSeeScores'
  <2>1. UNCHANGED <<warm, asking, scored, outlived>>
    BY <1>5 DEF Handle, IsIdempotent, Acquire, ApplyVerdict, Zadd, Release, MarkProcessed, Ack, Retry
  <2>2. CASE ApplyVerdict(s) /\ Zadd(Verdict(s))
    <3>1. Verdict(s) \in Updates
      BY <2>2, SlotFacts DEF ApplyVerdict, Updates
    <3> QED
      BY <1>1, <2>1, <2>2, <3>1, ScoresStep
  <2>3. CASE ~(ApplyVerdict(s) /\ Zadd(Verdict(s)))
    <3>1. UNCHANGED write
      BY <1>5, <2>3 DEF Handle, IsIdempotent, Acquire, ApplyVerdict, Release, MarkProcessed, Ack, Retry
    <3> QED
      BY <1>1, <1>2, <2>1, <3>1
  <2> QED
    BY <2>2, <2>3
<1>6. ASSUME NEW r \in Readers, Read(r) PROVE ScoredSeeScores'
  <2> USE DEF TypeOK, Move
  <2>1. CASE GetTop(r)
    BY <1>2, <2>1 DEF GetTop
  <2>2. CASE TakeColdLock(r)
    BY <1>2, <2>2 DEF TakeColdLock
  <2>3. CASE ProjectCold(r)
    <3>1. UNCHANGED <<write, scored, outlived>> /\ (warm => warm')
      BY <2>3 DEF ProjectCold, Project
    <3>2. r \in scored /\ asking'[r] = "projected" => warm'
      BY <2>3 DEF ProjectCold, Project
    <3>3. \A q \in Readers \ {r} : asking'[q] = asking[q]
      BY <2>3 DEF ProjectCold
    <3>4. asking'[r] \in {"projected", "failing"}
      BY <2>3 DEF ProjectCold
    <3> QED
      BY <1>2, <3>1, <3>2, <3>3, <3>4
  <2>4. CASE DropColdLock(r)
    BY <1>2, <2>4 DEF DropColdLock
  <2>5. CASE List(r)
    BY <1>2, <2>5 DEF List
  <2> QED
    BY <1>6, <2>1, <2>2, <2>3, <2>4, <2>5 DEF Read
<1>7. ASSUME Environment PROVE ScoredSeeScores'
  <2>1. CASE ModelExpires
    BY <1>2, <2>1 DEF ModelExpires, TypeOK
  <2>2. CASE Crash
    <3>1. UNCHANGED <<write, warm, scored, outlived>>
      BY <2>2 DEF Crash
    <3>2. \A r \in Readers : asking'[r] \in {asking[r], "failed"} \ {"projected", "list"}
      BY <2>2 DEF Crash
    <3> QED
      BY <1>2, <3>1, <3>2 DEF TypeOK
  <2>3. CASE ~ModelExpires /\ ~Crash
    <3>1. UNCHANGED <<write, warm, asking, scored, outlived>>
      BY <1>7, <2>3 DEF Environment, ColdLockExpires, LockExpires, KeyExpires, PublishAgain, MessageExpires
    <3> QED
      BY <1>1, <1>2, <3>1
  <2> QED
    BY <2>1, <2>2, <2>3
<1>8. ASSUME NEW s \in Slots, Receive(s) PROVE ScoredSeeScores'
  BY <1>1, <1>2, <1>8 DEF Receive, Deliver
<1>9. ASSUME UNCHANGED vars PROVE ScoredSeeScores'
  BY <1>1, <1>2, <1>9 DEF vars
<1> QED
  BY <1>3, <1>4, <1>5, <1>6, <1>7, <1>8, <1>9 DEF Next

\* What a step does to the readers that project.
LEMMA ProjectingIsFinite == IsFiniteSet(Projecting) /\ Cardinality(Projecting) \in Nat
<1>1. Projecting \subseteq Readers
  BY DEF Projecting
<1> QED
  BY <1>1, FS_Subset, FS_CardinalityType

LEMMA HerdStep == TypeOK /\ HerdHasRoom /\ [Next]_vars => HerdHasRoom'
<1> SUFFICES ASSUME TypeOK, HerdHasRoom, [Next]_vars PROVE HerdHasRoom'
  OBVIOUS
<1> DEFINE In(r) == asking[r] \in {"project", "projected", "failing"}
<1>a. /\ expiries \in Nat /\ coldLock \in BOOLEAN /\ asking \in [Readers -> ReaderPlaces]
      /\ Cardinality(Projecting) \in Nat /\ IsFiniteSet(Projecting)
  BY ProjectingIsFinite, Zenon DEF TypeOK
<1>b. Cardinality(Projecting) + Room <= 1 + expiries
  BY DEF HerdHasRoom
<1> USE DEF model, readers, histories, consumer
<1>1. ASSUME UNCHANGED <<coldLock, expiries>>, Projecting' = Projecting PROVE HerdHasRoom'
  BY <1>1, <1>b DEF HerdHasRoom, Room
<1>2. ASSUME UNCHANGED asking PROVE Projecting' = Projecting
  BY <1>2 DEF Projecting
<1>3. ASSUME NEW r \in Readers, TakeColdLock(r) PROVE HerdHasRoom'
  <2>1. coldLock' /\ expiries' = expiries /\ asking[r] = "cold"
    BY <1>3 DEF TakeColdLock
  <2>2. CASE coldLock
    <3>1. Projecting' = Projecting
      BY <1>3, <1>a, <2>1, <2>2 DEF TakeColdLock, Move, Projecting
    <3> QED
      BY <2>1, <2>2, <3>1, <1>b DEF HerdHasRoom, Room
  <2>3. CASE ~coldLock
    <3>1. Projecting' = Projecting \cup {r} /\ r \notin Projecting
      BY <1>3, <1>a, <2>1, <2>3 DEF TakeColdLock, Move, Projecting
    <3>2. Cardinality(Projecting') = Cardinality(Projecting) + 1
      BY <3>1, <1>a, FS_AddElement
    <3> QED
      BY <2>1, <2>3, <3>2, <1>a, <1>b DEF HerdHasRoom, Room
  <2> QED
    BY <2>2, <2>3
<1>4. ASSUME NEW r \in Readers, DropColdLock(r) PROVE HerdHasRoom'
  <2>1. ~coldLock' /\ expiries' = expiries
    BY <1>4 DEF DropColdLock
  <2>2. Projecting' = Projecting \ {r} /\ r \in Projecting
    BY <1>4, <1>a DEF DropColdLock, Move, Projecting
  <2>3. Cardinality(Projecting') = Cardinality(Projecting) - 1
    BY <2>2, <1>a, FS_RemoveElement
  <2> QED
    BY <2>1, <2>3, <1>a, <1>b DEF HerdHasRoom, Room
<1>5. ASSUME NEW r \in Readers, GetTop(r) \/ ProjectCold(r) \/ List(r) PROVE HerdHasRoom'
  <2>1. UNCHANGED <<coldLock, expiries>>
    BY <1>5 DEF GetTop, ProjectCold, List
  <2>2. \/ asking[r] \in {"new", "list", "wait"} /\ asking'[r] \in {"list", "cold", "full", "empty", "emptyAfterWait"}
        \/ asking[r] = "project" /\ asking'[r] \in {"projected", "failing"}
    <3>1. CASE GetTop(r)
      BY <3>1, <1>a DEF GetTop, Move
    <3>2. CASE ProjectCold(r)
      BY <3>2, <1>a DEF ProjectCold, Move
    <3>3. CASE List(r)
      BY <3>3, <1>a DEF List, Move
    <3> QED
      BY <1>5, <3>1, <3>2, <3>3
  <2>3. \A q \in Readers \ {r} : asking'[q] = asking[q]
    BY <1>5, <1>a DEF GetTop, ProjectCold, List, Move
  <2>4. Projecting' = Projecting
    BY <2>2, <2>3 DEF Projecting
  <2> QED
    BY <1>1, <2>1, <2>4
<1>6. ASSUME ColdLockExpires PROVE HerdHasRoom'
  <2>1. Projecting' = Projecting /\ coldLock /\ expiries' = expiries + 1
    BY <1>2, <1>6 DEF ColdLockExpires
  <2> QED
    BY <2>1, <1>a, <1>b DEF HerdHasRoom, Room
<1>7. ASSUME Crash PROVE HerdHasRoom'
  <2>1. Projecting' = {} /\ UNCHANGED <<coldLock, expiries>>
    BY <1>7 DEF Crash, Projecting
  <2> QED
    BY <2>1, <1>a, <1>b, FS_EmptySet DEF HerdHasRoom, Room
<1>8. ASSUME Environment, ~ColdLockExpires, ~Crash PROVE HerdHasRoom'
  BY <1>1, <1>2, <1>8 DEF Environment, ModelExpires, LockExpires, KeyExpires, PublishAgain, MessageExpires
<1>9. ASSUME NEW c \in Calls, UpdateLeaderboard(c) \/ ProjectAfterUpdate(c) PROVE HerdHasRoom'
  BY <1>1, <1>2, <1>9 DEF UpdateLeaderboard, ProjectAfterUpdate
<1>10. ASSUME NEW s \in Slots, Receive(s) \/ Handle(s) PROVE HerdHasRoom'
  BY <1>1, <1>2, <1>10 DEF Receive, Deliver, Handle, IsIdempotent, Acquire, ApplyVerdict, Release,
     MarkProcessed, Ack, Retry
<1>11. ASSUME UNCHANGED vars PROVE HerdHasRoom'
  BY <1>1, <1>2, <1>11 DEF vars
<1> QED
  BY <1>3, <1>4, <1>5, <1>6, <1>7, <1>8, <1>9, <1>10, <1>11 DEF Next, Read

-----------------------------------------------------------------------------
(* The theorems.                                                           *)

\* The invariant holds in every state of the leaderboard service: what a slot
\* has applied before it marks, acks or answers, and what a reader has seen.
THEOREM LeaderboardInvariant == Spec => []IInv
<1>1. Init => IInv
  BY InitHolds
<1>2. IInv /\ [Next]_vars => IInv'
  BY TypeStep, LaggingStep, AppliedStep, KeptStep, ScoredStep, HerdStep DEF IInv
<1> QED
  BY <1>1, <1>2, PTL DEF Spec

\* Type correctness of the leaderboard service.
THEOREM LeaderboardTypeCorrect == Spec => []TypeOK
<1>1. IInv => TypeOK
  BY DEF IInv
<1> QED
  BY <1>1, LeaderboardInvariant, PTL

\* The read model is behind the sorted set only by a verdict of the queue, or by
\* a call whose projection is running or lost (grpc.server.ts:77-88).
THEOREM LeaderboardLagIsExplained == Spec => []LaggingIsExplained
<1>1. IInv => LaggingIsExplained
  BY DEF IInv
<1> QED
  BY <1>1, LeaderboardInvariant, PTL

\* No failure, crash or expiry loses a verdict, and only applied ones count as
\* processed (consumer.queue.ts:11-52).
THEOREM LeaderboardKeepsVerdicts == Spec => []VerdictsAreKept
<1>1. IInv => VerdictsAreKept
  BY DEF IInv, VerdictsAreKept, Kept, AppliedBefore
<1> QED
  BY <1>1, LeaderboardInvariant, PTL

\* A reader that need not wait never answers an empty list to a contest with
\* scores, unless the read model ran out under it; and each time the cold lock
\* runs out, one reader more may project (leaderboard.readmodel.service.ts:125-142).
THEOREM LeaderboardTopIsServed == Spec => []TopIsServed
<1>1. IInv => EmptyTopIsExplained
  BY DEF IInv, EmptyTopIsExplained, ScoredSeeScores
<1>2. IInv => HerdIsBounded
  <2> SUFFICES ASSUME IInv PROVE HerdIsBounded
    OBVIOUS
  <2>1. expiries \in Nat /\ Cardinality(Projecting) \in Nat
    BY ProjectingIsFinite DEF IInv, TypeOK
  <2> QED
    BY <2>1 DEF IInv, HerdHasRoom, HerdIsBounded, Room
<1>3. IInv => TopIsServed
  BY <1>1, <1>2 DEF TopIsServed
<1> QED
  BY <1>3, LeaderboardInvariant, PTL

=============================================================================
