--------------------------- MODULE VerdictsProofs ---------------------------
(***************************************************************************)
(* Proofs about Verdicts for any number of submissions, calls and          *)
(* connections.                                                            *)
(***************************************************************************)
EXTENDS Verdicts, TLAPS

\* The versions of a stream are an initial segment of the positive numbers.
Contiguous(s) == \E n \in Nat : Versions(s) = 1..n

UniqueVersions(s) == \A e, f \in events[s] : e.version = f.version => e = f

\* A version that was read once stays one of the stream: rows are never deleted.
ReadsAreReal ==
  \A c \in Calls :
    pc[c] = "insert" => lastSeen[c] \in Versions(SubOf[c]) \cup {0}

\* Past its insert, an update has its own event in the stream.
AppendedBeforeCommit ==
  \A c \in Calls :
    IsUpdate(c) /\ pc[c] \in {"publish", "commit"} =>
      \E e \in events[SubOf[c]] : e.type = "SUBMISSION_COMPLETED" /\ e.by = c

\* Without an overrun, whoever is past acquire still owns the key.
HoldersHold ==
  overruns = 0 =>
    \A c \in Calls : TakesLock(c) /\ pc[c] \in InTx \cup {"begin"} => lock = c

\* "create" calls run no transaction.
UpdatesOnly == \A c \in Calls : pc[c] \in {"begin", "update", "commit"} => IsUpdate(c)

IInv ==
  /\ TypeOK
  /\ UpdatesOnly
  /\ \A s \in Subs : Contiguous(s) /\ UniqueVersions(s)
  /\ ReadsAreReal
  /\ AppendedBeforeCommit
  /\ VerdictsAreRecorded
  /\ HoldersHold

USE CallsAssumption

-----------------------------------------------------------------------------
LEMMA LatestIsVersion ==
  ASSUME NEW s \in Subs, Contiguous(s)
  PROVE  Latest(s) \in Nat /\ Latest(s) \in Versions(s) \cup {0}
<1>1. PICK n \in Nat : Versions(s) = 1..n
  BY DEF Contiguous
<1>2. CASE events[s] = {}
  BY <1>2 DEF Latest
<1>3. CASE events[s] # {}
  <2>1. Versions(s) # {}
    <3>1. PICK e \in events[s] : TRUE
      BY <1>3
    <3>2. e.version \in Versions(s)
      BY DEF Versions
    <3> QED
      BY <3>2
  <2>2. n \in Versions(s) /\ \A w \in Versions(s) : w <= n
    BY <1>1, <2>1
  <2>3. Latest(s) \in Versions(s)
    BY <1>3, <2>2 DEF Latest
  <2> QED
    BY <1>1, <2>3
<1> QED
  BY <1>2, <1>3

LEMMA InitIInv == Init => IInv
<1> SUFFICES ASSUME Init PROVE IInv
  OBVIOUS
<1>1. TypeOK
  BY DEF Init, TypeOK
<1>2. ASSUME NEW s \in Subs PROVE Contiguous(s) /\ UniqueVersions(s)
  <2>1. Versions(s) = {} /\ 1..0 = {}
    BY DEF Init, Versions
  <2> QED
    BY <2>1 DEF Contiguous, UniqueVersions, Init
<1>3. UpdatesOnly /\ ReadsAreReal /\ AppendedBeforeCommit /\ VerdictsAreRecorded /\ HoldersHold
  BY DEF Init, UpdatesOnly, ReadsAreReal, AppendedBeforeCommit, VerdictsAreRecorded, HoldersHold, InTx
<1> QED
  BY <1>1, <1>2, <1>3 DEF IInv

\* Steps that leave the streams alone keep everything said about versions.
LEMMA StreamsFrame ==
  ASSUME IInv, UNCHANGED events
  PROVE  \A s \in Subs : /\ Contiguous(s)' /\ UniqueVersions(s)'
                         /\ Versions(s)' = Versions(s)
  BY DEF IInv, Contiguous, UniqueVersions, Versions

LEMMA CreditsType ==
  ASSUME IInv, NEW c \in Calls, UpdateRow(c)
  PROVE  credits' \in [Calls -> BOOLEAN]
<1>1. PICK b \in BOOLEAN : credits' = [credits EXCEPT ![c] = b]
  BY Zenon DEF UpdateRow
<1>2. credits \in [Calls -> BOOLEAN]
  BY DEF IInv, TypeOK
<1> QED
  BY <1>1, <1>2

LEMMA LockStep ==
  ASSUME IInv, NEW c \in Calls, Acquire(c) \/ StartUnlocked(c) \/ Begin(c) \/ UpdateRow(c)
  PROVE  IInv'
<1>0. credits' \in [Calls -> BOOLEAN]
  <2>1. CASE UpdateRow(c)
    BY <2>1, CreditsType
  <2>2. CASE UNCHANGED credits
    BY <2>2 DEF IInv, TypeOK
  <2> QED
    BY <2>1, <2>2 DEF Acquire, StartUnlocked, Begin, locals
<1> USE DEF Acquire, StartUnlocked, Begin, UpdateRow, Goto, db, locals, bounds
<1>1. UNCHANGED <<verdict, solved, events, lastSeen, appends, again, faults, overruns>>
  OBVIOUS
<1>2. /\ pc' = [pc EXCEPT ![c] = pc'[c]]
      /\ pc'[c] \in {"begin", "failed", "update", "event"}
  BY DEF IInv, TypeOK
<1>3. TypeOK'
  BY <1>0, <1>1, <1>2 DEF IInv, TypeOK, InTx, Ended
<1>4. \A s \in Subs : Contiguous(s)' /\ UniqueVersions(s)' /\ Versions(s)' = Versions(s)
  BY <1>1, StreamsFrame
<1>5. ReadsAreReal'
  BY <1>1, <1>2, <1>4 DEF IInv, TypeOK, ReadsAreReal
<1>6. AppendedBeforeCommit' /\ VerdictsAreRecorded'
  BY <1>1, <1>2 DEF IInv, TypeOK, AppendedBeforeCommit, VerdictsAreRecorded, IsUpdate
<1>7. HoldersHold'
  BY <1>1, <1>2 DEF IInv, TypeOK, HoldersHold, TakesLock, InTx
<1>20. UpdatesOnly'
  BY <1>2 DEF IInv, TypeOK, UpdatesOnly, IsUpdate, TakesLock
<1> QED
  BY <1>20, <1>3, <1>4, <1>5, <1>6, <1>7 DEF IInv

LEMMA ReadStep ==
  ASSUME IInv, NEW c \in Calls, ReadVersion(c)
  PROVE  IInv'
<1> USE DEF ReadVersion, Goto, db, bounds
<1>1. SubOf[c] \in Subs /\ Latest(SubOf[c]) \in Nat
      /\ Latest(SubOf[c]) \in Versions(SubOf[c]) \cup {0}
  BY LatestIsVersion DEF IInv
<1>2. TypeOK'
  BY <1>1 DEF IInv, TypeOK, InTx, Ended
<1>3. \A s \in Subs : Contiguous(s)' /\ UniqueVersions(s)' /\ Versions(s)' = Versions(s)
  BY StreamsFrame
<1>4. ReadsAreReal'
  BY <1>1, <1>3 DEF IInv, TypeOK, ReadsAreReal
<1>5. AppendedBeforeCommit' /\ VerdictsAreRecorded'
  BY DEF IInv, TypeOK, AppendedBeforeCommit, VerdictsAreRecorded, IsUpdate
<1>6. HoldersHold'
  BY DEF IInv, TypeOK, HoldersHold, TakesLock, InTx
<1>20. UpdatesOnly'
  BY DEF IInv, TypeOK, UpdatesOnly, IsUpdate
<1> QED
  BY <1>20, <1>2, <1>3, <1>4, <1>5, <1>6 DEF IInv

LEMMA InsertStep ==
  ASSUME IInv, NEW c \in Calls, InsertRow(c)
  PROVE  IInv'
<1> USE DEF InsertRow, Goto, db, locals, bounds
<1> DEFINE s0 == SubOf[c]
           row == NewRow(c)
<1>0. s0 \in Subs /\ lastSeen[c] \in Nat /\ lastSeen[c] \in Versions(s0) \cup {0}
  BY DEF IInv, TypeOK, ReadsAreReal
<1>1. row \in Rows /\ row.version = lastSeen[c] + 1 /\ row.by = c
  BY <1>0 DEF NewRow, Rows, EventTypes
<1>2. /\ events'[s0] = events[s0] \cup {row}
      /\ \A s \in Subs : s # s0 => events'[s] = events[s]
      /\ \A s \in Subs : events[s] \subseteq events'[s]
  BY <1>0 DEF IInv, TypeOK
<1>3. /\ Versions(s0)' = Versions(s0) \cup {lastSeen[c] + 1}
      /\ \A s \in Subs : s # s0 => Versions(s)' = Versions(s)
  BY <1>1, <1>2 DEF Versions
<1>4. TypeOK'
  <2>1. events' \in [Subs -> SUBSET Rows]
    BY <1>0, <1>1 DEF IInv, TypeOK
  <2> QED
    BY <2>1 DEF IInv, TypeOK, InTx, Ended
<1>5. ASSUME NEW s \in Subs PROVE Contiguous(s)' /\ UniqueVersions(s)'
  <2>1. CASE s = s0
    <3>1. PICK n \in Nat : Versions(s0) = 1..n
      BY <1>0 DEF IInv, Contiguous
    <3>2. lastSeen[c] + 1 \notin 1..n /\ lastSeen[c] \in 0..n
      BY <1>0, <1>1, <3>1
    <3>3. lastSeen[c] = n
      BY <3>2
    <3>4. Versions(s0)' = 1..(n + 1)
      BY <1>3, <3>1, <3>3
    <3>5. Contiguous(s)'
      BY <2>1, <3>4 DEF Contiguous
    <3>6. \A e \in events[s0] : e.version # row.version
      BY <1>1 DEF Versions
    <3>7. UniqueVersions(s)'
      BY <1>2, <2>1, <3>6 DEF IInv, UniqueVersions
    <3> QED
      BY <3>5, <3>7
  <2>2. CASE s # s0
    BY <1>2, <1>3, <2>2 DEF IInv, Contiguous, UniqueVersions
  <2> QED
    BY <2>1, <2>2
<1>6. ReadsAreReal'
  BY <1>3 DEF IInv, TypeOK, ReadsAreReal
<1>7. AppendedBeforeCommit'
  <2> SUFFICES ASSUME NEW d \in Calls, IsUpdate(d), pc'[d] \in {"publish", "commit"}
               PROVE  \E e \in events'[SubOf[d]] : e.type = "SUBMISSION_COMPLETED" /\ e.by = d
    BY DEF AppendedBeforeCommit, IsUpdate
  <2>1. CASE d = c
    <3>1. row.type = "SUBMISSION_COMPLETED"
      BY <2>1 DEF NewRow
    <3> QED
      BY <1>1, <1>2, <2>1, <3>1
  <2>2. CASE d # c
    BY <1>2, <2>2 DEF IInv, TypeOK, AppendedBeforeCommit
  <2> QED
    BY <2>1, <2>2
<1>8. VerdictsAreRecorded'
  BY <1>2 DEF IInv, VerdictsAreRecorded
<1>9. HoldersHold'
  BY DEF IInv, TypeOK, HoldersHold, TakesLock, InTx
<1>20. UpdatesOnly'
  BY DEF IInv, TypeOK, UpdatesOnly, IsUpdate
<1> QED
  BY <1>20, <1>4, <1>5, <1>6, <1>7, <1>8, <1>9 DEF IInv

\* Leaving the transaction, with the key given back if it is still one's own.
LEMMA LeaveStep ==
  ASSUME IInv, NEW c \in Calls, NEW l \in Ended \cup {"event", "commit"},
         Goto(c, l), UNCHANGED <<db, events>>,
         Reset(c) \/ UNCHANGED locals,
         \/ Release(c) /\ l \in Ended
         \/ UNCHANGED lock /\ (~TakesLock(c) \/ pc[c] \in InTx),
         l = "commit" => pc[c] = "publish" /\ IsUpdate(c),
         faults' \in Nat, UNCHANGED <<again, overruns>>
  PROVE  IInv'
<1> USE DEF Goto, db, locals, Reset, Release
<1>1. TypeOK'
  <2>1. credits' \in [Calls -> BOOLEAN]
    BY DEF IInv, TypeOK
  <2>2. lastSeen' \in [Calls -> Nat] /\ appends' \in [Calls -> Nat]
    BY DEF IInv, TypeOK
  <2>3. pc' \in [Calls -> InTx \cup Ended \cup {"idle", "begin"}]
    BY DEF IInv, TypeOK, InTx, Ended
  <2>4. lock' \in Calls \cup {"free", "orphan"}
    BY DEF IInv, TypeOK
  <2> QED
    BY <2>1, <2>2, <2>3, <2>4 DEF IInv, TypeOK
<1>2. \A s \in Subs : Contiguous(s)' /\ UniqueVersions(s)' /\ Versions(s)' = Versions(s)
  BY StreamsFrame
<1>3. ReadsAreReal'
  BY <1>2 DEF IInv, TypeOK, ReadsAreReal, Ended
<1>4. AppendedBeforeCommit' /\ VerdictsAreRecorded'
  BY DEF IInv, TypeOK, AppendedBeforeCommit, VerdictsAreRecorded, IsUpdate, Ended
<1>5. HoldersHold'
  BY DEF IInv, TypeOK, HoldersHold, TakesLock, InTx, Ended
<1>20. UpdatesOnly'
  BY DEF IInv, TypeOK, UpdatesOnly, IsUpdate, Ended
<1> QED
  BY <1>20, <1>1, <1>2, <1>3, <1>4, <1>5 DEF IInv

LEMMA CommitStep ==
  ASSUME IInv, NEW c \in Calls, Commit(c)
  PROVE  IInv'
<1> USE DEF Commit, Goto, Reset, Release, bounds
<1>0. IsUpdate(c)
  BY DEF IInv, UpdatesOnly
<1>1. SubOf[c] \in Subs
  OBVIOUS
<1>2. /\ verdict' \in [Subs -> {"PENDING", "AC", "WA"}]
      /\ \A s \in Subs : s # SubOf[c] => verdict'[s] = verdict[s]
      /\ verdict'[SubOf[c]] = VerdictOf[c]
  BY <1>1 DEF Visible, IInv, TypeOK
<1>3. TypeOK'
  <2>1. credits' \in [Calls -> BOOLEAN]
    BY DEF IInv, TypeOK
  <2>2. lastSeen' \in [Calls -> Nat] /\ appends' \in [Calls -> Nat] /\ solved' \in Nat
    BY DEF IInv, TypeOK
  <2>3. pc' \in [Calls -> InTx \cup Ended \cup {"idle", "begin"}]
    BY DEF IInv, TypeOK, InTx, Ended
  <2>4. lock' \in Calls \cup {"free", "orphan"}
    BY DEF IInv, TypeOK
  <2> QED
    BY <1>2, <2>1, <2>2, <2>3, <2>4 DEF IInv, TypeOK
<1>4. \A s \in Subs : Contiguous(s)' /\ UniqueVersions(s)' /\ Versions(s)' = Versions(s)
  BY StreamsFrame
<1>5. ReadsAreReal'
  BY <1>4 DEF IInv, TypeOK, ReadsAreReal
<1>6. AppendedBeforeCommit'
  BY DEF IInv, TypeOK, AppendedBeforeCommit, IsUpdate
<1>7. VerdictsAreRecorded'
  <2> SUFFICES ASSUME NEW s \in Subs, verdict'[s] # "PENDING"
               PROVE  \E e \in events[s] : /\ e.type = "SUBMISSION_COMPLETED"
                                           /\ VerdictOf[e.by] = verdict'[s]
    BY DEF VerdictsAreRecorded
  <2>1. CASE s = SubOf[c]
    <3>1. PICK e \in events[s] : e.type = "SUBMISSION_COMPLETED" /\ e.by = c
      BY <1>0, <2>1 DEF IInv, AppendedBeforeCommit
    <3> QED
      BY <1>2, <2>1, <3>1
  <2>2. CASE s # SubOf[c]
    BY <1>2, <2>2 DEF IInv, VerdictsAreRecorded
  <2> QED
    BY <2>1, <2>2
<1>8. HoldersHold'
  BY DEF IInv, TypeOK, HoldersHold, TakesLock, InTx
<1>20. UpdatesOnly'
  BY DEF IInv, TypeOK, UpdatesOnly, IsUpdate
<1> QED
  BY <1>20, <1>3, <1>4, <1>5, <1>6, <1>7, <1>8 DEF IInv

LEMMA CallAgainStep ==
  ASSUME IInv, NEW c \in Calls, CallAgain(c)
  PROVE  IInv'
<1> USE DEF CallAgain, Goto, db, locals
<1>1. TypeOK'
  BY DEF IInv, TypeOK
<1>2. \A s \in Subs : Contiguous(s)' /\ UniqueVersions(s)' /\ Versions(s)' = Versions(s)
  BY StreamsFrame
<1>3. ReadsAreReal'
  BY <1>2 DEF IInv, TypeOK, ReadsAreReal
<1>4. AppendedBeforeCommit' /\ VerdictsAreRecorded'
  BY DEF IInv, TypeOK, AppendedBeforeCommit, VerdictsAreRecorded, IsUpdate
<1>5. HoldersHold'
  BY DEF IInv, TypeOK, HoldersHold, TakesLock, InTx
<1>20. UpdatesOnly'
  BY DEF IInv, TypeOK, UpdatesOnly, IsUpdate
<1> QED
  BY <1>20, <1>1, <1>2, <1>3, <1>4, <1>5 DEF IInv

LEMMA ExpiryStep ==
  ASSUME IInv, LockOverruns \/ OrphanExpires
  PROVE  IInv'
<1> USE DEF LockOverruns, OrphanExpires, db, locals, bounds
<1>1. TypeOK'
  BY DEF IInv, TypeOK
<1>2. \A s \in Subs : Contiguous(s)' /\ UniqueVersions(s)' /\ Versions(s)' = Versions(s)
  BY StreamsFrame
<1>3. ReadsAreReal' /\ AppendedBeforeCommit' /\ VerdictsAreRecorded'
  BY <1>2 DEF IInv, ReadsAreReal, AppendedBeforeCommit, VerdictsAreRecorded, IsUpdate
<1>4. HoldersHold'
  BY DEF IInv, TypeOK, HoldersHold, TakesLock
<1>20. UpdatesOnly'
  BY DEF IInv, TypeOK, UpdatesOnly, IsUpdate
<1> QED
  BY <1>20, <1>1, <1>2, <1>3, <1>4 DEF IInv

LEMMA CrashStep ==
  ASSUME IInv, Crash
  PROVE  IInv'
<1> USE DEF Crash, db
<1>0. \A c \in Calls : pc'[c] \in {"idle"} \cup Ended
  BY DEF Ended
<1>1. TypeOK'
  <2>1. credits' \in [Calls -> BOOLEAN] /\ lastSeen' \in [Calls -> Nat] /\ appends' \in [Calls -> Nat]
    OBVIOUS
  <2>2. pc' \in [Calls -> InTx \cup Ended \cup {"idle", "begin"}]
    BY DEF IInv, TypeOK, Ended
  <2> QED
    BY <2>1, <2>2 DEF IInv, TypeOK
<1>2. \A s \in Subs : Contiguous(s)' /\ UniqueVersions(s)' /\ Versions(s)' = Versions(s)
  BY StreamsFrame
<1>3. ReadsAreReal' /\ AppendedBeforeCommit' /\ VerdictsAreRecorded'
  BY <1>0 DEF IInv, ReadsAreReal, AppendedBeforeCommit, VerdictsAreRecorded, Ended
<1>4. HoldersHold'
  BY <1>0 DEF HoldersHold, InTx, Ended
<1>20. UpdatesOnly'
  BY <1>0 DEF UpdatesOnly, Ended
<1> QED
  BY <1>20, <1>1, <1>2, <1>3, <1>4 DEF IInv

LEMMA NextIInv == IInv /\ [Next]_vars => IInv'
<1> SUFFICES ASSUME IInv, [Next]_vars PROVE IInv'
  OBVIOUS
<1>1. faults \in Nat /\ faults + 1 \in Nat
  BY DEF IInv, TypeOK
<1>2. ASSUME NEW c \in Calls, Step(c) PROVE IInv'
  <2>1. CASE Acquire(c) \/ StartUnlocked(c) \/ Begin(c) \/ UpdateRow(c)
    BY <2>1, LockStep
  <2>2. CASE ReadVersion(c)
    BY <2>2, ReadStep
  <2>3. CASE InsertRow(c)
    BY <2>3, InsertStep
  <2>4. CASE Collide(c)
    BY <1>1, <2>4, LeaveStep DEF Collide, Fail, Ended, InTx, bounds
  <2>5. CASE PublishEvent(c)
    <3>1. CASE IsUpdate(c)
      BY <1>1, <2>5, <3>1, LeaveStep DEF PublishEvent, Ended, InTx, bounds
    <3>2. CASE ~IsUpdate(c)
      BY <1>1, <2>5, <3>2, LeaveStep DEF PublishEvent, Ended, InTx, bounds
    <3> QED
      BY <3>1, <3>2
  <2>6. CASE Commit(c)
    BY <2>6, CommitStep
  <2> QED
    BY <1>2, <2>1, <2>2, <2>3, <2>4, <2>5, <2>6 DEF Step
<1>3. ASSUME NEW c \in Calls, PublishEventFails(c) PROVE IInv'
  BY <1>1, <1>3, LeaveStep DEF PublishEventFails, Fail, Ended
<1>4. ASSUME NEW c \in Calls, CallAgain(c) PROVE IInv'
  BY <1>4, CallAgainStep
<1>5. CASE LockOverruns \/ OrphanExpires
  BY <1>5, ExpiryStep
<1>6. CASE Crash
  BY <1>6, CrashStep
<1>7. CASE UNCHANGED vars
  <2> USE <1>7 DEF vars, db, locals, bounds
  <2>1. TypeOK' /\ UpdatesOnly' /\ ReadsAreReal' /\ HoldersHold'
    BY DEF IInv, TypeOK, UpdatesOnly, ReadsAreReal, HoldersHold, Versions
  <2>2. AppendedBeforeCommit' /\ VerdictsAreRecorded'
    BY DEF IInv, AppendedBeforeCommit, VerdictsAreRecorded
  <2>3. \A s \in Subs : Contiguous(s)' /\ UniqueVersions(s)'
    BY StreamsFrame
  <2> QED
    BY <2>1, <2>2, <2>3 DEF IInv
<1> QED
  BY <1>2, <1>3, <1>4, <1>5, <1>6, <1>7 DEF Next

\* The inductive invariant holds in every reachable state.
THEOREM VerdictsInvariant == Spec => []IInv
<1> QED
  BY InitIInv, NextIInv, PTL DEF Spec

\* Every variable keeps its type.
THEOREM VerdictsTypeCorrect == Spec => []TypeOK
<1>1. IInv => TypeOK
  BY DEF IInv
<1> QED
  BY <1>1, VerdictsInvariant, PTL

\* Event streams are numbered without gap or duplicate, however many writers
\* race and however often they crash.
THEOREM VerdictsStreamsHaveNoGaps == Spec => []StreamsHaveNoGaps
<1>1. IInv => StreamsHaveNoGaps
  <2> SUFFICES ASSUME IInv, NEW s \in Subs
               PROVE  /\ \A v \in Versions(s) : 1..v \subseteq Versions(s)
                      /\ \A e, f \in events[s] : e.version = f.version => e = f
    BY DEF StreamsHaveNoGaps
  <2>1. PICK n \in Nat : Versions(s) = 1..n
    BY DEF IInv, Contiguous
  <2>2. \A v \in Versions(s) : 1..v \subseteq Versions(s)
    BY <2>1
  <2> QED
    BY <2>2 DEF IInv, UniqueVersions
<1> QED
  BY <1>1, VerdictsInvariant, PTL

\* A committed verdict has its completion event.
THEOREM VerdictsAreRecordedAlways == Spec => []VerdictsAreRecorded
<1>1. IInv => VerdictsAreRecorded
  BY DEF IInv
<1> QED
  BY <1>1, VerdictsInvariant, PTL

\* Without an overrun of its TTL, the lock excludes.
THEOREM VerdictsLockExcludes == Spec => []LockedUpdatesExclude
<1>1. IInv => LockedUpdatesExclude
  BY DEF IInv, HoldersHold, LockedUpdatesExclude
<1> QED
  BY <1>1, VerdictsInvariant, PTL
=============================================================================
