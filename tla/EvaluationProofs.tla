-------------------------- MODULE EvaluationProofs --------------------------
(***************************************************************************)
(* Proofs about Evaluation for any jobs, workers and numbers of faults.    *)
(***************************************************************************)
EXTENDS Evaluation, FiniteSetTheorems, TLAPS

\* What a worker has established when it reaches a step of its handler.
Claim(w) ==
  /\ at[w] \in {"persist", "solve", "board", "plag"} => KindOf[Job(w)] # "run"
  /\ at[w] \in {"solve", "board", "plag"} => Job(w) \in stored /\ Accepted(Job(w))
  /\ at[w] \in {"solve", "board"} => KindOf[Job(w)] = "contest"
  /\ at[w] \in {"store", "mark"} => Evaluated(Job(w))
Claims == \A w \in Workers : Claim(w)

ProcessedIsEvaluated == \A j \in processed : Evaluated(j)

\* One worker at most is about to credit a pair, and it has added the pair.
Arbitrated ==
  redisErrors = 0 =>
    /\ \A p \in Pairs : credits[p] <= 1 /\ (credits[p] > 0 => p \in solved)
    /\ \A w \in Workers :
         at[w] = "board" => Pair(w) \in solved /\ credits[Pair(w)] = 0
    /\ \A v, w \in Workers :
         at[v] = "board" /\ at[w] = "board" /\ Pair(v) = Pair(w) => v = w

\* A delivery is owned exactly while its service has not lost its consumer.
Connected ==
  \A w \in Workers : at[w] # "idle" => (w \in owned <=> ProcOf(w) \in consuming)

IInv ==
  /\ TypeOK
  /\ Connected
  /\ Claims
  /\ ProcessedIsEvaluated
  /\ NothingIsDropped
  /\ CreditsAreEarned
  /\ Arbitrated

USE JobsAssumption, WorkersAssumption, BoundsAssumption

-----------------------------------------------------------------------------
(* What one worker's step leaves to the others.                            *)

\* Only w moves, and what was evaluated stays so.
Alone(w) ==
  /\ \A v \in Workers \ {w} : at'[v] = at[v] /\ msg'[v] = msg[v]
  /\ stored \subseteq stored'
  /\ \A j \in Jobs : execs[j] > 0 => execs'[j] > 0

LEMMA WorkerFacts ==
  ASSUME TypeOK, NEW w \in Workers, at[w] # "idle"
  PROVE  /\ msg[w] \in Messages /\ Job(w) \in Jobs /\ Pair(w) \in Pairs
         /\ Retries(w) \in 0..MaxRetries /\ msg[w] = <<Job(w), Retries(w)>>
BY DEF TypeOK, Messages, Job, Pair, Retries

LEMMA InitIInv == Init => IInv
<1> SUFFICES ASSUME Init PROVE IInv
  OBVIOUS
<1> USE DEF Init
<1>1. TypeOK
  BY DEF TypeOK, Messages
<1>2. Claims /\ ProcessedIsEvaluated /\ Arbitrated
  BY DEF Claims, Claim, ProcessedIsEvaluated, Arbitrated
<1>5. Connected
  BY DEF Connected
<1>3. NothingIsDropped
  <2> SUFFICES ASSUME NEW j \in Jobs PROVE Queued(j)
    BY DEF NothingIsDropped
  <2>1. <<j, 0>> \in Messages /\ queue[<<j, 0>>] = 1
    BY DEF Messages
  <2> QED
    BY <2>1 DEF Queued
<1>4. CreditsAreEarned
  BY DEF CreditsAreEarned
<1> QED
  BY <1>1, <1>2, <1>3, <1>4, <1>5 DEF IInv

LEMMA EvaluatedStays ==
  ASSUME TypeOK, NEW w \in Workers, Alone(w), NEW j \in Jobs, Evaluated(j)
  PROVE  Evaluated(j)'
BY DEF Alone, Evaluated

LEMMA OthersClaim ==
  ASSUME TypeOK, Claims, NEW w \in Workers, Alone(w), Claim(w)'
  PROVE  Claims'
<1> SUFFICES ASSUME NEW v \in Workers \ {w} PROVE Claim(v)'
  BY DEF Claims
<1>1. at'[v] = at[v] /\ msg'[v] = msg[v] /\ stored \subseteq stored'
  BY DEF Alone
<1>2. CASE at[v] = "idle"
  BY <1>1, <1>2 DEF Claim
<1>3. CASE at[v] # "idle"
  <2>1. Job(v) \in Jobs
    BY <1>3, WorkerFacts
  <2>2. Evaluated(Job(v)) => Evaluated(Job(v))'
    BY <2>1, <1>1, EvaluatedStays DEF Evaluated, Alone, Job
  <2> QED
    BY <1>1, <2>2 DEF Claims, Claim, Accepted, Job
<1> QED
  BY <1>2, <1>3

LEMMA StillSafe ==
  ASSUME TypeOK, NothingIsDropped, NEW w \in Workers, Alone(w),
         owned \ {w} \subseteq owned', dlq \subseteq dlq',
         \A m \in Messages : queue[m] > 0 => queue'[m] > 0,
         \A j \in Jobs : w \in owned /\ at[w] # "ack" /\ Job(w) = j =>
           \/ Evaluated(j)' \/ j \in dlq'
           \/ \E m \in Messages : m[1] = j /\ queue'[m] > 0
           \/ w \in owned' /\ at'[w] # "ack" /\ msg'[w] = msg[w]
  PROVE  NothingIsDropped'
<1> SUFFICES ASSUME NEW j \in Jobs
             PROVE  Evaluated(j)' \/ j \in dlq' \/ Queued(j)' \/ Held(j)'
  BY DEF NothingIsDropped
<1>1. CASE Evaluated(j)
  BY <1>1, EvaluatedStays
<1>2. CASE j \in dlq \/ Queued(j)
  BY <1>2 DEF Queued
<1>3. CASE Held(j)
  <2>1. PICK v \in owned : Job(v) = j /\ at[v] # "ack"
    BY <1>3 DEF Held
  <2>2. CASE v = w
    BY <2>1, <2>2 DEF Held, Queued, Job
  <2>3. CASE v # w
    <3>1. v \in owned' /\ at'[v] = at[v] /\ msg'[v] = msg[v]
      BY <2>1, <2>3 DEF Alone, TypeOK
    <3> QED
      BY <2>1, <3>1 DEF Held, Job
  <2> QED
    BY <2>2, <2>3
<1> QED
  BY <1>1, <1>2, <1>3 DEF NothingIsDropped

\* Steps that credit nothing and send no other worker to the leaderboard.
LEMMA StillArbitrated ==
  ASSUME TypeOK, Arbitrated, NEW w \in Workers, Alone(w),
         redisErrors' = redisErrors, UNCHANGED <<solved, credits>>,
         at'[w] # "board"
  PROVE  Arbitrated'
<1> SUFFICES ASSUME redisErrors = 0 PROVE Arbitrated'
  BY DEF Arbitrated
<1>1. \A v \in Workers : at'[v] = "board" =>
        v # w /\ at[v] = "board" /\ Pair(v)' = Pair(v)
  BY DEF Alone, Pair, Job
<1>2. ASSUME NEW v \in Workers, at'[v] = "board"
      PROVE  Pair(v)' \in solved' /\ credits'[Pair(v)'] = 0
  BY <1>1, <1>2 DEF Arbitrated
<1>3. ASSUME NEW u \in Workers, NEW v \in Workers,
             at'[u] = "board", at'[v] = "board", Pair(u)' = Pair(v)'
      PROVE  u = v
  BY <1>1, <1>3 DEF Arbitrated
<1>4. \A p \in Pairs : credits'[p] <= 1 /\ (credits'[p] > 0 => p \in solved')
  BY DEF Arbitrated
<1> QED
  BY <1>2, <1>3, <1>4 DEF Arbitrated

LEMMA StillEarned ==
  ASSUME TypeOK, CreditsAreEarned, UNCHANGED <<solved, credits, checked>>,
         stored \subseteq stored'
  PROVE  CreditsAreEarned'
BY DEF CreditsAreEarned, Accepted

-----------------------------------------------------------------------------
(* The shapes of a step: a worker goes on, or gives its delivery back.     *)

Typed ==
  /\ at \in [Workers -> Busy \cup {"idle"}]
  /\ msg \in [Workers -> Messages \cup {NoMessage}]
  /\ \A w \in Workers : at[w] # "idle" => msg[w] \in Messages
  /\ owned \in SUBSET {w \in Workers : at[w] # "idle"}
  /\ queue \in [Messages -> Nat] /\ dlq \in SUBSET Jobs
  /\ consuming \in SUBSET Procs

LEMMA GotoStep ==
  ASSUME TypeOK, Connected, NothingIsDropped, NEW w \in Workers, NEW l \in Busy,
         at[w] # "idle", Goto(w, l), UNCHANGED broker,
         stored \subseteq stored', \A j \in Jobs : execs[j] > 0 => execs'[j] > 0,
         \A j \in Jobs : l = "ack" /\ at[w] # "ack" /\ Job(w) = j => Evaluated(j)'
  PROVE  Typed' /\ Connected' /\ NothingIsDropped' /\ Alone(w) /\ at'[w] = l /\ msg'[w] = msg[w]
<1>1. Alone(w) /\ at'[w] = l /\ msg' = msg
  BY DEF Goto, TypeOK, Alone
<1>2. Typed'
  BY DEF Typed, TypeOK, Goto, broker, Busy
<1>3. NothingIsDropped'
  BY <1>1, StillSafe DEF broker
<1>4. Connected'
  BY <1>1 DEF Connected, Alone, broker
<1> QED
  BY <1>1, <1>2, <1>3, <1>4

LEMMA FinishFacts ==
  ASSUME TypeOK, NEW w \in Workers, Finish(w),
         stored \subseteq stored', \A j \in Jobs : execs[j] > 0 => execs'[j] > 0
  PROVE  /\ Alone(w) /\ at'[w] = "idle" /\ msg'[w] = NoMessage
         /\ at' \in [Workers -> Busy \cup {"idle"}]
         /\ msg' \in [Workers -> Messages \cup {NoMessage}]
         /\ \A v \in Workers : at'[v] # "idle" => msg'[v] \in Messages
         /\ owned \ {w} \in SUBSET {v \in Workers : at'[v] # "idle"}
BY DEF Finish, TypeOK, Alone

LEMMA DeadLetterStep ==
  ASSUME TypeOK, Connected, NothingIsDropped, NEW w \in Workers, at[w] # "idle", DeadLetter(w),
         stored \subseteq stored', \A j \in Jobs : execs[j] > 0 => execs'[j] > 0
  PROVE  Typed' /\ Connected' /\ NothingIsDropped' /\ Alone(w) /\ at'[w] = "idle"
<1>1. Finish(w) /\ owned' = owned \ {w} /\ UNCHANGED <<queue, consuming>>
  BY DEF DeadLetter
<1>2. Alone(w) /\ at'[w] = "idle"
  BY <1>1, FinishFacts
<1>3. Job(w) \in Jobs
  BY WorkerFacts
<1>4. dlq' = dlq \/ dlq' = dlq \cup {Job(w)}
  BY DEF DeadLetter
<1>5. Typed'
  BY <1>1, <1>3, <1>4, FinishFacts DEF Typed, TypeOK
<1>6. NothingIsDropped'
  BY <1>1, <1>2, <1>4, StillSafe DEF DeadLetter
<1>7. Connected'
  BY <1>1, <1>2 DEF Connected, Alone
<1> QED
  BY <1>2, <1>5, <1>6, <1>7

\* Giving the delivery back with q copies queued, at least the original.
LEMMA GiveBackStep ==
  ASSUME TypeOK, Connected, NothingIsDropped, NEW w \in Workers, at[w] # "idle", Finish(w),
         NEW q \in [Messages -> Nat], \A m \in Messages : queue[m] <= q[m],
         w \in owned => q[msg[w]] > 0,
         queue' = q, owned' = owned \ {w}, UNCHANGED <<dlq, consuming>>,
         stored \subseteq stored', \A j \in Jobs : execs[j] > 0 => execs'[j] > 0
  PROVE  Typed' /\ Connected' /\ NothingIsDropped' /\ Alone(w) /\ at'[w] = "idle"
<1>1. Alone(w) /\ at'[w] = "idle"
  BY FinishFacts
<1>2. Typed'
  BY FinishFacts DEF Typed, TypeOK
<1>3. msg[w] \in Messages /\ msg[w][1] = Job(w)
  BY WorkerFacts DEF Job
<1>4. \A m \in Messages : queue[m] > 0 => queue'[m] > 0
  BY DEF TypeOK
<1>5. NothingIsDropped'
  BY <1>1, <1>3, <1>4, StillSafe
<1>6. Connected'
  BY <1>1 DEF Connected, Alone
<1> QED
  BY <1>1, <1>2, <1>5, <1>6

LEMMA RequeueStep ==
  ASSUME TypeOK, Connected, NothingIsDropped, NEW w \in Workers, at[w] # "idle", Requeue(w),
         stored \subseteq stored', \A j \in Jobs : execs[j] > 0 => execs'[j] > 0
  PROVE  Typed' /\ Connected' /\ NothingIsDropped' /\ Alone(w) /\ at'[w] = "idle"
<1>1. msg[w] \in Messages
  BY WorkerFacts
<1>2. queue' \in [Messages -> Nat] /\ \A m \in Messages : queue[m] <= queue'[m]
  BY <1>1 DEF Requeue, TypeOK
<1>3. w \in owned => queue'[msg[w]] > 0
  BY <1>1 DEF Requeue, TypeOK
<1> QED
  BY <1>2, <1>3, GiveBackStep DEF Requeue

\* The remaining variables of the type invariant.
TypedEffects ==
  /\ processed \in SUBSET Jobs /\ stored \in SUBSET Jobs
  /\ solved \in SUBSET Pairs /\ credits \in [Pairs -> Nat]
  /\ checked \in SUBSET Jobs
  /\ execs \in [Jobs -> Nat]
  /\ result \in [Jobs -> {"none", "queued", "completed"}]
  /\ asked \in SUBSET Jobs
  /\ faults \in Nat /\ redisErrors \in Nat

LEMMA TypeParts == TypeOK <=> Typed /\ TypedEffects
BY DEF TypeOK, Typed, TypedEffects

LEMMA ProcessedStays ==
  ASSUME TypeOK, ProcessedIsEvaluated, NEW w \in Workers, Alone(w),
         processed' \subseteq processed
  PROVE  ProcessedIsEvaluated'
<1> SUFFICES ASSUME NEW j \in processed' PROVE Evaluated(j)'
  BY DEF ProcessedIsEvaluated
<1>1. j \in Jobs /\ Evaluated(j)
  BY DEF TypeOK, ProcessedIsEvaluated
<1> QED
  BY <1>1, EvaluatedStays

\* A step that changes no effect keeps the invariant once its own parts hold.
LEMMA QuietStep ==
  ASSUME IInv, NEW w \in Workers, Typed', Connected', NothingIsDropped', Alone(w), Claim(w)',
         at'[w] # "board", processed' \subseteq processed,
         UNCHANGED <<solved, credits, checked, redisErrors>>, TypedEffects'
  PROVE  IInv'
<1>1. Claims'
  BY OthersClaim DEF IInv
<1>2. ProcessedIsEvaluated'
  BY ProcessedStays DEF IInv
<1>3. Arbitrated'
  BY StillArbitrated DEF IInv
<1>4. CreditsAreEarned'
  BY StillEarned DEF IInv, Alone
<1>5. TypeOK'
  BY TypeParts, PTL
<1> QED
  BY <1>1, <1>2, <1>3, <1>4, <1>5 DEF IInv

-----------------------------------------------------------------------------
(* One lemma per step of the handlers.                                     *)

LEMMA CheckStep ==
  ASSUME IInv, NEW w \in Workers, CheckProcessed(w)
  PROVE  IInv'
<1> USE DEF CheckProcessed, redis, effects
<1>1. PICK l \in {"ack", "fetch", "retry"} :
        Goto(w, l) /\ (l = "ack" => Job(w) \in processed)
  OBVIOUS
<1>2. /\ Typed' /\ Connected' /\ NothingIsDropped' /\ Alone(w) /\ at'[w] = l
  <2>1. \A j \in Jobs : l = "ack" /\ Job(w) = j => Evaluated(j)'
    BY <1>1 DEF IInv, ProcessedIsEvaluated, Evaluated
  <2> QED
    BY <1>1, <2>1, GotoStep DEF IInv, Busy
<1>3. TypedEffects'
  BY DEF IInv, TypeOK, TypedEffects, Fault, NoFault, bounds
<1>4. Claim(w)'
  BY <1>2 DEF Claim
<1>5. UNCHANGED redisErrors
  BY DEF Fault, NoFault, bounds
<1> QED
  BY <1>2, <1>3, <1>4, <1>5, QuietStep

LEMMA FetchStep ==
  ASSUME IInv, NEW w \in Workers, FetchProblem(w)
  PROVE  IInv'
<1> USE DEF FetchProblem, redis, effects
<1>2. ASSUME NEW l \in {"run", "retry"}, Goto(w, l), UNCHANGED broker
      PROVE  Typed' /\ Connected' /\ NothingIsDropped' /\ Alone(w) /\ at'[w] = l
  BY <1>2, GotoStep DEF IInv, Busy
<1>3. Typed' /\ Connected' /\ NothingIsDropped' /\ Alone(w) /\ at'[w] \in {"idle", "run", "retry"}
  <2>1. CASE DeadLetter(w)
    BY <2>1, DeadLetterStep DEF IInv
  <2> QED
    BY <1>2, <2>1
<1>4. TypedEffects'
  BY DEF IInv, TypeOK, TypedEffects, Fault, NoFault, bounds
<1>5. Claim(w)'
  BY <1>3 DEF Claim
<1>6. UNCHANGED redisErrors
  BY DEF Fault, NoFault, bounds
<1> QED
  BY <1>3, <1>4, <1>5, <1>6, QuietStep

LEMMA RunStep ==
  ASSUME IInv, NEW w \in Workers, RunSandbox(w)
  PROVE  IInv'
<1> USE DEF RunSandbox, redis
<1>1. at[w] # "idle" /\ Job(w) \in Jobs
  BY WorkerFacts DEF IInv
<1>2. execs' \in [Jobs -> Nat] /\ \A j \in Jobs : execs[j] > 0 => execs'[j] > 0
  BY <1>1 DEF IInv, TypeOK
<1>3. TypedEffects'
  BY <1>2 DEF IInv, TypeOK, TypedEffects, Fault, NoFault, bounds
<1>4. UNCHANGED redisErrors
  BY DEF Fault, NoFault, bounds
<1>5. CASE Goto(w, AfterRun(w)) /\ UNCHANGED broker /\ execs' = [execs EXCEPT ![Job(w)] = @ + 1]
  <2>1. execs'[Job(w)] > 0
    BY <1>1, <1>5 DEF IInv, TypeOK
  <2>2. /\ AfterRun(w) \in {"persist", "ack", "store"}
        /\ AfterRun(w) = "persist" <=> KindOf[Job(w)] # "run"
    BY DEF AfterRun
  <2>3. \A j \in Jobs : AfterRun(w) = "ack" /\ Job(w) = j => Evaluated(j)'
    BY <2>1, <2>2 DEF Evaluated
  <2>4. /\ Typed' /\ Connected' /\ NothingIsDropped' /\ Alone(w)
        /\ at'[w] = AfterRun(w) /\ msg'[w] = msg[w]
    BY <1>1, <1>2, <1>5, <2>2, <2>3, GotoStep DEF IInv, Busy
  <2>5. Claim(w)'
    BY <2>1, <2>2, <2>4 DEF Claim, Evaluated, Job
  <2> QED
    BY <1>3, <1>4, <2>2, <2>4, <2>5, QuietStep
<1>6. CASE DeadLetter(w)
  <2>1. Typed' /\ Connected' /\ NothingIsDropped' /\ Alone(w) /\ at'[w] = "idle"
    BY <1>1, <1>2, <1>6, DeadLetterStep DEF IInv
  <2>2. Claim(w)'
    BY <2>1 DEF Claim
  <2> QED
    BY <1>3, <1>4, <2>1, <2>2, QuietStep
<1>7. CASE Goto(w, "retry") /\ UNCHANGED broker
  <2>1. Typed' /\ Connected' /\ NothingIsDropped' /\ Alone(w) /\ at'[w] = "retry"
    BY <1>1, <1>2, <1>7, GotoStep DEF IInv, Busy
  <2>2. Claim(w)'
    BY <2>1 DEF Claim
  <2> QED
    BY <1>3, <1>4, <2>1, <2>2, QuietStep
<1> QED
  BY <1>5, <1>6, <1>7

LEMMA StoreStep ==
  ASSUME IInv, NEW w \in Workers, StoreRunResult(w)
  PROVE  IInv'
<1> USE DEF StoreRunResult, effects
<1>1. Typed' /\ Connected' /\ NothingIsDropped' /\ Alone(w) /\ at'[w] = "mark" /\ msg'[w] = msg[w]
  BY GotoStep DEF IInv, Busy
<1>2. Job(w) \in Jobs /\ Evaluated(Job(w))
  BY WorkerFacts DEF IInv, Claims, Claim
<1>3. Claim(w)'
  BY <1>1, <1>2 DEF Claim, Evaluated, Job
<1>4. TypedEffects'
  BY DEF IInv, TypeOK, TypedEffects, Fault, NoFault, bounds
<1>5. UNCHANGED redisErrors
  BY DEF Fault, NoFault, bounds
<1> QED
  BY <1>1, <1>3, <1>4, <1>5, QuietStep

LEMMA PersistStep ==
  ASSUME IInv, NEW w \in Workers, PersistVerdict(w)
  PROVE  IInv'
<1> USE DEF PersistVerdict, redis
<1>1. at[w] # "idle" /\ Job(w) \in Jobs /\ KindOf[Job(w)] # "run"
  BY WorkerFacts DEF IInv, Claims, Claim
<1>2. stored' \in SUBSET Jobs /\ stored \subseteq stored'
  BY <1>1 DEF IInv, TypeOK, MayStore
<1>3. TypedEffects'
  BY <1>2 DEF IInv, TypeOK, TypedEffects, Fault, NoFault, bounds
<1>4. UNCHANGED redisErrors
  BY DEF Fault, NoFault, bounds
<1>5. CASE /\ Goto(w, AfterPersist(w)) /\ UNCHANGED broker
           /\ stored' = stored \cup {Job(w)}
  <2>1. /\ AfterPersist(w) \in {"solve", "ack", "plag", "mark"}
        /\ AfterPersist(w) \in {"solve", "plag"} => Accepted(Job(w))
        /\ AfterPersist(w) = "solve" => KindOf[Job(w)] = "contest"
    BY DEF AfterPersist
  <2>2. \A j \in Jobs : Job(w) = j => Evaluated(j)'
    BY <1>1, <1>5 DEF Evaluated
  <2>3. /\ Typed' /\ Connected' /\ NothingIsDropped' /\ Alone(w)
        /\ at'[w] = AfterPersist(w) /\ msg'[w] = msg[w]
    BY <1>1, <1>2, <1>5, <2>1, <2>2, GotoStep DEF IInv, Busy
  <2>4. Claim(w)'
    BY <1>1, <1>5, <2>1, <2>3 DEF Claim, Evaluated, Job, Accepted
  <2> QED
    BY <1>3, <1>4, <2>1, <2>3, <2>4, QuietStep
<1>6. CASE Requeue(w)
  <2>1. Typed' /\ Connected' /\ NothingIsDropped' /\ Alone(w) /\ at'[w] = "idle"
    BY <1>1, <1>2, <1>6, RequeueStep DEF IInv
  <2>2. Claim(w)'
    BY <2>1 DEF Claim
  <2> QED
    BY <1>3, <1>4, <2>1, <2>2, QuietStep
<1>7. CASE Goto(w, "retry") /\ UNCHANGED broker
  <2>1. Typed' /\ Connected' /\ NothingIsDropped' /\ Alone(w) /\ at'[w] = "retry"
    BY <1>1, <1>2, <1>7, GotoStep DEF IInv, Busy
  <2>2. Claim(w)'
    BY <2>1 DEF Claim
  <2> QED
    BY <1>3, <1>4, <2>1, <2>2, QuietStep
<1> QED
  BY <1>5, <1>6, <1>7

\* An answered SADD sends at most one worker of a pair to the leaderboard.
LEMMA SolveStep ==
  ASSUME IInv, NEW w \in Workers, AddSolved(w)
  PROVE  IInv'
<1> USE DEF AddSolved, effects
<1>1. /\ at[w] # "idle" /\ Job(w) \in Jobs /\ Pair(w) \in Pairs
      /\ Job(w) \in stored /\ Accepted(Job(w)) /\ KindOf[Job(w)] = "contest"
  BY WorkerFacts DEF IInv, Claims, Claim
<1>2. PICK l \in {"board", "ack", "plag"} : Goto(w, l)
  OBVIOUS
<1>3. /\ Typed' /\ Connected' /\ NothingIsDropped' /\ Alone(w) /\ at'[w] = l /\ msg'[w] = msg[w]
  BY <1>1, <1>2, GotoStep DEF IInv, Busy, Evaluated
<1>4. solved' \in SUBSET Pairs /\ solved \subseteq solved' /\ solved' \subseteq solved \cup {Pair(w)}
  BY <1>1 DEF IInv, TypeOK
<1>5. TypedEffects'
  BY <1>4 DEF IInv, TypeOK, TypedEffects, NoFault, bounds
<1>6. Claims'
  <2>1. Claim(w)'
    BY <1>1, <1>2, <1>3 DEF Claim, Evaluated, Job, Accepted
  <2> QED
    BY <1>3, <2>1, OthersClaim DEF IInv
<1>7. CreditsAreEarned'
  <2>1. Pair(w) = PairOf[Job(w)]
    BY DEF Pair
  <2> QED
    BY <1>1, <1>4, <2>1 DEF IInv, CreditsAreEarned, Accepted
<1>8. Arbitrated'
  <2> SUFFICES ASSUME redisErrors' = 0 PROVE Arbitrated'
    BY DEF Arbitrated
  <2>1. /\ redisErrors = 0 /\ solved' = solved \cup {Pair(w)}
        /\ at'[w] = "board" => Pair(w) \notin solved
    BY <1>3 DEF IInv, TypeOK, NoFault, bounds, Goto
  <2>2. \A v \in Workers \ {w} : at'[v] = at[v] /\ Pair(v)' = Pair(v)
    BY <1>3 DEF Alone, Pair, Job
  <2>3. Pair(w)' = Pair(w)
    BY <1>3 DEF Pair, Job
  <2>4. \A p \in Pairs : credits'[p] <= 1 /\ (credits'[p] > 0 => p \in solved')
    BY <1>4, <2>1 DEF IInv, Arbitrated
  <2>5. Pair(w) \notin solved => credits[Pair(w)] = 0
    BY <1>1, <2>1 DEF IInv, Arbitrated, TypeOK
  <2>6. ASSUME NEW v \in Workers, at'[v] = "board"
        PROVE  Pair(v)' \in solved' /\ credits'[Pair(v)'] = 0
    <3>1. CASE v = w
      BY <2>1, <2>3, <2>5, <2>6, <3>1
    <3>2. CASE v # w
      BY <2>1, <2>2, <2>6, <3>2 DEF IInv, Arbitrated
    <3> QED
      BY <3>1, <3>2
  <2>7. ASSUME NEW u \in Workers, NEW v \in Workers,
               at'[u] = "board", at'[v] = "board", Pair(u)' = Pair(v)'
        PROVE  u = v
    <3>1. ASSUME NEW x \in Workers \ {w}, at'[x] = "board", at'[w] = "board"
          PROVE  Pair(x)' # Pair(w)'
      BY <2>1, <2>2, <2>3, <3>1 DEF IInv, Arbitrated
    <3>2. CASE u # w /\ v # w
      BY <2>1, <2>2, <2>7, <3>2 DEF IInv, Arbitrated
    <3> QED
      BY <2>7, <3>1, <3>2
  <2> QED
    BY <2>4, <2>6, <2>7 DEF Arbitrated
<1>9. ProcessedIsEvaluated'
  BY <1>3, ProcessedStays DEF IInv
<1>10. TypeOK'
  BY <1>3, <1>5, TypeParts, PTL
<1> QED
  BY <1>3, <1>6, <1>7, <1>8, <1>9, <1>10 DEF IInv

LEMMA BoardStep ==
  ASSUME IInv, NEW w \in Workers, UpdateLeaderboard(w)
  PROVE  IInv'
<1> USE DEF UpdateLeaderboard, redis
<1>1. /\ at[w] # "idle" /\ Job(w) \in Jobs /\ Pair(w) \in Pairs
      /\ Job(w) \in stored /\ Accepted(Job(w)) /\ KindOf[Job(w)] = "contest"
  BY WorkerFacts DEF IInv, Claims, Claim
<1>2. PICK l \in {"plag", "retry"} : Goto(w, l)
  OBVIOUS
<1>3. Typed' /\ Connected' /\ NothingIsDropped' /\ Alone(w) /\ at'[w] = l /\ msg'[w] = msg[w]
  BY <1>1, <1>2, GotoStep DEF IInv, Busy
<1>4. /\ credits' \in [Pairs -> Nat]
      /\ \A p \in Pairs : p # Pair(w) => credits'[p] = credits[p]
      /\ credits'[Pair(w)] \in {credits[Pair(w)], credits[Pair(w)] + 1}
  BY <1>1 DEF IInv, TypeOK, Credited
<1>5. TypedEffects'
  BY <1>4 DEF IInv, TypeOK, TypedEffects, Fault, NoFault, bounds
<1>6. Claims'
  <2>1. Claim(w)'
    BY <1>1, <1>2, <1>3 DEF Claim, Evaluated, Job, Accepted
  <2> QED
    BY <1>3, <2>1, OthersClaim DEF IInv
<1>7. CreditsAreEarned'
  <2>1. Pair(w) = PairOf[Job(w)]
    BY DEF Pair
  <2> QED
    BY <1>1, <1>4, <2>1 DEF IInv, CreditsAreEarned, Accepted
<1>8. Arbitrated'
  <2> SUFFICES ASSUME redisErrors' = 0 PROVE Arbitrated'
    BY DEF Arbitrated
  <2>1. redisErrors = 0
    BY DEF Fault, NoFault, bounds
  <2>2. \A v \in Workers : at'[v] = "board" =>
          v # w /\ at[v] = "board" /\ Pair(v)' = Pair(v)
    BY <1>2, <1>3 DEF Alone, Pair, Job
  <2>3. credits[Pair(w)] = 0 /\ Pair(w) \in solved
    BY <2>1 DEF IInv, Arbitrated
  <2>4. \A p \in Pairs : credits'[p] <= 1 /\ (credits'[p] > 0 => p \in solved')
    BY <1>4, <2>1, <2>3 DEF IInv, Arbitrated
  <2>5. ASSUME NEW v \in Workers, at'[v] = "board"
        PROVE  Pair(v)' \in solved' /\ credits'[Pair(v)'] = 0
    <3>1. v # w /\ at[v] = "board" /\ Pair(v)' = Pair(v)
      BY <2>2, <2>5
    <3>2. Pair(v) # Pair(w) /\ Pair(v) \in solved /\ credits[Pair(v)] = 0
      BY <2>1, <3>1 DEF IInv, Arbitrated
    <3>3. Pair(v) \in Pairs
      BY <3>1, WorkerFacts DEF IInv
    <3> QED
      BY <1>4, <3>1, <3>2, <3>3
  <2>6. ASSUME NEW u \in Workers, NEW v \in Workers,
               at'[u] = "board", at'[v] = "board", Pair(u)' = Pair(v)'
        PROVE  u = v
    BY <2>1, <2>2, <2>6 DEF IInv, Arbitrated
  <2> QED
    BY <2>4, <2>5, <2>6 DEF Arbitrated
<1>9. ProcessedIsEvaluated'
  BY <1>3, ProcessedStays DEF IInv
<1>10. TypeOK'
  BY <1>3, <1>5, TypeParts, PTL
<1> QED
  BY <1>3, <1>6, <1>7, <1>8, <1>9, <1>10 DEF IInv

LEMMA PlagiarismStep ==
  ASSUME IInv, NEW w \in Workers, PublishPlagiarism(w)
  PROVE  IInv'
<1> USE DEF PublishPlagiarism, redis
<1>1. /\ at[w] # "idle" /\ Job(w) \in Jobs /\ KindOf[Job(w)] # "run"
      /\ Job(w) \in stored /\ Accepted(Job(w))
  BY WorkerFacts DEF IInv, Claims, Claim
<1>2. PICK l \in {"ack", "mark", "retry"} : Goto(w, l)
  BY DEF AfterCheck
<1>3. Typed' /\ Connected' /\ NothingIsDropped' /\ Alone(w) /\ at'[w] = l /\ msg'[w] = msg[w]
  BY <1>1, <1>2, GotoStep DEF IInv, Busy, Evaluated
<1>4. checked' \in SUBSET Jobs /\ checked' \subseteq checked \cup {Job(w)}
  BY <1>1 DEF IInv, TypeOK
<1>5. TypedEffects'
  BY <1>4 DEF IInv, TypeOK, TypedEffects, Fault, NoFault, bounds
<1>6. Claims'
  <2>1. Claim(w)'
    BY <1>1, <1>2, <1>3 DEF Claim, Evaluated, Job
  <2> QED
    BY <1>3, <2>1, OthersClaim DEF IInv
<1>7. CreditsAreEarned'
  BY <1>1, <1>4 DEF IInv, CreditsAreEarned, Accepted
<1>8. Arbitrated'
  BY <1>2, <1>3, StillArbitrated DEF IInv, Fault, NoFault, bounds
<1>9. ProcessedIsEvaluated'
  BY <1>3, ProcessedStays DEF IInv
<1>10. TypeOK'
  BY <1>3, <1>5, TypeParts, PTL
<1> QED
  BY <1>3, <1>6, <1>7, <1>8, <1>9, <1>10 DEF IInv

LEMMA MarkStep ==
  ASSUME IInv, NEW w \in Workers, MarkProcessed(w)
  PROVE  IInv'
<1> USE DEF MarkProcessed, effects
<1>1. at[w] # "idle" /\ Job(w) \in Jobs /\ Evaluated(Job(w))
  BY WorkerFacts DEF IInv, Claims, Claim
<1>2. PICK l \in {"ack", "retry"} : Goto(w, l)
  OBVIOUS
<1>3. Typed' /\ Connected' /\ NothingIsDropped' /\ Alone(w) /\ at'[w] = l /\ msg'[w] = msg[w]
  BY <1>1, <1>2, GotoStep DEF IInv, Busy, Evaluated
<1>4. processed' \in SUBSET Jobs /\ processed' \subseteq processed \cup {Job(w)}
  BY <1>1 DEF IInv, TypeOK
<1>5. TypedEffects'
  BY <1>4 DEF IInv, TypeOK, TypedEffects, Fault, NoFault, bounds
<1>6. Claims'
  <2>1. Claim(w)'
    BY <1>2, <1>3 DEF Claim
  <2> QED
    BY <1>3, <2>1, OthersClaim DEF IInv
<1>7. CreditsAreEarned'
  BY StillEarned DEF IInv
<1>8. Arbitrated'
  BY <1>2, <1>3, StillArbitrated DEF IInv, Fault, NoFault, bounds
<1>9. ProcessedIsEvaluated'
  BY <1>1, <1>4 DEF IInv, ProcessedIsEvaluated, Evaluated
<1>10. TypeOK'
  BY <1>3, <1>5, TypeParts, PTL
<1> QED
  BY <1>3, <1>6, <1>7, <1>8, <1>9, <1>10 DEF IInv

-----------------------------------------------------------------------------
(* A process loses its consumer, or its workers.                           *)

\* Workers of p are stopped or not; whatever p owned is given back.
LEMMA StoppedStep ==
  ASSUME IInv, NEW p \in Procs,
         StopWorkers(p) \/ UNCHANGED <<at, msg>>,
         queue' \in [Messages -> Nat], \A m \in Messages : queue[m] <= queue'[m],
         owned' = {w \in owned : ProcOf(w) # p}, UNCHANGED dlq,
         \A w \in owned : ProcOf(w) = p => queue'[msg[w]] > 0,
         consuming' \in SUBSET Procs,
         \A q \in Procs \ {p} : q \in consuming' <=> q \in consuming,
         p \in consuming' => StopWorkers(p),
         UNCHANGED <<redis, effects, redisErrors>>, TypedEffects'
  PROVE  IInv'
<1> USE DEF redis, effects
<1>1. \A w \in Workers : \/ at'[w] = at[w] /\ msg'[w] = msg[w]
                         \/ ProcOf(w) = p /\ at'[w] = "idle" /\ msg'[w] = NoMessage
  BY DEF StopWorkers
<1>2. \A w \in Workers : ProcOf(w) # p => at'[w] = at[w] /\ msg'[w] = msg[w]
  BY DEF StopWorkers
<1>3. Typed'
  <2>1. at' \in [Workers -> Busy \cup {"idle"}] /\ msg' \in [Workers -> Messages \cup {NoMessage}]
    BY DEF StopWorkers, IInv, TypeOK
  <2>2. \A w \in Workers : at'[w] # "idle" => msg'[w] \in Messages
    BY <1>1 DEF IInv, TypeOK
  <2>3. owned' \in SUBSET {w \in Workers : at'[w] # "idle"}
    BY <1>2 DEF IInv, TypeOK
  <2> QED
    BY <2>1, <2>2, <2>3 DEF IInv, TypeOK, Typed
<1>4. Connected'
  <2> SUFFICES ASSUME NEW w \in Workers, at'[w] # "idle"
               PROVE  w \in owned' <=> ProcOf(w) \in consuming'
    BY DEF Connected, ProcOf, IsGo
  <2>1. CASE ProcOf(w) = p
    BY <2>1 DEF StopWorkers
  <2>2. CASE ProcOf(w) # p
    BY <1>2, <2>2 DEF IInv, Connected, Procs, ProcOf
  <2> QED
    BY <2>1, <2>2
<1>5. Claims'
  <2> SUFFICES ASSUME NEW w \in Workers PROVE Claim(w)'
    BY DEF Claims
  <2>1. CASE at'[w] = at[w] /\ msg'[w] = msg[w]
    BY <2>1 DEF IInv, Claims, Claim, Evaluated, Job, Accepted
  <2>2. CASE at'[w] = "idle"
    BY <2>2 DEF Claim
  <2> QED
    BY <1>1, <2>1, <2>2
<1>6. NothingIsDropped'
  <2> SUFFICES ASSUME NEW j \in Jobs
               PROVE  Evaluated(j) \/ j \in dlq \/ Queued(j)' \/ Held(j)'
    BY DEF NothingIsDropped, Evaluated
  <2>1. CASE Queued(j)
    BY <2>1 DEF Queued, IInv, TypeOK
  <2>2. CASE Held(j)
    <3>1. PICK w \in owned : Job(w) = j /\ at[w] # "ack"
      BY <2>2 DEF Held
    <3>2. w \in Workers /\ at[w] # "idle" /\ msg[w] \in Messages
      BY DEF IInv, TypeOK
    <3>3. CASE ProcOf(w) = p
      BY <3>1, <3>2, <3>3 DEF Queued, Job
    <3>4. CASE ProcOf(w) # p
      BY <1>2, <3>1, <3>2, <3>4 DEF Held, Job
    <3> QED
      BY <3>3, <3>4
  <2> QED
    BY <2>1, <2>2 DEF IInv, NothingIsDropped
<1>7. Arbitrated'
  <2> SUFFICES ASSUME redisErrors' = 0 PROVE Arbitrated'
    BY DEF Arbitrated
  <2>1. \A v \in Workers : at'[v] = "board" => at[v] = "board" /\ Pair(v)' = Pair(v)
    BY <1>1 DEF Pair, Job
  <2>2. \A v \in Workers : at'[v] = "board" => Pair(v)' \in solved' /\ credits'[Pair(v)'] = 0
    BY <2>1 DEF IInv, Arbitrated
  <2>3. \A u, v \in Workers :
          at'[u] = "board" /\ at'[v] = "board" /\ Pair(u)' = Pair(v)' => u = v
    BY <2>1 DEF IInv, Arbitrated
  <2> QED
    BY <2>2, <2>3 DEF IInv, Arbitrated
<1>8. CreditsAreEarned' /\ ProcessedIsEvaluated'
  BY DEF IInv, CreditsAreEarned, Accepted, ProcessedIsEvaluated, Evaluated
<1>9. TypeOK'
  BY <1>3, TypeParts, PTL
<1> QED
  BY <1>3, <1>4, <1>5, <1>6, <1>7, <1>8, <1>9 DEF IInv

-----------------------------------------------------------------------------
(* Settling.                                                               *)

LEMMA SettleStep ==
  ASSUME IInv, NEW w \in Workers, Settle(w)
  PROVE  IInv'
<1> USE DEF redis, effects
<1>1. at[w] \in {"ack", "retry"}
  BY DEF Settle, Ack, GiveUp, PublishRetry, RetryUnconfirmed, SettleLost
<1>2. /\ UNCHANGED <<redis, effects, asked, redisErrors>> /\ faults' \in Nat
  BY DEF Settle, Ack, GiveUp, PublishRetry, RetryUnconfirmed, SettleLost,
         Fault, NoFault, bounds, IInv, TypeOK
<1>3. TypedEffects'
  BY <1>2 DEF IInv, TypeOK, TypedEffects
<1>4. Job(w) \in Jobs /\ Retries(w) \in 0..MaxRetries /\ msg[w] \in Messages
  BY <1>1, WorkerFacts DEF IInv
<1>5. ASSUME Typed', Connected', NothingIsDropped', Alone(w), at'[w] \in {"idle", "ack"}
      PROVE  IInv'
  <2>1. Claim(w)'
    BY <1>5 DEF Claim
  <2> QED
    BY <1>2, <1>3, <1>5, <2>1, QuietStep
<1>6. CASE Ack(w)
  <2>1. Alone(w) /\ at'[w] = "idle"
    BY <1>2, <1>6, FinishFacts DEF IInv, Ack
  <2>2. Typed'
    BY <1>2, <1>6, FinishFacts DEF IInv, TypeOK, Typed, Ack
  <2>3. Connected'
    BY <1>6, <2>1 DEF IInv, Connected, Alone, Ack
  <2>4. NothingIsDropped'
    BY <1>6, <2>1, StillSafe DEF IInv, Ack
  <2> QED
    BY <1>5, <2>1, <2>2, <2>3, <2>4
<1>7. CASE GiveUp(w)
  BY <1>1, <1>2, <1>5, <1>7, DeadLetterStep DEF IInv, GiveUp
<1>8. CASE PublishRetry(w)
  <2> DEFINE copy == <<Job(w), Retries(w) + 1>>
  <2>1. copy \in Messages
    BY <1>4, <1>8 DEF PublishRetry, Messages
  <2>2. /\ queue' \in [Messages -> Nat] /\ queue'[copy] > 0
        /\ \A m \in Messages : queue[m] > 0 => queue'[m] > 0
    BY <1>8, <2>1 DEF PublishRetry, Copied, IInv, TypeOK
  <2>3. Alone(w) /\ at'[w] = "ack"
    BY <1>2, <1>8 DEF PublishRetry, Goto, Alone, IInv, TypeOK
  <2>4. Typed'
    BY <1>8, <2>2 DEF PublishRetry, Goto, IInv, TypeOK, Typed, Busy
  <2>5. Connected'
    BY <1>1, <1>8, <2>3 DEF IInv, Connected, Alone, PublishRetry
  <2>6. \A j \in Jobs : Job(w) = j => \E m \in Messages : m[1] = j /\ queue'[m] > 0
    BY <2>1, <2>2
  <2>7. NothingIsDropped'
    BY <1>8, <2>2, <2>3, <2>6, StillSafe DEF IInv, PublishRetry
  <2> QED
    BY <1>5, <2>3, <2>4, <2>5, <2>7
<1>9. CASE RetryUnconfirmed(w)
  <2>1. PICK q \in {queue, Copied(w)} : queue' = [q EXCEPT ![msg[w]] = @ + 1]
    BY <1>9 DEF RetryUnconfirmed
  <2>2. <<Job(w), Retries(w) + 1>> \in Messages
    BY <1>4, <1>9 DEF RetryUnconfirmed, Messages
  <2>3. q \in [Messages -> Nat] /\ \A m \in Messages : queue[m] <= q[m]
    BY <2>1, <2>2 DEF Copied, IInv, TypeOK
  <2>4. /\ queue' \in [Messages -> Nat] /\ queue'[msg[w]] > 0
        /\ \A m \in Messages : queue[m] <= queue'[m]
    BY <1>4, <2>1, <2>3 DEF IInv, TypeOK
  <2>5. Typed' /\ Connected' /\ NothingIsDropped' /\ Alone(w) /\ at'[w] = "idle"
    BY <1>1, <1>2, <1>9, <2>4, GiveBackStep DEF IInv, RetryUnconfirmed
  <2> QED
    BY <1>5, <2>5
<1>10. CASE SettleLost(w) /\ IsGo(w)
  <2>1. Finish(w) /\ UNCHANGED broker /\ w \notin owned
    BY <1>10 DEF SettleLost
  <2>2. Typed' /\ Connected' /\ NothingIsDropped' /\ Alone(w) /\ at'[w] = "idle"
    BY <1>1, <1>2, <2>1, GiveBackStep DEF IInv, TypeOK, broker
  <2> QED
    BY <1>5, <2>2
<1>11. CASE SettleLost(w) /\ ~IsGo(w)
  <2>1. StopWorkers("ts") /\ UNCHANGED broker /\ w \notin owned
    BY <1>11 DEF SettleLost
  <2>2. ProcOf(w) = "ts" /\ "ts" \in Procs
    BY <1>11 DEF ProcOf, Procs
  <2>3. "ts" \notin consuming
    BY <1>1, <2>1, <2>2 DEF IInv, Connected
  <2>4. \A v \in owned : ProcOf(v) # "ts"
    BY <2>3 DEF IInv, TypeOK, Connected
  <2>5. owned' = {v \in owned : ProcOf(v) # "ts"}
    BY <2>1, <2>4 DEF broker
  <2>6. queue' = queue /\ UNCHANGED dlq /\ consuming' = consuming
    BY <2>1 DEF broker
  <2>7. queue \in [Messages -> Nat] /\ consuming \in SUBSET Procs
    BY DEF IInv, TypeOK
  <2>8. \A m \in Messages : queue[m] <= queue'[m]
    BY <2>6, <2>7
  <2> QED
    BY <1>2, <1>3, <2>1, <2>2, <2>3, <2>4, <2>5, <2>6, <2>7, <2>8, StoppedStep
<1> QED
  BY <1>6, <1>7, <1>8, <1>9, <1>10, <1>11 DEF Settle

-----------------------------------------------------------------------------
(* The broker and the environment.                                         *)

LEMMA DeliverStep ==
  ASSUME IInv, NEW w \in Workers, NEW m \in Messages, Deliver(w, m)
  PROVE  IInv'
<1> USE DEF Deliver, redis, effects, bounds
<1>1. m[1] \in Jobs
  BY DEF Messages
<1>2. Alone(w) /\ at'[w] \in {"fetch", "check"} /\ msg'[w] = m /\ w \in owned'
  BY DEF Alone, IInv, TypeOK
<1>3. queue' \in [Messages -> Nat] /\ \A n \in Messages : n # m => queue'[n] = queue[n]
  BY DEF IInv, TypeOK
<1>4. Typed'
  BY <1>3 DEF Typed, IInv, TypeOK, Busy
<1>5. Connected'
  BY <1>2 DEF IInv, Connected, Alone
<1>6. NothingIsDropped'
  <2> SUFFICES ASSUME NEW j \in Jobs
               PROVE  Evaluated(j) \/ j \in dlq \/ Queued(j)' \/ Held(j)'
    BY DEF NothingIsDropped, Evaluated
  <2>1. CASE j = m[1]
    BY <1>2, <2>1 DEF Held, Job
  <2>2. CASE j # m[1] /\ Queued(j)
    BY <1>3, <2>2 DEF Queued
  <2>3. CASE Held(j)
    <3>1. PICK v \in owned : Job(v) = j /\ at[v] # "ack"
      BY <2>3 DEF Held
    <3>2. v # w /\ v \in Workers
      BY DEF IInv, TypeOK
    <3> QED
      BY <1>2, <3>1, <3>2 DEF Held, Job, Alone
  <2> QED
    BY <2>1, <2>2, <2>3 DEF IInv, NothingIsDropped
<1>7. Claim(w)'
  BY <1>2 DEF Claim
<1>8. TypedEffects'
  BY DEF IInv, TypeOK, TypedEffects
<1> QED
  BY <1>2, <1>4, <1>5, <1>6, <1>7, <1>8, QuietStep

\* Steps of no worker: what they do to the broker keeps every job somewhere.
LEMMA StandingStep ==
  ASSUME IInv, UNCHANGED <<at, msg, owned, consuming, solved, effects, redisErrors>>,
         queue' \in [Messages -> Nat], dlq' \in SUBSET Jobs, dlq \subseteq dlq',
         \A m \in Messages : queue[m] > 0 => queue'[m] > 0 \/ m[1] \in dlq',
         processed' \subseteq processed, TypedEffects'
  PROVE  IInv'
<1> USE DEF effects
<1>1. Typed'
  BY DEF IInv, TypeOK, Typed
<1>2. Claims' /\ Connected'
  BY DEF IInv, Claims, Claim, Connected, Evaluated, Job, Accepted, ProcOf
<1>3. NothingIsDropped'
  BY DEF IInv, NothingIsDropped, Evaluated, Queued, Held, Job
<1>4. CreditsAreEarned' /\ ProcessedIsEvaluated'
  BY DEF IInv, CreditsAreEarned, Accepted, ProcessedIsEvaluated, Evaluated
<1>5. Arbitrated'
  BY DEF IInv, Arbitrated, Pair, Job
<1>6. TypeOK'
  BY <1>1, TypeParts, PTL
<1> QED
  BY <1>2, <1>3, <1>4, <1>5, <1>6 DEF IInv

LEMMA DisconnectFacts ==
  ASSUME IInv, NEW p \in Procs, Disconnect(p)
  PROVE  /\ queue' \in [Messages -> Nat] /\ \A m \in Messages : queue[m] <= queue'[m]
         /\ \A w \in owned : ProcOf(w) = p => queue'[msg[w]] > 0
<1> USE DEF Disconnect
<1>1. ASSUME NEW m \in Messages
      PROVE  IsFiniteSet(Returned(p, m)) /\ Cardinality(Returned(p, m)) \in Nat
  <2>1. Returned(p, m) \subseteq Workers
    BY DEF Returned, IInv, TypeOK
  <2> QED
    BY <2>1, FS_Subset, FS_CardinalityType
<1>2. queue' \in [Messages -> Nat] /\ \A m \in Messages : queue[m] <= queue'[m]
  BY <1>1 DEF IInv, TypeOK
<1>3. ASSUME NEW w \in owned, ProcOf(w) = p PROVE queue'[msg[w]] > 0
  <2>1. w \in Returned(p, msg[w]) /\ msg[w] \in Messages
    BY <1>3 DEF Returned, IInv, TypeOK
  <2>2. Cardinality(Returned(p, msg[w])) > 0
    BY <1>1, <2>1, FS_EmptySet
  <2> QED
    BY <1>1, <2>1, <2>2 DEF IInv, TypeOK
<1> QED
  BY <1>2, <1>3

LEMMA ProcessStep ==
  ASSUME IInv, NEW p \in Procs, LoseConnection(p) \/ Crash(p) \/ Restart(p)
  PROVE  IInv'
<1>1. /\ UNCHANGED <<redis, effects, asked, redisErrors, dlq>> /\ TypedEffects'
      /\ consuming' \in SUBSET Procs
      /\ \A q \in Procs \ {p} : q \in consuming' <=> q \in consuming
  BY DEF LoseConnection, Crash, Restart, Disconnect, Fault, bounds, IInv, TypeOK,
         TypedEffects, redis, effects
<1>2. CASE Disconnect(p) /\ (StopWorkers(p) \/ UNCHANGED <<at, msg>>)
  <2>1. p \notin consuming' /\ owned' = {w \in owned : ProcOf(w) # p}
    BY <1>2 DEF Disconnect
  <2> QED
    BY <1>1, <1>2, <2>1, DisconnectFacts, StoppedStep
<1>3. CASE Restart(p)
  <2>1. StopWorkers(p) /\ UNCHANGED <<queue, owned>> /\ p \notin consuming
    BY <1>3 DEF Restart
  <2>2. \A w \in owned : ProcOf(w) # p
    BY <2>1 DEF IInv, TypeOK, Connected
  <2>3. owned' = {w \in owned : ProcOf(w) # p}
    BY <2>1, <2>2
  <2>4. queue' \in [Messages -> Nat] /\ \A m \in Messages : queue[m] <= queue'[m]
    BY <2>1 DEF IInv, TypeOK
  <2> QED
    BY <1>1, <2>1, <2>2, <2>3, <2>4, StoppedStep
<1> QED
  BY <1>2, <1>3 DEF LoseConnection, Crash

LEMMA EnvironmentStep ==
  ASSUME IInv, Environment
  PROVE  IInv'
<1>1. ASSUME NEW m \in Messages, Expire(m) PROVE IInv'
  <2>1. m[1] \in Jobs
    BY DEF Messages
  <2> QED
    BY <1>1, <2>1, StandingStep
       DEF Expire, IInv, TypeOK, TypedEffects, redis, effects, bounds
<1>2. ASSUME NEW j \in Jobs, PublishAgain(j) PROVE IInv'
  <2>1. <<j, 0>> \in Messages
    BY DEF Messages
  <2>2. queue' \in [Messages -> Nat] /\ \A m \in Messages : queue[m] > 0 => queue'[m] > 0
    BY <1>2, <2>1 DEF PublishAgain, IInv, TypeOK
  <2> QED
    BY <1>2, <2>2, StandingStep
       DEF PublishAgain, Fault, IInv, TypeOK, TypedEffects, redis, effects
<1>3. ASSUME NEW j \in Jobs, KeyExpires(j) \/ SetQueued(j) PROVE IInv'
  BY <1>3, StandingStep
     DEF KeyExpires, SetQueued, broker, IInv, TypeOK, TypedEffects, redis, effects, bounds
<1> QED
  BY <1>1, <1>2, <1>3, ProcessStep DEF Environment

LEMMA NextIInv == IInv /\ [Next]_vars => IInv'
<1> SUFFICES ASSUME IInv, [Next]_vars PROVE IInv'
  OBVIOUS
<1>1. ASSUME NEW w \in Workers, Handle(w) PROVE IInv'
  BY <1>1, CheckStep, FetchStep, RunStep, StoreStep, PersistStep, SolveStep,
     BoardStep, PlagiarismStep, MarkStep DEF Handle
<1>2. ASSUME UNCHANGED vars PROVE IInv'
  BY <1>2, StandingStep
     DEF vars, broker, IInv, TypeOK, TypedEffects, redis, effects, bounds
<1> QED
  BY <1>1, <1>2, SettleStep, DeliverStep, EnvironmentStep DEF Next

-----------------------------------------------------------------------------
\* The inductive invariant holds in every reachable state.
THEOREM EvaluationInvariant == Spec => []IInv
<1> QED
  BY InitIInv, NextIInv, PTL DEF Spec

\* Every variable keeps its type.
THEOREM EvaluationTypeCorrect == Spec => []TypeOK
<1>1. IInv => TypeOK
  BY DEF IInv
<1> QED
  BY <1>1, EvaluationInvariant, PTL

\* No order of failures, redeliveries, retries and acks drops a job.
THEOREM EvaluationDropsNothing == Spec => []NothingIsDropped
<1>1. IInv => NothingIsDropped
  BY DEF IInv
<1> QED
  BY <1>1, EvaluationInvariant, PTL

\* Credits and plagiarism checks follow committed accepted verdicts only.
THEOREM EvaluationCreditsAreEarned == Spec => []CreditsAreEarned
<1>1. IInv => CreditsAreEarned
  BY DEF IInv
<1> QED
  BY <1>1, EvaluationInvariant, PTL

\* While Redis answers, both services together credit a pair at most once.
THEOREM EvaluationCreditsOnce == Spec => []CreditedOnce
<1>1. IInv => CreditedOnce
  BY DEF IInv, Arbitrated, CreditedOnce
<1> QED
  BY <1>1, EvaluationInvariant, PTL
=============================================================================
