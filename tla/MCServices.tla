----------------------------- MODULE MCServices -----------------------------
(***************************************************************************)
(* Small instances for TLC of the components that do not interact: Init    *)
(* chooses which one a behaviour is about, and the others stay where they  *)
(* start.  Contests has two instances, one contest and two requests at a   *)
(* time, until it ends when a command failed ("narrow"), and two contests  *)
(* that overlap, one registration or submission at a time and no failure   *)
(* ("wide").  So has Standings: two submissions of a user and the page     *)
(* ("page"), and three submissions in the contest, or outside it with a    *)
(* profile or of two users ("table").                                      *)
(***************************************************************************)
EXTENDS Contests, Integers, Sequences, TLC
CONSTANTS
  c1,
  Ids, Words, Exempt, Offsets, Instances, MaxBoots, MaxLosses, i1, i2,
  Tests, MaxTests, timeLimit, oneSecond,
  Subs, Codes, K, W, Percent, MaxRetries,
  MAX_RETRIES, MaxDrops,
  Nodes, failureThreshold, recoveryTimeout, halfOpenMaxAttempts, MaxCalls,
  Hosts, Skew, fast, maxTokens, CoreTtl, GatewayTtl, LimitTime, MaxErrors,
  Entrants, limit, Tasks, Difficulty, maxScore, easy, startTime, Penalty, MaxRows, MaxFetches,
  Callers, None0, Pending, MaxAgain, MaxExcuses,
  SagaSteps, MaxRuns,
  Rankers, Points, MAX_PENALTY_MINS, EndTime, BoardTime, MaxSolves, Captures,
  Emails, Browsers, Posts, BrowserOf, b1, b2, r3, LastSecond,
  Pool, Threshold, MaxRequests, Interval, Timeout

\* What the code gives the parameters: its counts and limits are positive, its
\* bounds and times are natural numbers.
ASSUME BloomAssumption == MaxBoots \in Nat /\ MaxLosses \in Nat
ASSUME PlagiarismAssumption ==
  /\ Codes \subseteq Seq(Int) /\ K \in Nat \ {0} /\ W \in Nat \ {0} /\ Percent \in Nat \ {0}
  /\ MaxRetries \in Nat
ASSUME ConnectionAssumption == MAX_RETRIES \in Nat \ {0} /\ MaxDrops \in Nat
ASSUME BreakerAssumption ==
  /\ failureThreshold \in Nat \ {0} /\ halfOpenMaxAttempts \in Nat \ {0}
  /\ recoveryTimeout \in Nat /\ MaxCalls \in Nat /\ MaxTime \in Nat \ {0}
\* A key outlives the refill of its bucket by more than the clocks differ and any
\* request waits for Redis.
ASSUME RateLimitAssumption ==
  /\ Skew \in [Hosts -> Nat] /\ \E f \in Hosts : \A h \in Hosts : Skew[h] <= Skew[f]
  /\ maxTokens \in Nat \ {0} /\ LimitTime \in Nat /\ MaxErrors \in Nat
  /\ CoreTtl \in Nat /\ GatewayTtl \in Nat
  /\ \A h \in Hosts : maxTokens + Skew[h] <= CoreTtl /\ maxTokens + Skew[h] <= GatewayTtl
\* Nothing sets a problem's points, which default to 100.
ASSUME StandingsAssumption ==
  /\ IsFiniteSet(Entrants) /\ IsFiniteSet(Tasks) /\ limit \in Nat \ {0}
  /\ maxScore \in [Tasks -> Nat \ {0}] /\ startTime \in Nat /\ Penalty \in Nat
  /\ MaxRows \in Nat /\ MaxFetches \in Nat \ {0}
ASSUME IdempotencyAssumption ==
  /\ IsFiniteSet(Callers) /\ None0 \notin Callers /\ Pending \notin Callers /\ None0 # Pending
  /\ MaxAgain \in Nat /\ MaxExcuses \in Nat
ASSUME SagaAssumption == SagaSteps \in Nat /\ MaxRuns \in Nat
ASSUME AccountsAssumption ==
  "none" \notin Emails /\ BrowserOf \in [Posts -> Browsers] /\ LastSecond \in Nat
ASSUME GrpcAssumption ==
  /\ IsFiniteSet(Pool) /\ Threshold \in Nat \ {0} /\ MaxRequests \in Nat \ {0}
  /\ Interval \in Nat \ {0} /\ Timeout \in Nat \ {0}

\* Twice the penalty stays below the maximum that the fraction has room for.
ASSUME ArchiveAssumption ==
  /\ IsFiniteSet(Rankers) /\ Rankers \subseteq Int /\ Points \subseteq Nat
  /\ EndTime \in Nat /\ BoardTime \in Nat /\ MaxSolves \in Nat /\ MAX_PENALTY_MINS \in Nat
  /\ 2 * EndTime < MAX_PENALTY_MINS /\ BoardTime < MAX_PENALTY_MINS

VARIABLES
  part,
  rows, adds, bits, boot, boots, losses, orphans,
  tests, compiles, mode, at, by, report,
  code, stored, check, tries, read, reports, mishaps, unwritten,
  up, connection, channel, phase, retries, timer, shuttingDown, drops, gaveUp, consuming,
  time, state, failureCount, successCount, lastFailureTime, calls, inbox, outcomes, probes,
  clock, bucket, admitted, unchecked,
  submissions, credited, owed, stream, fetches, shown, served, profile, hitches,
  slot, caller, got, retried, ran, excuses, trouble,
  status, step, doing, runs, effects, halfway, stuck,
  minute, tried, solves, board, capture, snapshots,
  second, people, jar, req, worn, spent, late,
  fuse, station, sent, blamed, others, missed, broad, dead

bloomVars == <<rows, adds, bits, boot, boots, losses, orphans>>
judgeVars == <<tests, compiles, mode, at, by, report>>
plagiarismVars == <<code, stored, check, tries, read, reports, mishaps, unwritten>>
connectionVars ==
  <<up, connection, channel, phase, retries, timer, shuttingDown, drops, gaveUp, consuming>>
breakerVars == <<time, state, failureCount, successCount, lastFailureTime, calls, inbox,
                 outcomes, probes>>
limitVars == <<clock, bucket, admitted, unchecked>>
standingsVars ==
  <<submissions, credited, owed, stream, fetches, shown, served, profile, hitches>>
idempotencyVars == <<slot, caller, got, retried, ran, excuses, trouble>>
sagaVars == <<status, step, doing, runs, effects, halfway, stuck>>
boardVars == <<minute, tried, solves, board, capture, snapshots>>
accountVars == <<second, people, jar, req, worn, spent, late>>
grpcVars == <<fuse, station, sent, blamed, others, missed, broad, dead>>

MCStart == [c \in Contests |-> 1]
MCEnd == [c \in Contests |-> IF c = c1 THEN 2 ELSE 1]
Symmetry == Permutations(Calls) \cup Permutations(Nodes)

\* Two rows share a bit; the word a route begins with has one of each.
MCOffsets == [i \in Ids |-> CASE i = i1 -> {1, 2} [] i = i2 -> {2, 3} [] OTHER -> {1, 4}]
Filter == INSTANCE Bloom

\* The limits are 4 and 6: a test is within both, though three together are not, or
\* between them, and ends in one of four ways.
MCTests == {t \in [time : {3, 5}, exit : {0, 1, 124, 137}, out : {"right", "noisy", "wrong"}] :
              t.exit # 0 => t.out = "right"}
Sandbox == INSTANCE Judge
ASSUME JudgeAssumption == Tests \subseteq Sandbox!AllTests /\ MaxTests \in Nat
                          /\ timeLimit \in Nat /\ oneSecond \in Nat \ {0}

MCCodes == UNION {[1..n -> {1, 2}] : n \in 2..4}
Checks == INSTANCE Plagiarism WITH at <- check, faults <- mishaps

Rabbit == INSTANCE Connection

Circuit == INSTANCE Breaker WITH now <- time

MCSkew == [h \in Hosts |-> IF h = fast THEN 1 ELSE 0]
Limiter == INSTANCE RateLimit WITH now <- clock, MaxTime <- LimitTime

\* Two problems, an easy one and a hard one of other points.
MCDifficulty == [p \in Tasks |-> IF p = easy THEN "EASY" ELSE "HARD"]
MCmaxScore == [p \in Tasks |-> IF p = easy THEN 1 ELSE 2]
Table == INSTANCE Standings WITH Users <- Entrants, Problems <- Tasks, rows <- submissions, faults <- hitches

\* Which submissions are of the same user, the first one's.
First == CHOOSE u \in Entrants : TRUE
By(is) == \A i \in is \cap DOMAIN submissions' : submissions'[i].user = First

Once == INSTANCE Idempotency WITH None <- None0, at <- caller, faults <- trouble,
                                  MaxRetries <- MaxAgain, MaxFaults <- MaxExcuses

Undo == INSTANCE Saga WITH i <- step, mode <- doing, N <- SagaSteps

Board == INSTANCE Archive WITH Users <- Rankers, MaxTime <- BoardTime

\* Two requests of one browser, and one of another that only signs in.
MCBrowserOf == [r \in Posts |-> IF r = r3 THEN b2 ELSE b1]
Entry == INSTANCE Accounts WITH now <- second, users <- people, excused <- worn,
                                Requests <- Posts, MaxTime <- LastSecond

Client == INSTANCE GrpcClient WITH Workers <- Pool, breaker <- fuse, at <- station,
                                   call <- sent, fetches <- missed

Parts == {"narrow", "wide", "bloom", "judge", "plagiarism", "connection", "breaker", "limit",
          "page", "table", "idempotency", "saga", "board",
          "accounts", "grpc"}

MCInit ==
  /\ part \in Parts
  /\ Init /\ Filter!Init /\ Circuit!Init /\ Limiter!Init /\ Table!Init /\ Once!Init /\ Undo!Init
  /\ Board!Init /\ Entry!Init /\ Client!Init
  /\ part = "judge" \/ (tests = <<>> /\ compiles = TRUE /\ mode = "run")
  /\ part = "plagiarism" \/ code = [s \in Subs |-> <<1, 1>>]
  /\ part = "connection" \/ up = TRUE
  /\ Sandbox!Init /\ Checks!Init /\ Rabbit!Init

Still(parts, variables) == IF part \in parts THEN TRUE ELSE UNCHANGED variables
Rest ==
  /\ UNCHANGED part
  /\ Still({"narrow", "wide"}, vars) /\ Still({"bloom"}, bloomVars)
  /\ Still({"judge"}, judgeVars) /\ Still({"plagiarism"}, plagiarismVars)
  /\ Still({"connection"}, connectionVars) /\ Still({"breaker"}, breakerVars)
  /\ Still({"limit"}, limitVars) /\ Still({"page", "table"}, standingsVars)
  /\ Still({"idempotency"}, idempotencyVars) /\ Still({"saga"}, sagaVars)
  /\ Still({"board"}, boardVars) /\ Still({"accounts"}, accountVars)
  /\ Still({"grpc"}, grpcVars)

MCNext ==
  \/ /\ part = "narrow" /\ Next /\ contests' \subseteq {c1} /\ Rest
     /\ faults' = 0 \/ now' < MaxTime
  \/ /\ part = "wide" /\ Next
     /\ Cardinality({r \in Calls : call'[r] # Idle}) <= 1 /\ faults' = 0
     /\ \A r \in Calls : call'[r] # Idle => call'[r].op \in {"register", "submit"}
     /\ Rest
  \/ part = "bloom" /\ Filter!Next /\ Rest
  \/ part = "judge" /\ Sandbox!Next /\ Rest
  \/ part = "plagiarism" /\ Checks!Next /\ Rest
  \/ part = "connection" /\ Rabbit!Next /\ Rest
  \/ part = "breaker" /\ Circuit!Next /\ Rest
  \/ /\ part = "limit" /\ Limiter!Next /\ Rest
     /\ \E l \in Limiter!Limiters : bucket'[l] = Limiter!NoBucket /\ admitted'[l] = 0
  \/ /\ part = "page" /\ Table!Next /\ Rest
     /\ Len(submissions') < MaxRows /\ UNCHANGED profile
     /\ By(DOMAIN submissions') /\ \A i \in DOMAIN submissions' : submissions'[i].contest
  \/ /\ part = "table" /\ Table!Next /\ Rest
     /\ UNCHANGED <<stream, served, hitches>> /\ owed' >= owed
     /\ By({1}) /\ (By(DOMAIN submissions') \/ profile' = Table!NoProfile)
     /\ \/ By(DOMAIN submissions') /\ profile' = Table!NoProfile
        \/ \A i \in DOMAIN submissions' : ~submissions'[i].contest
  \/ part = "idempotency" /\ Once!Next /\ Rest
  \/ part = "saga" /\ Undo!Next /\ Rest
  \/ part = "board" /\ Board!Next /\ Rest
  \/ /\ part = "accounts" /\ Entry!Next /\ Rest
     /\ req'[r3].at = "find" => req'[r3].op = "signIn"
  \/ part = "grpc" /\ Client!Next /\ Rest

allVars == <<part, vars, bloomVars, judgeVars, plagiarismVars, connectionVars, breakerVars,
             limitVars, standingsVars, idempotencyVars, sagaVars, boardVars, accountVars, grpcVars>>
MCSpec == MCInit /\ [][MCNext]_allVars
-----------------------------------------------------------------------------
\* The other components are where they started.
In(parts, P) == part \in parts => P

(* Every variable of every component has its type.                         *)
PartsTypeOK ==
  /\ In({"narrow", "wide"}, TypeOK) /\ In({"bloom"}, Filter!TypeOK)
  /\ In({"judge"}, Sandbox!TypeOK) /\ In({"plagiarism"}, Checks!TypeOK)
  /\ In({"connection"}, Rabbit!TypeOK) /\ In({"breaker"}, Circuit!TypeOK)
  /\ In({"limit"}, Limiter!TypeOK) /\ In({"page", "table"}, Table!TypeOK)
  /\ In({"idempotency"}, Once!TypeOK) /\ In({"saga"}, Undo!TypeOK)
  /\ In({"board"}, Board!TypeOK) /\ In({"accounts"}, Entry!TypeOK)
  /\ In({"grpc"}, Client!TypeOK)

(* What was derived from the rows (a cached answer, the bits of the filter, *)
(* the standings on a page, a snapshot of a leaderboard, the cookie of a    *)
(* browser) disagrees with them only for a reason that Contests, Bloom,     *)
(* Standings, Archive and Accounts name; and what is computed from them in  *)
(* different ways agrees.                                                   *)
CopiesAreExplained ==
  /\ In({"narrow", "wide"}, StaleIsARace) /\ In({"bloom"}, Filter!BlockedIsExplained)
  /\ In({"page", "table"}, Table!PageCatchesUp /\ Table!ViewsAgree)
  /\ In({"board"}, Board!SnapshotsAreBoards /\ Board!ScoresRank)
  /\ In({"accounts"}, Entry!CookieIsCurrent /\ Entry!SpentStaysSpent)

(* Somebody never registered passes the gate only near the start (Contests).*)
GateIsClosed == In({"narrow", "wide"}, OutsidersOnlyNearTheStart)

(* A standing never gets worse, but for two races (Standings).              *)
StandingsOnlyImprove ==
  [][In({"page", "table"}, Table!Improves)]_standingsVars

(* A verdict means what it says, whichever service gave it (Judge).         *)
VerdictsAreDeserved == In({"judge"}, Sandbox!VerdictsAreDeserved)

(* Similar submissions are reported, and only they (Plagiarism).            *)
ReportsAreRight == In({"plagiarism"}, Checks!PairsAreReported /\ Checks!ReportsAreFounded)

(* A process without a working channel is on its way to one (Connection).   *)
ConnectionIsMinded == In({"connection"}, Rabbit!ConnectionIsMinded)

(* The counters of both breakers, the buckets' tokens, what an idempotency  *)
(* key admits and what a saga leaves behind stay right although outcomes    *)
(* come late, messages get lost and clocks differ (Breaker, GrpcClient,     *)
(* RateLimit, Idempotency, Saga).                                           *)
GuardsKeepCount ==
  /\ In({"breaker"}, Circuit!BreakerIsConsistent) /\ In({"limit"}, Limiter!AdmittedWithinRate)
  /\ In({"idempotency"}, Once!RunsAreExcused) /\ In({"saga"}, Undo!LeftBehind)
  /\ In({"grpc"}, Client!DeadJobsAreBlamed /\ Client!HalfOpenIsDecided)
=============================================================================
