----------------------------- MODULE GrpcClient -----------------------------
(***************************************************************************)
(* The gRPC client of the Go evaluation service.  One gobreaker guards     *)
(* every call of the process, those to the core service and those to the   *)
(* leaderboard service alike.  The workers of the pool go through it with  *)
(* each job: GetProblem, the sandbox, PersistVerdict and, for an accepted  *)
(* submission of a contest, UpdateLeaderboard.                             *)
(*                                                                         *)
(* An outcome counts in the generation of counts its call began in; a new  *)
(* one begins with each change of state, and every Interval while closed.  *)
(* What the breaker does when its time is over, it does at the next call   *)
(* or answer.                                                              *)
(***************************************************************************)
EXTENDS Naturals, FiniteSets

CONSTANTS
  Workers,
  Threshold,          \* ConsecutiveFailures of ReadyToTrip
  MaxRequests,        \* calls that a half-open breaker lets through
  Interval, Timeout   \* until the counts are cleared, until it half-opens

VARIABLES
  breaker,  \* state, counts, time left
  at,       \* the call each worker is about to make, or waits for
  call,     \* of a waiting worker: whether its generation is the breaker's
  blamed,   \* ghost: workers of the failures that count, but of GetProblem
  others,   \* ghost: how many failures these are
  fetches,  \* ghost: a GetProblem that was sent has failed
  broad,    \* ghost: so many failures came from as many workers
  dead      \* ghost: a job went to the dead letters
vars == <<breaker, at, call, blamed, others, fetches, broad, dead>>

MaxOf(a, b) == IF a > b THEN a ELSE b
TypeOK ==
  /\ breaker \in [state : {"closed", "open", "half-open"}, requests : 0..MaxRequests,
                  failures : 0..Threshold, successes : 0..MaxRequests,
                  left : 0..MaxOf(Interval, Timeout)]
  /\ at \in [Workers -> {"idle", "fetch", "run", "persist", "board"}]
  /\ call \in [Workers -> {"none", "current", "old"}]
  /\ blamed \subseteq Workers /\ others \in 0..Threshold
  /\ fetches \in BOOLEAN /\ broad \in BOOLEAN /\ dead \in BOOLEAN

\* toNewGeneration
Fresh(s) ==
  [state |-> s, requests |-> 0, failures |-> 0, successes |-> 0,
   left |-> CASE s = "closed" -> Interval [] s = "open" -> Timeout [] OTHER -> 0]

Init ==
  /\ breaker = Fresh("closed")
  /\ at = [w \in Workers |-> "idle"] /\ call = [w \in Workers |-> "none"]
  /\ blamed = {} /\ others = 0
  /\ fetches = FALSE /\ broad = FALSE /\ dead = FALSE
-----------------------------------------------------------------------------
\* currentState
Lapsed == breaker.left = 0 /\ breaker.state # "half-open"
CurrentState ==
  IF ~Lapsed THEN breaker ELSE Fresh(IF breaker.state = "open" THEN "half-open" ELSE "closed")
Outdated(calls) == [w \in Workers |-> IF calls[w] = "current" THEN "old" ELSE calls[w]]

ReadyToTrip(b) == b.failures + 1 >= Threshold
OnSuccess(b) ==
  CASE b.state = "closed" -> [b EXCEPT !.failures = 0]
    [] b.state = "half-open" /\ b.successes + 1 >= MaxRequests -> Fresh("closed")
    [] OTHER -> [b EXCEPT !.successes = @ + 1]
OnFailure(b) ==
  IF b.state = "half-open" \/ ReadyToTrip(b) THEN Fresh("open") ELSE [b EXCEPT !.failures = @ + 1]

\* The handler goes on without what the call was for: a job whose problem is
\* not known is dead, one whose verdict is not stored is requeued, and one
\* whose points are not counted is acknowledged.
GiveUp(w) ==
  /\ at' = [at EXCEPT ![w] = "idle"]
  /\ dead' = (dead \/ at[w] = "fetch")

Take(w) == at[w] = "idle" /\ at' = [at EXCEPT ![w] = "fetch"]
           /\ UNCHANGED <<breaker, call, blamed, others, fetches, broad, dead>>

\* The sandbox; a job that only runs code ends here.
Run(w) ==
  /\ at[w] = "run"
  /\ \E next \in {"persist", "idle"} : at' = [at EXCEPT ![w] = next]
  /\ UNCHANGED <<breaker, call, blamed, others, fetches, broad, dead>>

\* beforeRequest
Begin(w) ==
  LET b == CurrentState
      refused == b.state = "open" \/ (b.state = "half-open" /\ b.requests >= MaxRequests)
      calls == IF Lapsed THEN Outdated(call) ELSE call IN
  /\ at[w] \in {"fetch", "persist", "board"} /\ call[w] = "none"
  /\ IF refused
     THEN GiveUp(w) /\ breaker' = b /\ call' = calls
     ELSE /\ breaker' = IF b.state = "half-open" THEN [b EXCEPT !.requests = @ + 1] ELSE b
          /\ call' = [calls EXCEPT ![w] = "current"]
          /\ UNCHANGED <<at, dead>>
  /\ blamed' = (IF Lapsed THEN {} ELSE blamed) /\ others' = IF Lapsed THEN 0 ELSE others
  /\ UNCHANGED <<fetches, broad>>

\* afterRequest.  A call fails when its service is down or slow, does not know
\* the problem, or refuses the verdict.
Answer(w, ok) ==
  LET b == CurrentState
      counts == call[w] = "current" /\ ~Lapsed
      after == IF ~counts THEN b ELSE IF ok THEN OnSuccess(b) ELSE OnFailure(b)
      fails == counts /\ ~ok
      tells == fails /\ b.state = "closed" /\ at[w] # "fetch"
      \* The workers and the failures, with this one.
      who == blamed \cup {w}
      renewed == Lapsed \/ after.state # b.state IN
  /\ call[w] # "none"
  /\ breaker' = after
  /\ call' = [(IF renewed THEN Outdated(call) ELSE call) EXCEPT ![w] = "none"]
  /\ blamed' = IF renewed \/ (counts /\ ok) THEN {} ELSE IF tells THEN who ELSE blamed
  /\ others' = IF renewed \/ (counts /\ ok) THEN 0 ELSE IF tells THEN others + 1 ELSE others
  /\ broad' = (broad \/ (tells /\ Cardinality(who) >= Threshold))
  /\ fetches' = (fetches \/ (~ok /\ at[w] = "fetch"))
  /\ IF ok
     THEN /\ \E next \in CASE at[w] = "fetch" -> {"run"}
                          [] at[w] = "persist" -> {"board", "idle"}
                          [] OTHER -> {"idle"} : at' = [at EXCEPT ![w] = next]
          /\ UNCHANGED dead
     ELSE GiveUp(w)

Tick ==
  /\ breaker.left > 0 /\ breaker' = [breaker EXCEPT !.left = @ - 1]
  /\ UNCHANGED <<at, call, blamed, others, fetches, broad, dead>>

Next ==
  \/ Tick
  \/ \E w \in Workers : Take(w) \/ Run(w) \/ Begin(w) \/ \E ok \in BOOLEAN : Answer(w, ok)
Spec == Init /\ [][Next]_vars
-----------------------------------------------------------------------------
(* While the core service answers GetProblem, a worker counts against the   *)
(* breaker at most once between two successes, whatever fails later in its  *)
(* jobs: the next job begins with a call that clears the count.  So no job  *)
(* is lost to the dead letters, not even when every verdict is refused or   *)
(* the leaderboard is down, before Threshold workers have failed in a row.  *)
DeadJobsAreBlamed ==
  /\ others = Cardinality(blamed)
  /\ dead /\ ~fetches => broad

(* A breaker that is half-open and full waits for an answer: it will close  *)
(* or open again and does not refuse for ever.                              *)
HalfOpenIsDecided ==
  breaker.state = "half-open" /\ breaker.requests = MaxRequests =>
    \E w \in Workers : call[w] = "current"
=============================================================================
