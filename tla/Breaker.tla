------------------------------ MODULE Breaker ------------------------------
(***************************************************************************)
(* CircuitBreaker of core/src/utils/circuitBreaker, in the instances of    *)
(* the evaluation service that call the core: one breaker per instance,    *)
(* and the message circuit-breaker:sync by which an instance that opens    *)
(* opens the others.  Calls overlap, so an outcome may arrive in any       *)
(* state.  reset() has no caller, so only OPEN is ever sent.               *)
(***************************************************************************)
EXTENDS Naturals

CONSTANTS
  Nodes,
  failureThreshold, recoveryTimeout, halfOpenMaxAttempts,
  MaxCalls, MaxTime   \* bounds on the calls under way and on the clock

VARIABLES
  now,
  state, failureCount, successCount, lastFailureTime,
  calls,     \* calls under way
  inbox,     \* OPEN messages under way to each instance, its own included
  outcomes,  \* ghost: since it last opened, has any call succeeded
  probes     \* ghost: successes since it last half-opened
vars == <<now, state, failureCount, successCount, lastFailureTime, calls, inbox, outcomes, probes>>
counts == <<failureCount, lastFailureTime>>

TypeOK ==
  /\ now \in 0..MaxTime
  /\ state \in [Nodes -> {"CLOSED", "OPEN", "HALF_OPEN"}]
  /\ failureCount \in [Nodes -> Nat] /\ successCount \in [Nodes -> 0..halfOpenMaxAttempts]
  /\ lastFailureTime \in [Nodes -> 0..MaxTime]
  /\ calls \in [Nodes -> 0..MaxCalls] /\ inbox \in [Nodes -> Nat]
  /\ outcomes \in [Nodes -> BOOLEAN] /\ probes \in [Nodes -> 0..halfOpenMaxAttempts]

Init ==
  /\ now = 1
  /\ state = [n \in Nodes |-> "CLOSED"]
  /\ failureCount = [n \in Nodes |-> 0] /\ successCount = [n \in Nodes |-> 0]
  /\ lastFailureTime = [n \in Nodes |-> 0]
  /\ calls = [n \in Nodes |-> 0] /\ inbox = [n \in Nodes |-> 0]
  /\ outcomes = [n \in Nodes |-> FALSE] /\ probes = [n \in Nodes |-> 0]
-----------------------------------------------------------------------------
HalfOpens(n) == state[n] = "OPEN" /\ now - lastFailureTime[n] >= recoveryTimeout

\* getState(), which every call, message and look at the metrics begins with.
ForgetToReset(n) ==   \* Mutant: the successes of the last time still count.
  /\ HalfOpens(n)
  /\ state' = [state EXCEPT ![n] = "HALF_OPEN"]
  /\ probes' = [probes EXCEPT ![n] = 0]
  /\ UNCHANGED <<now, counts, successCount, calls, inbox, outcomes>>
GetState(n) ==
  /\ HalfOpens(n)
  /\ state' = [state EXCEPT ![n] = "HALF_OPEN"]
  /\ successCount' = [successCount EXCEPT ![n] = 0]
  /\ probes' = [probes EXCEPT ![n] = 0]
  /\ UNCHANGED <<now, counts, calls, inbox, outcomes>>

\* execute(): nothing limits the calls of a half-open breaker.
Call(n) ==
  /\ state[n] # "OPEN" /\ calls[n] < MaxCalls
  /\ calls' = [calls EXCEPT ![n] = @ + 1]
  /\ UNCHANGED <<now, state, counts, successCount, inbox, outcomes, probes>>

Ends(n) == calls[n] > 0 /\ calls' = [calls EXCEPT ![n] = @ - 1]

OnSuccess(n) ==
  /\ Ends(n)
  /\ failureCount' = [failureCount EXCEPT ![n] = 0]
  /\ outcomes' = [outcomes EXCEPT ![n] = TRUE]
  /\ IF state[n] = "HALF_OPEN"
     THEN /\ successCount' = [successCount EXCEPT ![n] = @ + 1]
          /\ probes' = [probes EXCEPT ![n] = @ + 1]
          /\ state' = IF successCount'[n] >= halfOpenMaxAttempts
                      THEN [state EXCEPT ![n] = "CLOSED"] ELSE state
     ELSE UNCHANGED <<state, successCount, probes>>
  /\ UNCHANGED <<now, lastFailureTime, inbox>>

\* The clock of an outcome is the outcome's, whenever its call began.
OnFailure(n) ==
  /\ Ends(n)
  /\ failureCount' = [failureCount EXCEPT ![n] = @ + 1]
  /\ lastFailureTime' = [lastFailureTime EXCEPT ![n] = now]
  /\ IF failureCount'[n] >= failureThreshold /\ state[n] # "OPEN"
     THEN /\ state' = [state EXCEPT ![n] = "OPEN"]
          /\ inbox' = [m \in Nodes |-> inbox[m] + 1]
          /\ outcomes' = [outcomes EXCEPT ![n] = FALSE]
     ELSE UNCHANGED <<state, inbox, outcomes>>
  /\ UNCHANGED <<now, successCount, probes>>

\* forceState(OPEN), for whoever is not open by then; or pub/sub loses it.
Hear(n) ==
  /\ inbox[n] > 0 /\ inbox' = [inbox EXCEPT ![n] = @ - 1]
  /\ ~HalfOpens(n)
  /\ IF state[n] = "OPEN" THEN UNCHANGED <<state, counts, outcomes>>
     ELSE /\ state' = [state EXCEPT ![n] = "OPEN"]
          /\ failureCount' = [failureCount EXCEPT ![n] = failureThreshold]
          /\ lastFailureTime' = [lastFailureTime EXCEPT ![n] = now]
          /\ outcomes' = [outcomes EXCEPT ![n] = FALSE]
  /\ UNCHANGED <<now, successCount, calls, probes>>
LoseMessage(n) ==
  /\ inbox[n] > 0 /\ inbox' = [inbox EXCEPT ![n] = @ - 1]
  /\ UNCHANGED <<now, state, counts, successCount, calls, outcomes, probes>>

Tick ==
  /\ now < MaxTime /\ now' = now + 1
  /\ UNCHANGED <<state, counts, successCount, calls, inbox, outcomes, probes>>

Next ==
  \/ Tick
  \/ \E n \in Nodes : \/ GetState(n) \/ Call(n) \/ OnSuccess(n) \/ OnFailure(n)
                      \/ Hear(n) \/ LoseMessage(n)
Spec == Init /\ [][Next]_vars
-----------------------------------------------------------------------------
(* Late outcomes and messages do not confuse the counters.  A breaker that  *)
(* lets calls through is below its threshold, or half-open with no success  *)
(* since it opened: the next failure opens it, unless a success, which may  *)
(* be that of a call from before the outage, has made it forget.  It closes *)
(* only after enough successes since it last half-opened.                   *)
BreakerIsConsistent ==
  \A n \in Nodes :
    /\ state[n] = "CLOSED" => failureCount[n] < failureThreshold
    /\ state[n] # "CLOSED" /\ ~outcomes[n] => failureCount[n] >= failureThreshold
    /\ state[n] = "HALF_OPEN" => successCount[n] = probes[n]
=============================================================================
