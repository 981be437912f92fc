-------------------------------- MODULE Saga --------------------------------
(***************************************************************************)
(* Saga: steps executed in order, and compensated backwards when one       *)
(* fails; execute() may be called again on the same saga.  Nothing in the  *)
(* repository constructs one yet.                                          *)
(***************************************************************************)
EXTENDS Naturals

CONSTANTS N, MaxRuns   \* steps, and bound on the calls of execute()

VARIABLES
  status,   \* of each step
  i, mode,  \* the loop under way: "execute", "compensate", or "done", "failed", "new"
  runs,
  effects,  \* how often each step has taken effect and was not compensated
  halfway,  \* ghost: effects of executions that ended with an error
  stuck     \* ghost: compensations that failed
vars == <<status, i, mode, runs, effects, halfway, stuck>>
Steps == 1..N

TypeOK ==
  /\ status \in [Steps -> {"PENDING", "COMPLETED", "FAILED", "COMPENSATED", "COMPENSATION_FAILED"}]
  /\ i \in 0..N + 1 /\ mode \in {"new", "execute", "compensate", "done", "failed"}
  /\ runs \in 0..MaxRuns
  /\ {effects, halfway, stuck} \subseteq [Steps -> 0..MaxRuns]

Init ==
  /\ status = [s \in Steps |-> "PENDING"] /\ i = 0 /\ mode = "new" /\ runs = 0
  /\ effects = [s \in Steps |-> 0] /\ halfway = effects /\ stuck = effects
-----------------------------------------------------------------------------
\* A saga that succeeded can be executed again as well.
Execute ==
  /\ mode \in {"new", "done", "failed"} /\ runs < MaxRuns /\ runs' = runs + 1
  /\ status' = [s \in Steps |-> "PENDING"]
  /\ i' = 1 /\ mode' = "execute"
  /\ UNCHANGED <<effects, halfway, stuck>>

StepSucceeds ==
  /\ mode = "execute" /\ i <= N
  /\ status' = [status EXCEPT ![i] = "COMPLETED"]
  /\ effects' = [effects EXCEPT ![i] = @ + 1]
  /\ i' = i + 1
  /\ UNCHANGED <<mode, runs, halfway, stuck>>

\* An error, after the step took effect (a lost answer) or before.
StepFails(tookEffect) ==
  /\ mode = "execute" /\ i <= N
  /\ status' = [status EXCEPT ![i] = "FAILED"]
  /\ mode' = "compensate"
  /\ IF tookEffect THEN /\ effects' = [effects EXCEPT ![i] = @ + 1]
                        /\ halfway' = [halfway EXCEPT ![i] = @ + 1]
                   ELSE UNCHANGED <<effects, halfway>>
  /\ UNCHANGED <<i, runs, stuck>>

Finish ==
  /\ \/ mode = "execute" /\ i = N + 1 /\ mode' = "done"
     \/ mode = "compensate" /\ i = 0 /\ mode' = "failed"
  /\ UNCHANGED <<status, i, runs, effects, halfway, stuck>>

\* Only steps of this execution qualify: execute() has reset the others.
Compensate(succeeds) ==
  /\ mode = "compensate" /\ i > 0 /\ i' = i - 1
  /\ IF status[i] \notin {"COMPLETED", "COMPENSATION_FAILED"}
     THEN UNCHANGED <<status, effects, stuck>>
     ELSE IF succeeds
     THEN /\ status' = [status EXCEPT ![i] = "COMPENSATED"]
          /\ effects' = [effects EXCEPT ![i] = @ - 1]
          /\ UNCHANGED stuck
     ELSE /\ status' = [status EXCEPT ![i] = "COMPENSATION_FAILED"]
          /\ stuck' = [stuck EXCEPT ![i] = @ + 1]
          /\ UNCHANGED effects
  /\ UNCHANGED <<mode, runs, halfway>>

Next ==
  \/ Execute \/ StepSucceeds \/ Finish
  \/ \E b \in BOOLEAN : StepFails(b) \/ Compensate(b)
Spec == Init /\ [][Next]_vars
-----------------------------------------------------------------------------
(* A saga that failed leaves behind exactly the effects of steps that       *)
(* failed after taking effect and of compensations that failed, in this     *)
(* execution or an earlier one, unless an earlier one succeeded: executing  *)
(* again does not run a failed compensation again.                          *)
LeftBehind ==
  mode = "failed" =>
    \E won \in 0..MaxRuns : \A s \in Steps : effects[s] = won + halfway[s] + stuck[s]
=============================================================================
