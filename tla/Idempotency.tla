---------------------------- MODULE Idempotency ----------------------------
(***************************************************************************)
(* withIdempotency for one key: the caller that claims it runs fn and      *)
(* stores its result, the others poll until there is one.  A caller whose  *)
(* wait times out starts over.  No path of the program takes it yet:       *)
(* submitSolutionWithIdempotency, its only use, has no caller.             *)
(***************************************************************************)
EXTENDS Naturals, FiniteSets

CONSTANTS
  Callers,
  None, Pending,   \* two values that are not callers: what the key can hold
                   \* besides a result
  MaxRetries,      \* bound on calls made again after an error
  MaxFaults        \* bound on expiries, crashes and failed Redis commands

VARIABLES
  slot,     \* the key: None, Pending, or the caller whose result it is
  at, got,  \* of each caller: where it is, and the result it returned
  retried,
  ran,      \* ghost: how often fn has succeeded
  excuses,  \* ghost: expiries, and results that could not be stored
  faults
vars == <<slot, at, got, retried, ran, excuses, faults>>

TypeOK ==
  /\ slot \in {None, Pending} \cup Callers
  /\ at \in [Callers -> {"claim", "wait", "run", "store", "release", "done", "failed"}]
  /\ got \in [Callers -> {None} \cup Callers]
  /\ retried \in 0..MaxRetries /\ faults \in 0..MaxFaults
  /\ ran \in Nat /\ excuses \in 0..MaxFaults

Init ==
  /\ slot = None /\ at = [c \in Callers |-> "claim"] /\ got = [c \in Callers |-> None]
  /\ retried = 0 /\ ran = 0 /\ excuses = 0 /\ faults = 0
-----------------------------------------------------------------------------
Move(c, from, to) == at[c] = from /\ at' = [at EXCEPT ![c] = to]

\* SET key '"PENDING"' EX ttl NX
Claim(c) ==
  /\ IF slot = None THEN Move(c, "claim", "run") /\ slot' = Pending
                    ELSE Move(c, "claim", "wait") /\ UNCHANGED slot
  /\ UNCHANGED <<got, retried, ran, excuses, faults>>

\* waitForResult: a result, nothing any more, or five seconds of "PENDING".
SeeResult(c) ==
  /\ slot \in Callers
  /\ Move(c, "wait", "done") /\ got' = [got EXCEPT ![c] = slot]
  /\ UNCHANGED <<slot, retried, ran, excuses, faults>>
StartOver(c) ==
  /\ slot \notin Callers
  /\ Move(c, "wait", "claim")
  /\ UNCHANGED <<slot, got, retried, ran, excuses, faults>>

FnSucceeds(c) ==
  /\ Move(c, "run", "store") /\ ran' = ran + 1
  /\ UNCHANGED <<slot, got, retried, excuses, faults>>
FnFails(c) ==
  /\ Move(c, "run", "release")
  /\ UNCHANGED <<slot, got, retried, ran, excuses, faults>>

Store(c) ==
  /\ Move(c, "store", "done")
  /\ slot' = c /\ got' = [got EXCEPT ![c] = c]
  /\ UNCHANGED <<retried, ran, excuses, faults>>
StoreFails(c) ==
  /\ faults < MaxFaults /\ faults' = faults + 1
  /\ Move(c, "store", "release") /\ excuses' = excuses + 1
  /\ UNCHANGED <<slot, got, retried, ran>>

\* The catch deletes the key, whoever holds it by now.
Release(c) ==
  /\ Move(c, "release", "failed") /\ slot' = None
  /\ UNCHANGED <<got, retried, ran, excuses, faults>>

\* The delete fails, or the process dies: the claim stays until it expires.
Abandon(c) ==
  /\ faults < MaxFaults /\ faults' = faults + 1
  /\ \E from \in {"run", "store", "release"} : Move(c, from, "failed")
  /\ UNCHANGED <<slot, got, retried, ran, excuses>>

Expire ==
  /\ faults < MaxFaults /\ faults' = faults + 1
  /\ slot # None /\ slot' = None /\ excuses' = excuses + 1
  /\ UNCHANGED <<at, got, retried, ran>>

CallAgain(c) ==
  /\ retried < MaxRetries /\ retried' = retried + 1
  /\ Move(c, "failed", "claim")
  /\ UNCHANGED <<slot, got, ran, excuses, faults>>

Next ==
  \/ Expire
  \/ \E c \in Callers :
       \/ Claim(c) \/ SeeResult(c) \/ StartOver(c) \/ FnSucceeds(c) \/ FnFails(c)
       \/ Store(c) \/ StoreFails(c) \/ Release(c) \/ Abandon(c) \/ CallAgain(c)
Spec == Init /\ [][Next]_vars
-----------------------------------------------------------------------------
(* fn succeeds once, and once more for each time that the key expired or a  *)
(* result could not be stored, although a caller that fails deletes the key *)
(* of whoever holds it; and while nothing of that kind has happened all who *)
(* return, return one result.                                               *)
RunsAreExcused ==
  /\ ran <= 1 + excuses
  /\ excuses = 0 => Cardinality({got[c] : c \in Callers} \ {None}) <= 1
=============================================================================
