------------------------------ MODULE Delivery ------------------------------
(***************************************************************************)
(* What the transactional outbox promises, without rows, transactions,     *)
(* locks or timers.  A message is accepted once, copies of it may reach    *)
(* the broker while it is open, and it is settled once and for all: as     *)
(* published, which takes a copy at the broker (or a refusal that nobody   *)
(* heard), or as failed.                                                   *)
(***************************************************************************)
EXTENDS Naturals

CONSTANT Msgs

VARIABLES phase,    \* what the sender records of each message
          copies,   \* copies of each message the broker has taken
          unheard   \* messages the broker refused without the sender noticing

vars == <<phase, copies, unheard>>

Phases == {"unknown", "open", "published", "failed"}

TypeOK ==
  /\ phase \in [Msgs -> Phases]
  /\ copies \in [Msgs -> Nat]
  /\ unheard \subseteq Msgs

Init ==
  /\ phase = [m \in Msgs |-> "unknown"]
  /\ copies = [m \in Msgs |-> 0]
  /\ unheard = {}

Accept(m) ==
  /\ phase[m] = "unknown"
  /\ phase' = [phase EXCEPT ![m] = "open"]
  /\ UNCHANGED <<copies, unheard>>

\* Copies of a set of open messages reach the broker together.
Send(S) ==
  /\ \A m \in S : phase[m] = "open"
  /\ copies' = [m \in Msgs |-> IF m \in S THEN copies[m] + 1 ELSE copies[m]]
  /\ UNCHANGED <<phase, unheard>>

MissRefusal(m) ==
  /\ phase[m] = "open"
  /\ unheard' = unheard \cup {m}
  /\ UNCHANGED <<phase, copies>>

\* One transaction settles several messages; those it does not name stay open.
Settle(done, dead) ==
  /\ \A m \in done \cup dead : phase[m] = "open"
  /\ \A m \in done : copies[m] > 0 \/ m \in unheard
  /\ phase' = [m \in Msgs |-> IF m \in done THEN "published"
                              ELSE IF m \in dead THEN "failed" ELSE phase[m]]
  /\ UNCHANGED <<copies, unheard>>

Next ==
  \/ \E m \in Msgs : Accept(m) \/ MissRefusal(m)
  \/ \E S \in SUBSET Msgs : Send(S)
  \/ \E done \in SUBSET Msgs : \E dead \in SUBSET (Msgs \ done) : Settle(done, dead)

Spec == Init /\ [][Next]_vars
=============================================================================
