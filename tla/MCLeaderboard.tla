---------------------------- MODULE MCLeaderboard ----------------------------
(* A small instance of Leaderboard: one user, one update call, one verdict, *)
(* two slots and three readers.  The third one comes only while no verdict  *)
(* is being handled.                                                        *)
EXTENDS Leaderboard, TLC

CONSTANTS s1, s2, r1, r2, r3

MCUsers == {"u"}
MCCalls == {"c"}
MCVerdicts == {"v"}
MCUserOf == [x \in MCCalls \cup MCVerdicts |-> "u"]
MCSlots == {s1, s2}
MCReaders == {r1, r2, r3}
MCSymmetry == Permutations(MCSlots) \cup Permutations(MCReaders)

MCNext ==
  /\ Next
  /\ \/ \E r \in Readers : asking'[r] = "new"
     \/ \A s \in Slots : at'[s] = "idle"
MCSpec == Init /\ [][MCNext]_vars
=============================================================================
