---------------------------- MODULE MCEvaluation ----------------------------
(* Small instances of Evaluation for TLC.                                  *)
EXTENDS Evaluation

\* Two accepted contest submissions of one user for one problem.
MCTwice == {"s1", "s2"}
MCTwiceKind == [j \in MCTwice |-> "contest"]
MCTwicePair == [j \in MCTwice |-> "p"]
MCTwiceVerdict == [j \in MCTwice |-> "AC"]

\* A contest submission, a practice submission and a run.
MCMixed == {"s1", "s2", "r1"}
MCMixedKind ==
  [j \in MCMixed |-> CASE j = "s1" -> "contest" [] j = "s2" -> "practice" [] OTHER -> "run"]
MCMixedPair == [j \in MCMixed |-> "p"]
MCMixedVerdict == [j \in MCMixed |-> "AC"]

\* One accepted contest submission.
MCOne == {"s1"}
MCOneContest == [j \in MCOne |-> "contest"]
MCOnePair == [j \in MCOne |-> "p"]
MCOneVerdict == [j \in MCOne |-> "AC"]

MCPairs == {"p"}
MCGo == {"g1"}
MCTs == {"t1"}
MCTwoTs == {"t1", "t2"}
MCProcs == {"go", "ts"}
MCOnlyGo == {"go"}
=============================================================================
