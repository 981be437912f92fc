----------------------------- MODULE MCVerdicts -----------------------------
(* Small instances of Verdicts for TLC.                                    *)
EXTENDS Verdicts, TLC

\* Two gRPC verdicts for two submissions of the pair, a REST update of the
\* first one, and the event of its creation.
MCCalls == {"g1", "g2", "p1", "n1"}
MCSubs == {"s1", "s2"}
MCSubOf == [c \in MCCalls |-> IF c = "g2" THEN "s2" ELSE "s1"]
MCVerdictOf == [c \in MCCalls |-> IF c = "p1" THEN "WA" ELSE "AC"]
MCKindOf ==
  [c \in MCCalls |-> CASE c \in {"g1", "g2"} -> "grpc"
                       [] c = "p1" -> "patch"
                       [] OTHER -> "create"]

\* Two accepted submissions of one pair, one reported by gRPC, one by REST.
MCPair == {"g1", "p2"}
MCPairSubOf == [c \in MCPair |-> IF c = "g1" THEN "s1" ELSE "s2"]
MCPairVerdictOf == [c \in MCPair |-> "AC"]
MCPairKindOf == [c \in MCPair |-> IF c = "g1" THEN "grpc" ELSE "patch"]
=============================================================================
