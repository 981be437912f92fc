------------------------------ MODULE MCOutbox ------------------------------
(* Small instances of Outbox for TLC.                                      *)
EXTENDS Outbox

\* Two rows created in the same microsecond, with two attempts each.
MCTwo == 1..2
MCTwoCreatedAt == [m \in MCTwo |-> 1]
MCTwoMaxAttempts == [m \in MCTwo |-> 2]
=============================================================================
