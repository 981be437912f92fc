------------------------------ MODULE Archive ------------------------------
(***************************************************************************)
(* The order of a contest's leaderboard and its snapshots.  A solve is     *)
(* encoded twice, as a score with a fraction for the penalty: by the worker *)
(* that judged it and by updateLeaderboard.  Every two minutes each        *)
(* evaluation service has the core copy the whole board, decoded, to       *)
(* leaderboard_snapshots.  What is between the worker and the board is in  *)
(* Evaluation and Leaderboard: here a solve reaches it in one step.        *)
(*                                                                         *)
(* Raw scores are multiples of 1 / MAX_PENALTY_MINS, so that they are      *)
(* integers here; floating point keeps them apart as well.                 *)
(***************************************************************************)
EXTENDS Integers, FiniteSets, Sequences, Functions

CONSTANTS
  Users,      \* numbers: Redis orders members of one score by name
  Points,     \* what a solve may be worth
  MAX_PENALTY_MINS,
  EndTime,    \* of the contest, in minutes after its start
  MaxTime, MaxSolves,
  Captures    \* the snapshots that may be under way at a time

VARIABLES
  minute,
  tried,     \* of each user: the accepted submission that waits to be judged
  solves, board, \* the sorted set, with what each score came from and since when
  capture,   \* takeLeaderboardSnapshot() under way
  snapshots  \* leaderboard_snapshots, by capture
vars == <<minute, tried, solves, board, capture, snapshots>>

Nobody == [score |-> 0, at |-> 0, by |-> "none", raw |-> 0, since |-> 0]
NoTry == [score |-> 0, at |-> 0]
NoCapture == [st |-> "none", at |-> 0, rows |-> <<>>]

TypeOK ==
  /\ minute \in 0..MaxTime /\ solves \in 0..MaxSolves
  /\ tried \in [Users -> [score : {0} \cup Points, at : 0..EndTime]]
  /\ board \in [Users -> [score : {0} \cup Points, at : 0..EndTime, raw : Nat,
                          by : {"none", "go", "ts", "blind"}, since : 0..MaxTime]]
  /\ \A k \in Captures :
       capture[k].st \in {"none", "begun", "read"} /\ capture[k].at \in 0..EndTime
  /\ \A s \in snapshots : s.at \in 0..EndTime /\ Len(s.rows) \in 1..Cardinality(Users)

Init ==
  /\ minute = 0 /\ solves = 0
  /\ tried = [u \in Users |-> NoTry] /\ board = [u \in Users |-> Nobody]
  /\ capture = [k \in Captures |-> NoCapture] /\ snapshots = {}
-----------------------------------------------------------------------------
Clamped(p) == IF p > MAX_PENALTY_MINS THEN MAX_PENALTY_MINS ELSE p
Encoded(raw, p) == raw + MAX_PENALTY_MINS - Clamped(p)

\* The Go worker takes the minutes since the submission was made, and passes on
\* the time the program ran, which is no minute.  The TypeScript worker takes the
\* minutes since the contest began, or without the contest ("blind") the time the
\* program ran, and updateLeaderboard takes them again.
Raw(t, by) ==
  LET points == t.score * MAX_PENALTY_MINS
      minutes == IF by = "ts" THEN t.at ELSE 0 IN
  IF by = "go" THEN Encoded(Encoded(points, minute - t.at), 0)
               ELSE Encoded(points + MAX_PENALTY_MINS - minutes, minutes)

Tick ==
  /\ minute < MaxTime /\ minute' = minute + 1
  /\ UNCHANGED <<tried, solves, board, capture, snapshots>>

Submit(u, points) ==
  /\ minute <= EndTime /\ tried[u] = NoTry
  /\ solves < MaxSolves /\ solves' = solves + 1
  /\ tried' = [tried EXCEPT ![u] = [score |-> points, at |-> minute]]
  /\ UNCHANGED <<minute, board, capture, snapshots>>

\* ZADD replaces what the user had.
UpdateLeaderboard(u, by) ==
  /\ tried[u] # NoTry /\ tried' = [tried EXCEPT ![u] = NoTry]
  /\ board' = [board EXCEPT ![u] = [score |-> tried[u].score, at |-> tried[u].at, by |-> by,
                                    raw |-> Raw(tried[u], by), since |-> minute]]
  /\ UNCHANGED <<minute, solves, capture, snapshots>>
-----------------------------------------------------------------------------
OnBoard == {u \in Users : board[u] # Nobody}
Above(u, v) == \/ board[u].raw > board[v].raw
               \/ board[u].raw = board[v].raw /\ u > v
Order == CHOOSE f \in [1..Cardinality(OnBoard) -> OnBoard] :
           \A i, j \in DOMAIN f : i < j => Above(f[i], f[j])

\* Decoded: the points below the raw score, and the penalty its fraction stands for.
Row(u) == [user |-> u, score |-> board[u].raw \div MAX_PENALTY_MINS,
           penalty |-> MAX_PENALTY_MINS - (board[u].raw % MAX_PENALTY_MINS)]

\* capturedAt is the time of the call, and only a running contest is captured.
TakeSnapshot(k) ==
  /\ capture[k] = NoCapture /\ minute <= EndTime
  /\ capture' = [capture EXCEPT ![k] = [st |-> "begun", at |-> minute, rows |-> <<>>]]
  /\ UNCHANGED <<minute, tried, solves, board, snapshots>>

\* An empty board is not saved.
ReadBoard(k) ==
  /\ capture[k].st = "begun"
  /\ capture' = [capture EXCEPT ![k] =
       IF OnBoard = {} THEN NoCapture
       ELSE [@ EXCEPT !.st = "read", !.rows = [i \in DOMAIN Order |-> Row(Order[i])]]]
  /\ UNCHANGED <<minute, tried, solves, board, snapshots>>

\* One insert for all rows, which may fail: the next snapshot is a new one.
SaveSnapshots(k) ==
  /\ capture[k].st = "read"
  /\ capture' = [capture EXCEPT ![k] = NoCapture]
  /\ \/ snapshots' = snapshots \cup {[at |-> capture[k].at, rows |-> capture[k].rows]}
     \/ UNCHANGED snapshots
  /\ UNCHANGED <<minute, tried, solves, board>>

Next ==
  \/ Tick
  \/ \E u \in Users :
       \/ \E points \in Points : Submit(u, points)
       \/ \E by \in {"go", "ts", "blind"} : UpdateLeaderboard(u, by)
  \/ \E k \in Captures : TakeSnapshot(k) \/ ReadBoard(k) \/ SaveSnapshots(k)
Spec == Init /\ [][Next]_vars
-----------------------------------------------------------------------------
(* A snapshot is a whole board, not older than its time: it ranks every     *)
(* user once, and whoever is missing or ranked by another score has solved  *)
(* something at that time or later.                                         *)
SnapshotsAreBoards ==
  \A s \in snapshots :
    /\ IsInjective([i \in DOMAIN s.rows |-> s.rows[i].user])
    /\ \A u \in OnBoard : board[u].since < s.at => \E i \in DOMAIN s.rows : s.rows[i] = Row(u)
    /\ \A i, j \in DOMAIN s.rows : i < j =>
         LET u == s.rows[i].user
             v == s.rows[j].user IN
         board[u].since < s.at /\ board[v].since < s.at => Above(u, v)

(* As long as penalties stay below half of the maximum, the user whose last *)
(* solve was worth more is above; of two whose solves were worth the same   *)
(* and judged by TypeScript workers that knew the contest, it is the one    *)
(* who submitted first.                                                     *)
ScoresRank ==
  \A u, v \in OnBoard :
    /\ board[u].score > board[v].score => Above(u, v)
    /\ /\ board[u].score = board[v].score /\ board[u].at < board[v].at
       /\ board[u].by = "ts" /\ board[v].by = "ts"
       => Above(u, v)

(* Whoever judged them, the earlier of two submissions worth the same wins  *)
(* the tie.                                                                 *)
EarlierWinsTies ==
  \A u, v \in OnBoard :
    board[u].score = board[v].score /\ board[u].at < board[v].at => Above(u, v)
=============================================================================
