----------------------------- MODULE Standings -----------------------------
(***************************************************************************)
(* What is computed from the rows of submissions: the standings of a       *)
(* contest, the profile of a user, the list of solvers, the status of a    *)
(* problem; and the page of the standings, which fetches them again        *)
(* whenever the gateway's event stream says that they have changed.        *)
(*                                                                         *)
(* A row's number is its created_at, the start of its transaction; rows    *)
(* may become visible in another order.  One contest is modelled.          *)
(***************************************************************************)
EXTENDS Integers, Sequences, FiniteSets, FiniteSetsExt

CONSTANTS
  Users, Problems,
  limit,               \* of the global leaderboard
  Difficulty,          \* the difficulty of each problem
  maxScore,            \* the points of each problem
  startTime, Penalty,  \* of the contest, in units of created_at
  MaxRows, MaxFetches, MaxFaults

VARIABLES
  rows,     \* submissions
  credited, \* pairs that have had their leaderboard update
  owed,     \* updates on their way to leaderboard:invalidate
  stream,   \* the page's EventSource is connected
  fetches,  \* the page's requests, in order
  shown,    \* what the page shows
  served,   \* how many requests have been answered by the core
  profile,  \* a request for a profile, between its queries
  faults
vars == <<rows, credited, owed, stream, fetches, shown, served, profile, faults>>
page == <<stream, fetches, shown, served>>

Verdicts == {"PENDING", "AC", "WA"}
Row == [user : Users, problem : Problems, contest : BOOLEAN, visible : BOOLEAN, verdict : Verdicts]
Where(rs, cond(_)) == {i \in DOMAIN rs : rs[i].visible /\ cond(rs[i])}
Accepted(rs, u) == Where(rs, LAMBDA r : r.user = u /\ r.verdict = "AC")

(* getContestLeaderboard: for each problem the first accepted row, and the  *)
(* rows before it, which all count as wrong attempts, PENDING ones too.     *)
InContest(rs, u, p) == Where(rs, LAMBDA r : r.contest /\ r.user = u /\ r.problem = p)
LastAccepted(rs, u, p) ==   \* Mutant: the last accepted row counts.
  Max({0} \cup (InContest(rs, u, p) \cap Accepted(rs, u)))
FirstAccepted(rs, u, p) ==
  LET ac == InContest(rs, u, p) \cap Accepted(rs, u) IN IF ac = {} THEN 0 ELSE Min(ac)
WrongAttempts(rs, u, p) ==
  Cardinality({i \in InContest(rs, u, p) \ Accepted(rs, u) : i < FirstAccepted(rs, u, p)})
SolvedInContest(rs, u) == {p \in Problems : FirstAccepted(rs, u, p) > 0}
Standing(rs, u) ==
  LET solved == SolvedInContest(rs, u) IN
  [score |-> MapThenSumSet(LAMBDA p : maxScore[p], solved),
   time |-> MapThenSumSet(LAMBDA p : FirstAccepted(rs, u, p) - startTime
                                     + WrongAttempts(rs, u, p) * Penalty, solved)]
Table(rs) == [u \in Users |-> Standing(rs, u)]

\* ORDER BY score DESC, total_time_ms ASC
Below(s, t) == s.score < t.score \/ (s.score = t.score /\ s.time > t.time)

(* getSolvedCounts and getGlobalLeaderboard count distinct problems, per    *)
(* difficulty and in all; getProblemById gives a user's status.             *)
Solved(rs, u) == {rs[i].problem : i \in Accepted(rs, u)}
SolvedCounts(rs, u) ==
  [d \in {Difficulty[p] : p \in Problems} |->
     Cardinality({p \in Solved(rs, u) : Difficulty[p] = d})]
Total(rs, u) ==
  MapThenSumSet(LAMBDA d : SolvedCounts(rs, u)[d], DOMAIN SolvedCounts(rs, u))
\* HAVING, ORDER BY solved_count DESC and LIMIT: ties are cut off at will.
Tops(rs) ==
  LET solvers == {u \in Users : Solved(rs, u) # {}} IN
  {top \in SUBSET solvers :
     /\ Cardinality(top) = limit \/ (top = solvers /\ Cardinality(top) < limit)
     /\ \A u \in top, v \in solvers \ top :
          Cardinality(Solved(rs, v)) <= Cardinality(Solved(rs, u))}
GlobalLeaderboards(rs) == {[u \in top |-> Cardinality(Solved(rs, u))] : top \in Tops(rs)}
UserStatus(rs, u, p) ==
  LET tried == Where(rs, LAMBDA r : r.user = u /\ r.problem = p) IN
  CASE tried \cap Accepted(rs, u) # {} -> "Solved"
    [] tried # {} /\ tried \cap Accepted(rs, u) = {} -> "Attempted"
    [] OTHER -> "none"
-----------------------------------------------------------------------------
\* Why what is shown may be old: see PageCatchesUp.
Reasons == {"missed", "silent", "overtaken"}
Standings == [Users -> [score : Nat, time : Int]]
NoTable == [table |-> [u \in Users |-> [score |-> 0, time |-> 0]], number |-> 0, why |-> {}]
Asked == [NoTable EXCEPT !.number = -1]   \* sent, not served
NoProfile == [at |-> "none"]

TypeOK ==
  /\ rows \in Seq(Row) /\ Len(rows) <= MaxRows
  /\ credited \subseteq Users \X Problems /\ owed \in 0..Cardinality(credited) /\ stream \in BOOLEAN
  /\ Len(fetches) <= MaxFetches /\ served \in 0..MaxFetches
  /\ \A f \in {shown} \cup {fetches[i] : i \in DOMAIN fetches} :
       f.table \in Standings /\ f.number \in -2..served /\ f.why \subseteq Reasons
  /\ profile = NoProfile \/
     profile \in [at : {"solved", "done"}, user : Users, solved : 0..Cardinality(Problems),
                  accepted : 0..MaxRows, lowered : BOOLEAN]
  /\ faults \in 0..MaxFaults

Init ==
  /\ rows = <<>> /\ credited = {} /\ owed = 0 /\ stream = FALSE
  /\ fetches = <<Asked>> /\ shown = NoTable /\ served = 0
  /\ profile = NoProfile /\ faults = 0
-----------------------------------------------------------------------------
Over == [NoTable EXCEPT !.number = -2]   \* answered
\* Something happened that neither the page nor an answer under way tells.
Mark(reason) ==
  /\ shown' = [shown EXCEPT !.why = @ \cup {reason}]
  /\ fetches' = [i \in DOMAIN fetches |->
       IF fetches[i].number > 0 THEN [fetches[i] EXCEPT !.why = @ \cup {reason}] ELSE fetches[i]]

(* The rows change.  An update is owed the first time that a row of a user  *)
(* and a problem is accepted in the contest; whatever else moves the table  *)
(* is silent.                                                               *)
RowsBecome(rs, pairs) ==
  LET new == pairs \ credited IN
  /\ rows' = rs
  /\ credited' = credited \cup new /\ owed' = owed + Cardinality(new)
  /\ IF new = {} /\ Table(rs) # Table(rows) THEN Mark("silent") ELSE UNCHANGED <<fetches, shown>>
  /\ profile' = IF profile # NoProfile /\ \E i \in DOMAIN rows :
                      rows[i].verdict = "AC" /\ rs[i].verdict # "AC"
                THEN [profile EXCEPT !.lowered = TRUE] ELSE profile
  /\ UNCHANGED <<stream, served, faults>>

\* submitSolution: the contest is whatever the request says.
Submit(u, p, inContest) ==
  /\ Len(rows) < MaxRows
  /\ RowsBecome(Append(rows, [user |-> u, problem |-> p, contest |-> inContest,
                              visible |-> FALSE, verdict |-> "PENDING"]), {})
Commit(i) ==
  /\ ~rows[i].visible
  /\ RowsBecome([rows EXCEPT ![i].visible = TRUE], {})

\* updateSubmission, of an evaluation or of a repeated one.
Judge(i, verdict) ==
  LET r == rows[i] IN
  /\ r.visible /\ verdict # "PENDING" /\ verdict # r.verdict
  /\ RowsBecome([rows EXCEPT ![i].verdict = verdict],
       IF verdict = "AC" /\ r.contest THEN {<<r.user, r.problem>>} ELSE {})
-----------------------------------------------------------------------------
(* ContestLeaderboard.tsx: every UPDATE fetches the table, and an answer    *)
(* replaces whatever is shown.                                              *)
Ask == fetches' = Append(fetches, Asked)

Publish ==
  /\ owed > 0 /\ owed' = owed - 1
  /\ IF stream THEN Len(fetches) < MaxFetches /\ Ask /\ UNCHANGED shown
               ELSE Mark("missed")
  /\ UNCHANGED <<rows, credited, stream, served, profile, faults>>
\* The credit, the projection or the message is lost.
LoseUpdate ==
  /\ faults < MaxFaults /\ faults' = faults + 1
  /\ owed > 0 /\ owed' = owed - 1
  /\ Mark("missed")
  /\ UNCHANGED <<rows, credited, stream, served, profile>>

\* The browser connects the stream again by itself; nothing is fetched then.
Connect ==
  /\ ~stream /\ stream' = TRUE
  /\ UNCHANGED <<rows, credited, owed, fetches, shown, served, profile, faults>>
Disconnect ==
  /\ faults < MaxFaults /\ faults' = faults + 1
  /\ stream /\ stream' = FALSE
  /\ UNCHANGED <<rows, credited, owed, fetches, shown, served, profile>>

Serve(i) ==
  /\ fetches[i] = Asked
  /\ served' = served + 1
  /\ fetches' = [fetches EXCEPT ![i] = [table |-> Table(rows), number |-> served', why |-> {}]]
  /\ UNCHANGED <<rows, credited, owed, stream, shown, profile, faults>>

\* setLeaderboard; an answer is overtaken by one that was served after it.
Answer(i) ==
  /\ fetches[i].number > 0
  /\ shown' = [fetches[i] EXCEPT
       !.number = Max({@, shown.number}),
       !.why = IF fetches[i].number < shown.number THEN @ \cup {"overtaken"} ELSE @]
  /\ fetches' = [fetches EXCEPT ![i] = Over]
  /\ UNCHANGED <<rows, credited, owed, stream, served, profile, faults>>

\* The page keeps what it shows.
FetchFails(i) ==
  /\ faults < MaxFaults /\ faults' = faults + 1
  /\ fetches[i] # Over
  /\ shown' = [shown EXCEPT !.why = @ \cup {"missed"}]
  /\ fetches' = [j \in DOMAIN fetches |->
       CASE j = i -> Over
         [] j # i /\ fetches[j].number > 0 -> [fetches[j] EXCEPT !.why = @ \cup {"missed"}]
         [] OTHER -> fetches[j]]
  /\ UNCHANGED <<rows, credited, owed, stream, served, profile>>
-----------------------------------------------------------------------------
(* getUserStats: the solved problems, then the counts by verdict.           *)
GetSolvedCounts(u) ==
  /\ profile = NoProfile
  /\ profile' = [at |-> "solved", user |-> u, solved |-> Total(rows, u),
                 accepted |-> 0, lowered |-> FALSE]
  /\ UNCHANGED <<rows, credited, owed, page, faults>>
GetSubmissionStats ==
  /\ profile.at = "solved"
  /\ profile' = [profile EXCEPT !.at = "done",
                   !.accepted = Cardinality(Accepted(rows, profile.user))]
  /\ UNCHANGED <<rows, credited, owed, page, faults>>

Next ==
  \/ \E u \in Users, p \in Problems, inContest \in BOOLEAN : Submit(u, p, inContest)
  \/ \E i \in DOMAIN rows : Commit(i) \/ \E v \in Verdicts : Judge(i, v)
  \/ Publish \/ LoseUpdate \/ Connect \/ Disconnect
  \/ \E i \in DOMAIN fetches : Serve(i) \/ Answer(i) \/ FetchFails(i)
  \/ \E u \in Users : GetSolvedCounts(u)
  \/ GetSubmissionStats

Spec == Init /\ [][Next]_vars
-----------------------------------------------------------------------------
Overwritten == \E i \in DOMAIN rows : rows[i].verdict = "AC" /\ rows'[i].verdict # "AC"
LateCommit == \E i, j \in DOMAIN rows :
  /\ i < j /\ rows[j].verdict = "AC"
  /\ rows[i].user = rows[j].user /\ rows[i].problem = rows[j].problem
  /\ ~rows[i].visible /\ rows'[i].visible
(* A standing never gets worse, unless an accepted verdict is overwritten   *)
(* by another one, or a row becomes visible although a younger one of the   *)
(* same user and problem has been accepted.  A wrong attempt that is judged *)
(* late does not cost anything: it has counted since it was sent.           *)
Improves ==
  ~Overwritten /\ ~LateCommit =>
    \A u \in Users : ~Below(Standing(rows', u), Standing(rows, u))
StandingsOnlyImprove == [][Improves]_vars

(* Once nothing is on its way, the page shows the table there is, unless an *)
(* answer was overtaken by a newer one, an update was lost or came while    *)
(* the stream was down or before it was up, a fetch failed, or the table    *)
(* changed in a way that nobody is told of: a second accepted row, an       *)
(* overwritten verdict, a row that became visible late.                     *)
Quiet == owed = 0 /\ \A i \in DOMAIN fetches : fetches[i] = Over
PageCatchesUp == Quiet => shown.table = Table(rows) \/ shown.why # {}

(* The profile, the global leaderboard and the status of the problems agree *)
(* on what a user has solved: whatever ties the leaderboard cuts off, it is *)
(* full of others who solved as much or more when it leaves a user out.     *)
(* And nobody's profile shows more solved problems than accepted            *)
(* submissions, although they are read at different times, unless an        *)
(* accepted verdict was overwritten in between.                             *)
ViewsAgree ==
  /\ \A u \in Users :
       /\ Total(rows, u) = Cardinality({p \in Problems : UserStatus(rows, u, p) = "Solved"})
       /\ SolvedInContest(rows, u) \subseteq Solved(rows, u)
       /\ \A list \in GlobalLeaderboards(rows) :
            IF u \in DOMAIN list THEN list[u] = Total(rows, u)
            ELSE \/ Total(rows, u) = 0
                 \/ /\ Cardinality(DOMAIN list) = limit
                    /\ \A v \in DOMAIN list : list[v] >= Total(rows, u)
  /\ profile.at = "done" => profile.solved <= profile.accepted \/ profile.lowered
=============================================================================
