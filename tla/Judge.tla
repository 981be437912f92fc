------------------------------- MODULE Judge -------------------------------
(***************************************************************************)
(* The two sandboxes.  The Go one (internal/sandbox) starts a container    *)
(* for each test and gives each its own time limit; the TypeScript one     *)
(* (evaluation-service/src/sandbox) runs runner.sh over all tests in one   *)
(* container under one limit and reads what it left behind.  A job is      *)
(* taken by either service, and a submission's verdict is persisted into   *)
(* an enum column.                                                         *)
(*                                                                         *)
(* A test is what the program does on it: its time, its exit code, and     *)
(* whether stdout matches (a match may come with text on stderr).          *)
(***************************************************************************)
EXTENDS Naturals, Sequences, FiniteSets

CONSTANTS
  Tests,     \* what a program can do on a test
  MaxTests,
  timeLimit, oneSecond \* timeLimitMs and a second, in units of time

VARIABLES
  tests, compiles, mode,  \* the program, and "submit" or "run" (isRunOnly)
  at,                     \* "queued", "judged" or "done"
  by, report              \* the service that judged it, and what it says
vars == <<tests, compiles, mode, at, by, report>>

AllTests == [time : Nat, exit : {0, 1, 124, 137}, out : {"right", "noisy", "wrong"}]
Severity == [AC |-> 0, WA |-> 1, RE |-> 2, MLE |-> 3, TLE |-> 4]
VerdictEnum == DOMAIN Severity \cup {"CE", "PENDING"}
Crash == "RE: output"   \* an error's text, of which "RE" is the prefix
NoReport == [verdict |-> "PENDING", passed |-> 0]

\* Whole seconds and two more; Go leaves out the rest of timeLimitMs / 1000, the
\* TypeScript service rounds it up.
GoLimit == (timeLimit \div oneSecond + 2) * oneSecond
TsLimit == ((timeLimit + oneSecond - 1) \div oneSecond + 2) * oneSecond

N == Len(tests)
First(v) == CHOOSE i \in 1..N : v[i] # "AC" /\ \A j \in 1..i-1 : v[j] = "AC"
AllPass(v) == \A i \in 1..N : v[i] = "AC"
Passes(v) == Cardinality({i \in 1..N : v[i] = "AC"})
-----------------------------------------------------------------------------
(* Go.  Execute compares stdout and stderr together; its error is "TLE",    *)
(* "MLE" or a text.                                                         *)
GoVerdict(t) ==
  CASE t.time > GoLimit \/ t.exit = 124 -> "TLE"
    [] t.time <= GoLimit /\ t.exit = 137 -> "MLE"
    [] t.time <= GoLimit /\ t.exit = 1 -> Crash
    [] OTHER -> IF t.out = "right" THEN "AC" ELSE "WA"

\* A run goes through every test and keeps the most severe verdict the map has;
\* a submission returns at the first failure, without a count unless it is WA.
GoReport ==
  LET v == [i \in 1..N |-> GoVerdict(tests[i])]
      known == {v[i] : i \in 1..N} \cap DOMAIN Severity IN
  CASE ~compiles -> [verdict |-> "CE", passed |-> 0]
    [] compiles /\ mode = "run" ->
         [passed |-> Passes(v),
          verdict |-> CHOOSE w \in known \cup {"AC"} :
                        \A x \in known : Severity[x] <= Severity[w]]
    [] compiles /\ mode = "submit" /\ AllPass(v) -> [verdict |-> "AC", passed |-> N]
    [] OTHER -> [verdict |-> v[First(v)],
                 passed |-> IF v[First(v)] = "WA" THEN First(v) - 1 ELSE 0]

(* TypeScript.  runner.sh leaves an exit file for every test that ended     *)
(* before the limit; of a submission it goes no further than the first      *)
(* nonzero exit code, which becomes its own.                                *)
Elapsed[i \in 0..N] == IF i = 0 THEN 0 ELSE Elapsed[i - 1] + tests[i].time
HasExitFile(i) ==
  Elapsed[i] <= TsLimit /\ (mode = "submit" => \A j \in 1..i-1 : tests[j].exit = 0)
Stops == {i \in 1..N : mode = "submit" /\ HasExitFile(i) /\ tests[i].exit # 0}
BatchVerdict ==
  CASE Stops = {} -> IF \E i \in 1..N : ~HasExitFile(i) THEN "TLE" ELSE "AC"
    [] OTHER -> IF \E i \in Stops : tests[i].exit = 124 THEN "TLE" ELSE "RE"
\* Mutant: a test that left nothing behind is taken for the batch as a whole.
LooseVerdict(i) ==
  CASE ~HasExitFile(i) -> "AC"
    [] HasExitFile(i) /\ tests[i].exit # 0 -> "RE"
    [] OTHER -> IF tests[i].out = "wrong" THEN "WA" ELSE "AC"
TsVerdict(i) ==
  CASE ~HasExitFile(i) -> IF BatchVerdict = "AC" THEN "RE" ELSE BatchVerdict
    [] HasExitFile(i) /\ tests[i].exit # 0 -> "RE"
    [] OTHER -> IF tests[i].out = "wrong" THEN "WA" ELSE "AC"
TsReport ==
  LET v == [i \in 1..N |-> TsVerdict(i)] IN
  CASE ~compiles -> [verdict |-> "CE", passed |-> 0]
    [] compiles /\ AllPass(v) -> [verdict |-> "AC", passed |-> N]
    [] OTHER -> [verdict |-> v[First(v)],
                 passed |-> IF mode = "run" THEN Passes(v) ELSE First(v) - 1]
-----------------------------------------------------------------------------
TypeOK ==
  /\ N \in 0..MaxTests /\ \A i \in 1..N : tests[i] \in Tests \cap AllTests
  /\ compiles \in BOOLEAN /\ mode \in {"submit", "run"}
  /\ at \in {"queued", "judged", "done"} /\ by \in {"go", "ts"}
  /\ report \in [verdict : VerdictEnum \cup {Crash}, passed : 0..N]

Init ==
  /\ tests \in UNION {[1..n -> Tests] : n \in 0..MaxTests}
  /\ compiles \in BOOLEAN /\ mode \in {"submit", "run"}
  /\ at = "queued" /\ by = "go" /\ report = NoReport

Run(service) ==
  /\ at = "queued" /\ at' = "judged" /\ by' = service
  /\ report' = IF service = "go" THEN GoReport ELSE TsReport
  /\ UNCHANGED <<tests, compiles, mode>>

\* PersistVerdict for a submission; storing a run's result needs no enum.
Persist ==
  /\ at = "judged" /\ (mode = "submit" => report.verdict \in VerdictEnum)
  /\ at' = "done"
  /\ UNCHANGED <<tests, compiles, mode, by, report>>

\* The update fails, and the Go consumer requeues the job at once.
Refused ==
  /\ at = "judged" /\ mode = "submit" /\ report.verdict \notin VerdictEnum
  /\ at' = "queued"
  /\ UNCHANGED <<tests, compiles, mode, by, report>>

Next == Run("go") \/ Run("ts") \/ Persist \/ Refused
Spec == Init /\ [][Next]_vars
-----------------------------------------------------------------------------
Correct(t, limit) == t.exit = 0 /\ t.time <= limit /\ t.out # "wrong"
Quiet == \A i \in 1..N : tests[i].out # "noisy"

(* AC means that every test was answered correctly within the limit of the  *)
(* service; only a run by the Go service can be AC although a test crashed. *)
AcceptedIsDeserved ==
  report.verdict = "AC" =>
    /\ compiles
    /\ \A i \in 1..N :
         \/ Correct(tests[i], IF by = "go" THEN GoLimit ELSE TsLimit)
         \/ by = "go" /\ mode = "run" /\ tests[i].exit = 1

(* It does not depend on the service that took a submission whether it is   *)
(* accepted, but for three things: the Go service rejects text on stderr,   *)
(* rounds the limit down where the other rounds it up, and times every test *)
(* by itself where the other times them together.                           *)
JudgesAgree ==
  mode = "submit" =>
    /\ TsReport.verdict = "AC" =>
         GoReport.verdict = "AC" \/ ~Quiet \/ \E i \in 1..N : tests[i].time > GoLimit
    /\ GoReport.verdict = "AC" => TsReport.verdict = "AC" \/ Elapsed[N] > TsLimit

(* A job goes back to the queue for its verdict only if its program ended   *)
(* with an error, and then no Go worker can ever settle it.                 *)
RefusedIsACrash ==
  at = "queued" /\ report # NoReport =>
    /\ by = "go" /\ report.verdict = Crash
    /\ \E i \in 1..N : tests[i].exit = 1
    /\ GoReport.verdict \notin VerdictEnum

VerdictsAreDeserved == AcceptedIsDeserved /\ JudgesAgree /\ RefusedIsACrash
=============================================================================
