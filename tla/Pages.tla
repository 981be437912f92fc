------------------------------- MODULE Pages -------------------------------
(***************************************************************************)
(* The page of a problem and the page of a contest's problem: running and  *)
(* submitting code, the interval that polls for the outcome, and the lists *)
(* a page fetches for the problem it shows.  A poll is sent every second   *)
(* whether or not the last one has been answered, so answers overlap.      *)
(* While anything runs the buttons are disabled; the editor's shortcuts    *)
(* call the same handlers and look at nothing.                             *)
(*                                                                         *)
(* The page of a contest's problem stays mounted when the user goes to     *)
(* another problem of the contest; the page of a problem does not.         *)
(***************************************************************************)
EXTENDS Naturals, FiniteSets

CONSTANTS
  Problems,
  MaxAttempts, \* bound on the runs and submissions of one visit
  MaxPolls,    \* bound on the answers under way of one attempt
  MaxVisits    \* bound on how often the user goes to another problem

VARIABLES
  kind,      \* "problem" or "contest": which of the pages
  mounted, shown, visits,
  home,      \* the problem of the render in which the editor mounted
  running,   \* isRunning, which disables both buttons
  attempts,  \* each run or submission, in order
  pollRef,   \* pollIntervalRef.current, 0 for null
  result,    \* the attempt whose outcome is shown, 0 for none
  fetches,   \* fetchSubmissions and fetchFullProblem under way, by problem
  lists,     \* the problem whose submissions and details are shown, {} for none
  hung,      \* the refresh of the session waits for itself: requests may never end
  overlapped, \* ghost: attempts that ended with another answer under way, or
             \* that a shortcut put another attempt upon
  crossed    \* ghost: a fetch failed, the user left a problem in the middle of
             \* one, or a shortcut submitted for another problem
vars == <<kind, mounted, shown, visits, home, running, attempts, pollRef, result,
          fetches, lists, hung, overlapped, crossed>>
user == <<kind, mounted, shown, visits, home>>

N == Cardinality(DOMAIN attempts)
Ops == IF kind = "problem" THEN {"run", "submit"} ELSE {"submit"}
\* st: the POST is under way, the interval is set, it ended with an outcome, or
\* without one.  pending and done count the answers under way, by what they say.
Attempts == [op : {"run", "submit"}, for : Problems,
             st : {"posting", "active", "answered", "over"},
             settled : BOOLEAN, pending : 0..MaxPolls, done : 0..MaxPolls]

TypeOK ==
  /\ kind \in {"problem", "contest"} /\ mounted \in BOOLEAN /\ {shown, home} \subseteq Problems
  /\ visits \in 0..MaxVisits /\ running \in BOOLEAN
  /\ N \in 0..MaxAttempts /\ attempts \in [1..N -> Attempts]
  /\ pollRef \in 0..N /\ result \in [{"run", "submit"} -> 0..N]
  /\ fetches \subseteq {"submissions", "details"} \X Problems
  /\ lists \in [{"submissions", "details"} -> SUBSET Problems]
  /\ overlapped \subseteq 1..N /\ {hung, crossed} \subseteq BOOLEAN

Init ==
  /\ kind \in {"problem", "contest"} /\ mounted = TRUE /\ shown \in Problems /\ visits = 0
  /\ home = shown /\ hung = FALSE
  /\ running = FALSE /\ attempts = <<>> /\ pollRef = 0
  /\ result = [op \in {"run", "submit"} |-> 0]
  /\ fetches = {"submissions", "details"} \X {shown}
  /\ lists = [f \in {"submissions", "details"} |-> {}]
  /\ overlapped = {} /\ crossed = FALSE
-----------------------------------------------------------------------------
\* What an answer could still come for.
UnderWay ==
  {a \in 1..N : attempts[a].st \in {"posting", "active"} \/ attempts[a].pending + attempts[a].done > 0}

(* handleRun and handleSubmit: clear the last outcome of the kind and post. *)
Begin(op, p) ==
  /\ mounted /\ op \in Ops /\ N < MaxAttempts
  /\ running' = TRUE
  /\ result' = [result EXCEPT ![op] = 0]
  /\ attempts' = [a \in 1..N + 1 |-> IF a <= N THEN attempts[a] ELSE
       [op |-> op, for |-> p, st |-> "posting", settled |-> FALSE, pending |-> 0, done |-> 0]]
  /\ UNCHANGED <<user, pollRef, fetches, lists, hung>>

\* A button, which isRunning disables.
Start(op) == ~running /\ Begin(op, shown) /\ UNCHANGED <<overlapped, crossed>>

\* The editor keeps the handlers of the render it mounted in, whatever the page
\* shows and runs by now.
Shortcut(op) ==
  /\ Begin(op, home)
  /\ overlapped' = overlapped \cup UnderWay
  /\ crossed' = (crossed \/ home # shown)

\* The page of a contest's problem has one place for outcomes, pending statuses
\* and errors; the page of a problem shows outcomes only.
NoOutcome == IF kind = "contest" /\ mounted THEN [result EXCEPT !["submit"] = 0] ELSE result

\* The continuation runs whether or not the page is still there; only a run
\* leaves its interval in the ref.
Posted(a) ==
  /\ attempts[a].st = "posting"
  /\ attempts' = [attempts EXCEPT ![a].st = "active"]
  /\ pollRef' = IF attempts[a].op = "run" THEN a ELSE pollRef
  /\ UNCHANGED <<user, running, result, fetches, lists, hung, overlapped, crossed>>

PostFails(a) ==
  /\ attempts[a].st = "posting"
  /\ attempts' = [attempts EXCEPT ![a].st = "over"]
  /\ running' = FALSE /\ result' = NoOutcome
  /\ UNCHANGED <<user, pollRef, fetches, lists, hung, overlapped, crossed>>

\* The submission leaves PENDING, or the run is over: later polls say so.
Settle(a) ==
  /\ attempts[a].st = "active" /\ ~attempts[a].settled
  /\ attempts' = [attempts EXCEPT ![a].settled = TRUE]
  /\ UNCHANGED <<user, running, pollRef, result, fetches, lists, hung, overlapped, crossed>>

Poll(a) ==
  /\ attempts[a].st = "active" /\ attempts[a].pending + attempts[a].done < MaxPolls
  /\ attempts' = IF attempts[a].settled THEN [attempts EXCEPT ![a].done = @ + 1]
                                        ELSE [attempts EXCEPT ![a].pending = @ + 1]
  /\ UNCHANGED <<user, running, pollRef, result, fetches, lists, hung, overlapped, crossed>>

AnswerTwice(a) ==   \* Mutant: a poll is answered again.
  /\ attempts[a].st = "active"
  /\ attempts' = [attempts EXCEPT ![a].pending = @ - 1]
  /\ UNCHANGED <<user, running, pollRef, result, fetches, lists, hung, overlapped, crossed>>
AnswerPending(a) ==
  /\ attempts[a].pending > 0
  /\ attempts' = [attempts EXCEPT ![a].pending = @ - 1]
  /\ result' = NoOutcome
  /\ UNCHANGED <<user, running, pollRef, fetches, lists, hung, overlapped, crossed>>

\* clearInterval, the ref whatever it holds, isRunning: what every ending does.
KeepPolling(a, rest, st) ==   \* Mutant: the interval is not cleared.
  /\ attempts' = [attempts EXCEPT ![a] = rest]
  /\ pollRef' = IF rest.op = "run" THEN 0 ELSE pollRef
  /\ running' = FALSE
  /\ overlapped' = overlapped
End(a, rest, st) ==
  /\ attempts' = [attempts EXCEPT ![a] = [rest EXCEPT !.st = st]]
  /\ pollRef' = IF rest.op = "run" THEN 0 ELSE pollRef
  /\ running' = FALSE
  /\ overlapped' = IF rest.pending + rest.done > 0 THEN overlapped \cup {a} ELSE overlapped

AnswerDone(a) ==
  /\ attempts[a].done > 0
  /\ End(a, [attempts[a] EXCEPT !.done = @ - 1], "answered")
  /\ result' = IF mounted THEN [result EXCEPT ![attempts[a].op] = a] ELSE result
  /\ fetches' = IF attempts[a].op = "submit" THEN fetches \cup {<<"submissions", attempts[a].for>>}
                                             ELSE fetches
  /\ UNCHANGED <<user, lists, hung, crossed>>

PollFails(a, answer) ==
  /\ attempts[a][answer] > 0
  /\ End(a, [attempts[a] EXCEPT ![answer] = @ - 1], "over")
  /\ result' = NoOutcome
  /\ UNCHANGED <<user, fetches, lists, hung, crossed>>

\* The list of whatever problem was asked for last to be answered is shown.
FetchEnds(f, p) ==
  /\ <<f, p>> \in fetches /\ fetches' = fetches \ {<<f, p>>}
  /\ \/ mounted /\ lists' = [lists EXCEPT ![f] = {p}] /\ UNCHANGED crossed
     \/ ~mounted /\ UNCHANGED <<lists, crossed>>
     \/ crossed' = TRUE /\ UNCHANGED lists
  /\ UNCHANGED <<user, running, attempts, pollRef, result, hung, overlapped>>

StayBehind(p) ==   \* Mutant: the other problem's lists are not fetched.
  /\ mounted /\ kind = "contest" /\ p # shown
  /\ visits < MaxVisits /\ visits' = visits + 1
  /\ shown' = p
  /\ crossed' = (crossed \/ fetches # {} \/ UnderWay # {})
  /\ UNCHANGED <<kind, mounted, home, running, attempts, pollRef, result, fetches, lists, hung, overlapped>>
GoTo(p) ==
  /\ mounted /\ kind = "contest" /\ p # shown
  /\ visits < MaxVisits /\ visits' = visits + 1
  /\ shown' = p
  /\ fetches' = fetches \cup ({"submissions", "details"} \X {p})
  /\ crossed' = (crossed \/ fetches # {} \/ UnderWay # {})
  /\ UNCHANGED <<kind, mounted, home, running, attempts, pollRef, result, lists, hung, overlapped>>

\* The cleanup of the page of a problem clears the interval in the ref.
Unmount ==
  /\ mounted /\ mounted' = FALSE
  /\ attempts' = [a \in 1..N |-> IF a = pollRef THEN [attempts[a] EXCEPT !.st = "over"]
                                               ELSE attempts[a]]
  /\ pollRef' = 0
  /\ UNCHANGED <<kind, shown, visits, home, running, result, fetches, lists, hung, overlapped, crossed>>

\* Session!RequestsEnd names the one way for a request never to end.
Hang ==
  /\ ~hung /\ hung' = TRUE
  /\ UNCHANGED <<user, running, attempts, pollRef, result, fetches, lists, overlapped, crossed>>

Reply(a) == Posted(a) \/ PostFails(a)
ReplyPending(a) == AnswerPending(a) \/ PollFails(a, "pending")
ReplyDone(a) == AnswerDone(a) \/ PollFails(a, "done")
Attend(a) == Reply(a) \/ Settle(a) \/ Poll(a) \/ ReplyPending(a) \/ ReplyDone(a)

Next ==
  \/ \E op \in {"run", "submit"} : Start(op) \/ Shortcut(op)
  \/ \E a \in DOMAIN attempts : Attend(a)
  \/ \E f \in {"submissions", "details"}, p \in Problems : FetchEnds(f, p)
  \/ \E p \in Problems : GoTo(p)
  \/ Unmount
  \/ Hang

\* Intervals fire, and requests are answered or time out after 15 seconds unless
\* the session is stuck.  Nothing says that a submission is ever judged.
Fairness == \A a \in 1..MaxAttempts :
  /\ WF_vars(a \in DOMAIN attempts /\ Poll(a))
  /\ WF_vars(~hung /\ a \in DOMAIN attempts /\ Reply(a))
  /\ WF_vars(~hung /\ a \in DOMAIN attempts /\ ReplyPending(a))
  /\ WF_vars(~hung /\ a \in DOMAIN attempts /\ ReplyDone(a))

Spec == Init /\ [][Next]_vars
FairSpec == Spec /\ Fairness
-----------------------------------------------------------------------------
Later(a) == {b \in 1..N : b > a /\ attempts[b].op = attempts[a].op}

(* What a page shows is what it should show, but for named races.           *)
(* The outcome is the one of the last run or submission, and once it came   *)
(* it stays, unless that attempt or one before it overlapped: it had        *)
(* another answer under way when it ended, which is taken for news whenever *)
(* it comes and enables the buttons under the next attempt, or a shortcut   *)
(* started another attempt upon it.  The lists are of the problem on the    *)
(* page or about to be, unless a fetch failed, the user left a problem      *)
(* while a fetch or an attempt for it was under way, or a shortcut          *)
(* submitted for the problem that the editor mounted with.                  *)
(* Unless attempts overlap, the buttons stay disabled while anything is     *)
(* polled for, and the ref holds the interval of the active run, so that a  *)
(* page that is left stops polling for it.                                  *)
LastOutcomeIsShown ==
  \A a \in 1..N : overlapped \cap 1..a = {} =>
    /\ result[attempts[a].op] = a => Later(a) = {}
    /\ attempts[a].st = "answered" /\ Later(a) = {} /\ mounted => result[attempts[a].op] = a
ListsFollow ==
  ~crossed => \A f \in DOMAIN lists : lists[f] = {shown} \/ <<f, shown>> \in fetches \/ ~mounted
ActiveIsRunning ==
  overlapped = {} /\ mounted =>
    \A a \in DOMAIN attempts : attempts[a].st = "active" =>
      running /\ a = N /\ (attempts[a].op = "run" => pollRef = a)
PageIsUpToDate == LastOutcomeIsShown /\ ListsFollow /\ ActiveIsRunning

(* Every run and submission ends, on the page and off it, unless it is      *)
(* polled for while it stays pending for ever, or the session is stuck.     *)
Ended(a) == attempts[a].st \in {"answered", "over"}
Waits(a) == attempts[a].st = "active" /\ ~attempts[a].settled
AttemptsEnd ==
  \A a \in 1..MaxAttempts :
    (a \in DOMAIN attempts) ~>
      ((a \in DOMAIN attempts /\ Ended(a)) \/ [](a \in DOMAIN attempts /\ Waits(a)) \/ hung)
=============================================================================
