------------------------------ MODULE Contests ------------------------------
(***************************************************************************)
(* Contests in the core service: registration, the problems of a contest,  *)
(* the cache-aside reads in front of both, and the gate that a submission  *)
(* passes while a contest with its problem is running.                     *)
(*                                                                         *)
(* Each of the Calls is one HTTP request at a time; every await of the     *)
(* database or of Redis is a step, and the code between two of them        *)
(* belongs to the first.  One unit of time is about a minute: a select and *)
(* the cache write that follows it fall into the same unit, anything else  *)
(* may be delayed for ever.                                                *)
(***************************************************************************)
EXTENDS Naturals, FiniteSets

CONSTANTS
  Contests, Users, Problems,
  Calls,           \* concurrent requests
  Start, End,      \* the window of each contest
  RegistrationTtl, \* contest:registration:* and contest:problems:*, 300 s
  OngoingTtl,      \* contest:ongoing:problem:*, 60 s
  MaxTime,         \* bound of the clock
  MaxFaults        \* bound on failed Redis commands

ASSUME ContestsAssumption ==
  /\ Start \in [Contests -> Nat] /\ End \in [Contests -> Nat]
  /\ RegistrationTtl \in Nat \ {0} /\ OngoingTtl \in Nat \ {0}
  /\ MaxTime \in Nat /\ MaxFaults \in Nat

VARIABLES
  now,
  contests, problems,  \* rows
  links,               \* contestProblems
  registered,          \* contestRegistrations
  cache,               \* Redis: an answer and when it expires, 0 if there is none
  call,
  faults,
  overtaken,           \* ghost: calls whose answer's rows changed since their select
  excused,             \* ghost: cached answers that no delete will correct
  linkedAt,            \* ghost: when a problem entered a contest
  ever                 \* ghost: who has ever been registered

tables == <<contests, problems, links, registered>>
ghosts == <<overtaken, excused, linkedAt, ever>>
vars == <<now, contests, problems, links, registered, cache, call, faults,
          overtaken, excused, linkedAt, ever>>

RegistrationKey(c, u) == <<"registration", c, u>>
OngoingKey(p) == <<"ongoing", p>>
ProblemsKey(c) == <<"problems", c>>
Keys == {RegistrationKey(c, u) : c \in Contests, u \in Users}
        \cup {OngoingKey(p) : p \in Problems} \cup {ProblemsKey(c) : c \in Contests}

LongTtl(k) == RegistrationTtl   \* Mutant: one expiry for every kind of answer.
Ttl(k) == IF k[1] = "ongoing" THEN OngoingTtl ELSE RegistrationTtl

\* What the three queries answer; a registration is the set of its rows.
Running(c) == Start[c] <= now /\ now <= End[c]
FindRegistration(c, u) == registered \cap {<<c, u>>}
FindOngoing(p) == {c \in contests : Running(c) /\ <<c, p>> \in links}
FindProblems(c) == {p \in problems : <<c, p>> \in links}
Query(k) == CASE k[1] = "registration" -> FindRegistration(k[2], k[3])
              [] k[1] = "ongoing" -> FindOngoing(k[2])
              [] OTHER -> FindProblems(k[2])

Answers == (SUBSET (Contests \X Users)) \cup (SUBSET Contests) \cup (SUBSET Problems)
None == [val |-> {}, exp |-> 0]
Live(k) == now < cache[k].exp

Ops == {"register", "deregister", "submit", "problems", "link"}
Steps == {"look", "select", "fill", "write", "sweep", "admit"}
Idle == [at |-> "idle"]
\* A request: its step, what it asks for, the user and the problem, the key of
\* its current read or delete, the answer to fill in, the contests still to ask
\* about, and when the gate read the list of running contests.
Requests == [at : Steps, op : Ops, u : Users, p : Problems, key : Keys,
             ans : Answers, todo : SUBSET Contests, read : 0..MaxTime]
Request(op, u, p, k, step) ==
  [at |-> step, op |-> op, u |-> u, p |-> p, key |-> k,
   ans |-> {}, todo |-> {}, read |-> 0]

TypeOK ==
  /\ now \in 0..MaxTime
  /\ contests \subseteq Contests /\ problems \subseteq Problems
  /\ links \subseteq contests \X problems /\ registered \subseteq contests \X Users
  /\ \A k \in Keys : cache[k].exp \in Nat /\ cache[k].val \in Answers
  /\ \A r \in Calls : call[r] = Idle \/ call[r] \in Requests
  /\ faults \in 0..MaxFaults
  /\ overtaken \subseteq Calls /\ excused \subseteq Keys
  /\ linkedAt \in [Contests \X Problems -> 0..MaxTime]
  /\ registered \subseteq ever /\ ever \subseteq contests \X Users

Init ==
  /\ now = 0
  /\ contests = {} /\ problems = {} /\ links = {} /\ registered = {}
  /\ cache = [k \in Keys |-> None]
  /\ call = [r \in Calls |-> Idle]
  /\ faults = 0
  /\ overtaken = {} /\ excused = {}
  /\ linkedAt = [x \in Contests \X Problems |-> 0]
  /\ ever = {}
-----------------------------------------------------------------------------
Filling(ks) == {r \in Calls : call[r].at = "fill" /\ call[r].key \in ks}
Finish(r) == call' = [call EXCEPT ![r] = Idle]

(* The admin's writes.  A problem created for a contest enters it in the    *)
(* same transaction, and no cached list is invalidated.                     *)
CreateContest(c) ==
  /\ c \notin contests
  /\ contests' = contests \cup {c}
  /\ UNCHANGED <<now, problems, links, registered, cache, call, faults, ghosts>>

CreateProblem(p, home) ==
  LET touched == {ProblemsKey(c) : c \in home} IN
  /\ p \notin problems /\ home \subseteq contests
  /\ problems' = problems \cup {p}
  /\ links' = links \cup (home \X {p})
  /\ linkedAt' = [x \in DOMAIN linkedAt |-> IF x \in home \X {p} THEN now ELSE linkedAt[x]]
  /\ overtaken' = overtaken \cup Filling(touched)
  /\ excused' = excused \cup {k \in touched : Live(k)}
  /\ UNCHANGED <<now, contests, registered, cache, call, faults, ever>>

\* Unknown contests and problems are refused at once.
Unchecked(op, c, p) == TRUE   \* Mutant: any identifier is taken.
Known(op, c, p) ==
  /\ op \in {"submit", "link"} => p \in problems
  /\ op # "submit" => c \in contests

Begin(r, op, c, u, p) ==
  /\ call[r] = Idle
  /\ Known(op, c, p)
  /\ call' = [call EXCEPT ![r] =
       CASE op \in {"register", "deregister"} -> Request(op, u, p, RegistrationKey(c, u), "look")
         [] op = "submit" -> Request(op, u, p, OngoingKey(p), "look")
         [] op = "problems" -> Request(op, u, p, ProblemsKey(c), "look")
         [] OTHER -> Request(op, u, p, ProblemsKey(c), "write")]
  /\ UNCHANGED <<now, tables, cache, faults, ghosts>>

(* What the services do with an answer: give up, go on to the row, or ask   *)
(* for the next key.  The gate of submitSolution and runSolution lets       *)
(* anyone pass when the list is empty; otherwise one registration among the *)
(* listed contests is enough.                                               *)
Proceed(r, k, ans, listed) ==
  LET q == [call[r] EXCEPT !.ans = {}]
      ask(todo) == {[q EXCEPT !.at = "look", !.key = RegistrationKey(c, q.u),
                              !.todo = todo \ {c}, !.read = listed] : c \in todo}
      admitted == [q EXCEPT !.at = "admit", !.todo = {}, !.read = listed] IN
  CASE q.op = "problems" -> {Idle}
    [] q.op = "register" ->
         {IF ans # {} \/ now > End[k[2]] THEN Idle ELSE [q EXCEPT !.at = "write"]}
    [] q.op = "deregister" ->
         {IF ans = {} \/ now >= Start[k[2]] THEN Idle ELSE [q EXCEPT !.at = "write"]}
    [] k[1] = "ongoing" -> IF ans = {} THEN {admitted} ELSE ask(ans)
    [] OTHER -> IF ans # {} THEN {admitted} ELSE IF q.todo = {} THEN {Idle} ELSE ask(q.todo)
\* The gate's list is as old as its read.
Listed(r) == IF call[r].key[1] = "ongoing" THEN now ELSE call[r].read

(* Cache-aside: get, and on a miss select and set with an expiry.           *)
Look(r) ==
  /\ call[r].at = "look"
  /\ IF Live(call[r].key)
     THEN \E next \in Proceed(r, call[r].key, cache[call[r].key].val, Listed(r)) :
            call' = [call EXCEPT ![r] = next]
     ELSE call' = [call EXCEPT ![r].at = "select"]
  /\ UNCHANGED <<now, tables, cache, faults, ghosts>>

Select(r) ==
  /\ call[r].at = "select"
  /\ call' = [call EXCEPT ![r].at = "fill", ![r].ans = Query(call[r].key)]
  /\ overtaken' = overtaken \ {r}
  /\ UNCHANGED <<now, tables, cache, faults, excused, linkedAt, ever>>

Fill(r) ==
  LET k == call[r].key IN
  /\ call[r].at = "fill"
  /\ cache' = [cache EXCEPT ![k] = [val |-> call[r].ans, exp |-> now + Ttl(k)]]
  /\ \E next \in Proceed(r, k, call[r].ans, Listed(r)) : call' = [call EXCEPT ![r] = next]
  /\ excused' = IF r \in overtaken THEN excused \cup {k} ELSE excused \ {k}
  /\ overtaken' = overtaken \ {r}
  /\ UNCHANGED <<now, tables, faults, linkedAt, ever>>

\* Nothing in the repository fills the list whose length is the queue depth.
BackpressureLevel(depth) ==
  CASE depth >= 1000 -> "CRITICAL" [] depth \in 700..999 -> "WARNING" [] OTHER -> "OK"
QueueDepth == 0
Admit(r) ==
  /\ call[r].at = "admit"
  /\ BackpressureLevel(QueueDepth) # "CRITICAL"
  /\ Finish(r)
  /\ UNCHANGED <<now, tables, cache, faults, ghosts>>

(* The row, then the cached answers about it.  A second row for the same    *)
(* key violates the primary key and ends the request.                       *)
WriteRegistration(r) ==
  LET row == <<call[r].key[2], call[r].u>> IN
  /\ call[r].at = "write" /\ call[r].op = "register"
  /\ registered' = registered \cup {row} /\ ever' = ever \cup {row}
  /\ IF row \in registered THEN Finish(r) /\ UNCHANGED overtaken
     ELSE /\ call' = [call EXCEPT ![r].at = "sweep"]
          /\ overtaken' = overtaken \cup Filling({call[r].key})
  /\ UNCHANGED <<now, contests, problems, links, cache, faults, excused, linkedAt>>

DeleteRegistration(r) ==
  LET row == <<call[r].key[2], call[r].u>> IN
  /\ call[r].at = "write" /\ call[r].op = "deregister"
  /\ registered' = registered \ {row}
  /\ call' = [call EXCEPT ![r].at = "sweep"]
  /\ overtaken' = overtaken \cup Filling({call[r].key})
  /\ UNCHANGED <<now, contests, problems, links, cache, faults, excused, linkedAt, ever>>

WriteLink(r) ==
  LET row == <<call[r].key[2], call[r].p>> IN
  /\ call[r].at = "write" /\ call[r].op = "link"
  /\ links' = links \cup {row}
  /\ IF row \in links THEN Finish(r) /\ UNCHANGED <<overtaken, linkedAt>>
     ELSE /\ call' = [call EXCEPT ![r].at = "sweep"]
          /\ overtaken' = overtaken \cup Filling({call[r].key})
          /\ linkedAt' = [linkedAt EXCEPT ![row] = now]
  /\ UNCHANGED <<now, contests, problems, registered, cache, faults, excused, ever>>

\* addProblemToContest deletes the contest's list, then the problem's.
SweepNone(r) ==   \* Mutant: the rows change and the cache is left alone.
  /\ call[r].at = "sweep"
  /\ Finish(r)
  /\ UNCHANGED <<now, tables, cache, faults, ghosts>>
Sweep(r) ==
  /\ call[r].at = "sweep"
  /\ cache' = [cache EXCEPT ![call[r].key] = None]
  /\ excused' = excused \ {call[r].key}
  /\ IF call[r].key[1] = "problems"
     THEN call' = [call EXCEPT ![r].key = OngoingKey(call[r].p)]
     ELSE Finish(r)
  /\ UNCHANGED <<now, tables, faults, overtaken, linkedAt, ever>>

\* A Redis command fails: the request ends with an error where it stands.
RedisFails(r) ==
  /\ faults < MaxFaults /\ faults' = faults + 1
  /\ call[r].at \in {"look", "fill", "sweep"}
  /\ excused' = IF call[r].at = "sweep" THEN excused \cup {call[r].key} ELSE excused
  /\ overtaken' = overtaken \ {r}
  /\ Finish(r)
  /\ UNCHANGED <<now, tables, cache, linkedAt, ever>>

Tick ==
  /\ now < MaxTime /\ now' = now + 1
  /\ \A r \in Calls : call[r].at # "fill"
  /\ cache' = [k \in Keys |-> IF cache[k].exp <= now' THEN None ELSE cache[k]]
  /\ excused' = {k \in excused : cache[k].exp > now'}
  /\ UNCHANGED <<tables, call, faults, overtaken, linkedAt, ever>>

Next ==
  \/ Tick
  \/ \E c \in Contests : CreateContest(c)
  \/ \E p \in Problems, home \in {{}} \cup {{c} : c \in Contests} : CreateProblem(p, home)
  \/ \E r \in Calls :
       \/ \E op \in Ops, c \in Contests, u \in Users, p \in Problems : Begin(r, op, c, u, p)
       \/ Look(r) \/ Select(r) \/ Fill(r)
       \/ WriteRegistration(r) \/ DeleteRegistration(r) \/ WriteLink(r) \/ Sweep(r)
       \/ Admit(r) \/ RedisFails(r)

Spec == Init /\ [][Next]_vars
-----------------------------------------------------------------------------
Sweeping(k) == \E r \in Calls : call[r].at = "sweep" /\ call[r].key = k

(* A cached registration or problem list disagrees with the rows only if a  *)
(* write to them fell between the select and the set that filled it, if the *)
(* delete of it is still to come or failed, or if the write was a problem   *)
(* created inside the contest.  Invalidate-on-write leaves no other stale   *)
(* answer behind, whatever requests overlap.                                *)
StaleIsARace ==
  \A k \in Keys : k[1] # "ongoing" /\ Live(k) /\ cache[k].val # Query(k) =>
    k \in excused \/ Sweeping(k)

(* Somebody who has never registered anywhere passes the gate of a running  *)
(* contest's problem only while the list of running contests can still be   *)
(* older than the contest: within one expiry of its start, or of the        *)
(* problem's arrival in it.                                                 *)
OutsidersOnlyNearTheStart ==
  \A r \in Calls : call[r].at = "admit" =>
    \A c \in contests :
      /\ <<c, call[r].p>> \in links
      /\ Start[c] <= call[r].read /\ call[r].read <= End[c]
      /\ \A d \in Contests : <<d, call[r].u>> \notin ever
      => \/ call[r].read < Start[c] + OngoingTtl
         \/ call[r].read < linkedAt[<<c, call[r].p>>] + OngoingTtl
=============================================================================
