--------------------------- MODULE ServicesProofs ---------------------------
(* Proofs about what is derived from the rows of the core (Bloom, Contests, *)
(* Accounts, Standings, Archive), for every value of the constants that     *)
(* MCServices' assumptions admit, and the two theorems that put together    *)
(* what is proved of all components.  TLC compares copies on a few rows;    *)
(* here the invariants say of every copy why it may be old.                 *)
EXTENDS GuardsProofs

-----------------------------------------------------------------------------
(* Bloom.                                                                   *)

\* A step of the parts is one of the filter or leaves it as it is.
LEMMA BloomSteps == [MCNext]_allVars => [Filter!Next]_bloomVars
BY DEF allVars, MCNext, Rest, Still, bloomVars

\* A row's bits are set or on their way, or some rebuild still has to set them,
\* or they were lost.
BitsCovered(i) ==
  \/ Offsets[i] \subseteq bits \cup adds[i]
  \/ i \in orphans
  \/ \E n \in Instances : boot[n].at = "deleted" /\ i \in boot[n].ids

\* Every row is covered.
BloomInv == Filter!TypeOK /\ \A i \in rows : BitsCovered(i)

\* There are no rows at first.
LEMMA BloomInit == Filter!Init => BloomInv
<1> SUFFICES ASSUME Filter!Init PROVE BloomInv
  OBVIOUS
<1>1. Filter!Init
  OBVIOUS
<1> QED
  BY <1>1, BloomAssumption DEF Filter!Init, Filter!Ready, Filter!TypeOK, BloomInv

\* Adding a row sends its bits; a rebuild reads every row before it deletes the key.
LEMMA BloomNext == BloomInv /\ [Filter!Next]_bloomVars => BloomInv'
<1> SUFFICES ASSUME BloomInv, [Filter!Next]_bloomVars PROVE BloomInv'
  OBVIOUS
<1> USE BloomAssumption DEF BloomInv, Filter!TypeOK
\* The rebuild of one instance goes on.
<1>b. ASSUME NEW n \in Instances, NEW to, boot' = [boot EXCEPT ![n] = to]
      PROVE  boot'[n] = to /\ \A m \in Instances \ {n} : boot'[m] = boot[m]
  BY <1>b
<1>1. ASSUME NEW i \in Ids, Filter!Create(i) PROVE BloomInv'
  <2>1. /\ i \notin rows \cup Words /\ rows' = rows \cup {i} /\ adds' = [adds EXCEPT ![i] = Offsets[i]]
        /\ UNCHANGED <<bits, boot, boots, losses, orphans>>
    BY <1>1 DEF Filter!Create
  <2>2. Offsets[i] \subseteq Filter!Bits
    BY DEF Filter!Bits
  <2>3. \A j \in rows' : BitsCovered(j)'
    BY <2>1 DEF BitsCovered
  <2> QED
    BY <2>1, <2>2, <2>3
<1>2. ASSUME NEW i \in Ids, Filter!LoseAdd(i) PROVE BloomInv'
  BY <1>2 DEF Filter!LoseAdd, BitsCovered
<1>3. ASSUME NEW i \in Ids, NEW b \in Filter!Bits, Filter!SetBit(i, b) PROVE BloomInv'
  <2>1. /\ bits' = bits \cup {b} /\ adds' = [adds EXCEPT ![i] = @ \ {b}]
        /\ UNCHANGED <<rows, boot, boots, losses, orphans>>
    BY <1>3 DEF Filter!SetBit
  <2>2. \A j \in Ids : bits \cup adds[j] \subseteq bits' \cup adds'[j]
    BY <2>1
  <2>3. \A j \in rows' : BitsCovered(j)'
    BY <2>1, <2>2 DEF BitsCovered
  <2> QED
    BY <2>1, <2>3
<1>4. ASSUME NEW n \in Instances, Filter!SelectIds(n) PROVE BloomInv'
  <2>1. /\ boot' = [boot EXCEPT ![n] = [at |-> "selected", ids |-> rows]] /\ boot[n] = Filter!Ready
        /\ boots' = boots + 1 /\ boots < MaxBoots /\ UNCHANGED <<rows, adds, bits, losses, orphans>>
    BY <1>4 DEF Filter!SelectIds
  <2>2. \A j \in rows' : BitsCovered(j)'
    BY <1>b, <2>1 DEF BitsCovered, Filter!Ready
  <2> QED
    BY <2>1, <2>2
<1>5. ASSUME NEW n \in Instances, Filter!DeleteFilter(n) PROVE BloomInv'
  <2> DEFINE to == [boot[n] EXCEPT !.at = "deleted"]
  <2>1. /\ boot' = [boot EXCEPT ![n] = to]
        /\ orphans' = (orphans \cup rows) \ boot[n].ids
        /\ bits' = {} /\ UNCHANGED <<rows, adds, boots, losses>>
    BY <1>5 DEF Filter!DeleteFilter
  <2>2. to.at = "deleted" /\ to.ids = boot[n].ids /\ to \in [at : {"ready", "selected", "deleted"}, ids : SUBSET Ids]
    OBVIOUS
  <2>3. boot'[n].at = "deleted" /\ boot'[n].ids = boot[n].ids
    BY <1>b, <2>1, <2>2
  <2>4. \A j \in rows' : BitsCovered(j)'
    BY <2>1, <2>3 DEF BitsCovered
  <2> QED
    BY <2>1, <2>2, <2>4
<1>6. ASSUME NEW n \in Instances, Filter!AddSelected(n) PROVE BloomInv'
  <2>0. boot[n].at = "deleted" /\ UNCHANGED <<rows, adds, boots, losses>>
    BY <1>6 DEF Filter!AddSelected
  <2>1. CASE boot[n].ids = {}
    <3>1. boot' = [boot EXCEPT ![n] = Filter!Ready] /\ UNCHANGED <<bits, orphans>>
      BY <1>6, <2>1 DEF Filter!AddSelected
    <3>2. \A j \in rows' : BitsCovered(j)'
      BY <1>b, <2>0, <2>1, <3>1 DEF BitsCovered
    <3> QED
      BY <2>0, <3>1, <3>2 DEF Filter!Ready
  <2>2. CASE boot[n].ids # {}
    <3>1. PICK i \in boot[n].ids :
            /\ bits' = bits \cup Offsets[i]
            /\ boot' = [boot EXCEPT ![n].ids = @ \ {i}]
            /\ orphans' = {o \in orphans : ~(Offsets[o] \subseteq bits')}
      BY <1>6, <2>2 DEF Filter!AddSelected
    <3> DEFINE to == [boot[n] EXCEPT !.ids = @ \ {i}]
    <3>2. /\ to.at = "deleted" /\ to.ids = boot[n].ids \ {i}
          /\ to \in [at : {"ready", "selected", "deleted"}, ids : SUBSET Ids]
      BY <2>0
    <3>3. boot'[n] = to /\ \A m \in Instances \ {n} : boot'[m] = boot[m]
      BY <3>1
    <3> HIDE DEF to
    <3>4. \A j \in rows' : BitsCovered(j)'
      BY <2>0, <3>1, <3>2, <3>3 DEF BitsCovered
    <3>5. Offsets[i] \subseteq Filter!Bits /\ i \in Ids
      BY DEF Filter!Bits
    <3>6. boot' \in [Instances -> [at : {"ready", "selected", "deleted"}, ids : SUBSET Ids]]
      BY <3>1, <3>2, <3>3
    <3> QED
      BY <2>0, <3>1, <3>4, <3>5, <3>6
  <2> QED
    BY <2>1, <2>2
<1>7. ASSUME NEW n \in Instances, Filter!LosePipeline(n) PROVE BloomInv'
  <2>1. /\ losses < MaxLosses /\ losses' = losses + 1 /\ boot' = [boot EXCEPT ![n] = Filter!Ready]
        /\ orphans' = IF boot[n].at = "deleted" THEN orphans \cup boot[n].ids ELSE orphans
        /\ UNCHANGED <<rows, adds, bits, boots>>
    BY <1>7 DEF Filter!LosePipeline
  <2>2. \A j \in rows' : BitsCovered(j)'
    BY <1>b, <2>1 DEF BitsCovered
  <2> QED
    BY <2>1, <2>2 DEF Filter!Ready
<1>8. CASE UNCHANGED bloomVars
  BY <1>8 DEF bloomVars, BitsCovered
<1> QED
  BY <1>1, <1>2, <1>3, <1>4, <1>5, <1>6, <1>7, <1>8 DEF Filter!Next

\* A row whose bits are not set is explained.
LEMMA BloomHolds == BloomInv => Filter!TypeOK /\ Filter!BlockedIsExplained
BY DEF BloomInv, BitsCovered, Filter!BlockedIsExplained, Filter!Blocked, Filter!TypeOK

-----------------------------------------------------------------------------
(* Contests.                                                                *)

\* A step of the parts is one of the contests or leaves them as they are.
LEMMA ContestSteps == [MCNext]_allVars => [Next]_vars
BY DEF allVars, MCNext, Rest, Still

\* The three kinds of keys.
LEMMA KeyShapes ==
  /\ \A c \in Contests, u \in Users :
       /\ RegistrationKey(c, u) \in Keys /\ RegistrationKey(c, u)[1] = "registration"
       /\ RegistrationKey(c, u)[2] = c /\ RegistrationKey(c, u)[3] = u
  /\ \A p \in Problems : OngoingKey(p) \in Keys /\ OngoingKey(p)[1] = "ongoing" /\ OngoingKey(p)[2] = p
  /\ \A c \in Contests : ProblemsKey(c) \in Keys /\ ProblemsKey(c)[1] = "problems" /\ ProblemsKey(c)[2] = c
  /\ \A k \in Keys :
       \/ k[1] = "registration" /\ k[2] \in Contests /\ k[3] \in Users /\ k = RegistrationKey(k[2], k[3])
       \/ k[1] = "ongoing" /\ k[2] \in Problems /\ k = OngoingKey(k[2])
       \/ k[1] = "problems" /\ k[2] \in Contests /\ k = ProblemsKey(k[2])
BY DEF Keys, RegistrationKey, OngoingKey, ProblemsKey

\* Types, and whoever is registered was so once.
ContestsTyped ==
  /\ now \in 0..MaxTime
  /\ contests \subseteq Contests /\ problems \subseteq Problems
  /\ links \subseteq contests \X problems /\ registered \subseteq contests \X Users
  /\ cache \in [Keys -> [val : Answers, exp : Nat]]
  /\ call \in [Calls -> {Idle} \cup Requests]
  /\ faults \in 0..MaxFaults
  /\ overtaken \subseteq Calls /\ excused \subseteq Keys
  /\ linkedAt \in [Contests \X Problems -> 0..MaxTime]
  /\ registered \subseteq ever /\ ever \subseteq contests \X Users

\* An answer is one to its key.
AnswerFits(k, val) ==
  /\ k[1] = "registration" => val \subseteq ever \cap {<<k[2], k[3]>>}
  /\ k[1] = "ongoing" => val \subseteq Contests
  /\ k[1] = "problems" => val \subseteq Problems

\* A request's key is the one its operation is about.
RequestFits(q) ==
  /\ q.op \in {"register", "deregister"} =>
       /\ q.at \in {"look", "select", "fill", "write", "sweep"}
       /\ q.key[1] = "registration" /\ q.key[2] \in contests /\ q.key[3] = q.u
  /\ q.op = "submit" =>
       /\ q.at \in {"look", "select", "fill", "admit"}
       /\ \/ q.key[1] = "ongoing" /\ q.key[2] = q.p
          \/ q.key[1] = "registration" /\ q.key[3] = q.u
  /\ q.op = "problems" => q.at \in {"look", "select", "fill"} /\ q.key[1] = "problems"
  /\ q.op = "link" =>
       /\ q.at \in {"write", "sweep"}
       /\ q.at = "write" => q.key[1] = "problems" /\ q.key[2] \in contests /\ q.p \in problems
  /\ q.read <= now

\* Why a contest of the problem is not in a list read at time t.
NotListed(p, val, t) ==
  \A c \in contests : <<c, p>> \in links /\ c \notin val =>
    ~(Start[c] <= t /\ t <= End[c]) \/ t <= linkedAt[<<c, p>>]

\* A value about to be cached is the rows', or they have changed since it was read.
FillSound(r) == call[r].at = "fill" =>
  /\ AnswerFits(call[r].key, call[r].ans)
  /\ call[r].key[1] # "ongoing" => call[r].ans = Query(call[r].key) \/ r \in overtaken
  /\ call[r].key[1] = "ongoing" => NotListed(call[r].key[2], call[r].ans, now)
\* So is a live value, or the key is about to be deleted, or it was excused; a list
\* of running contests was right when it was read, and lives for OngoingTtl.
CacheSound(k) ==
  /\ AnswerFits(k, cache[k].val)
  /\ k[1] # "ongoing" /\ Live(k) => cache[k].val = Query(k) \/ k \in excused \/ Sweeping(k)
  /\ k[1] = "ongoing" /\ Live(k) => \E t \in 0..now :
       cache[k].exp = t + OngoingTtl /\ NotListed(k[2], cache[k].val, t)
\* A submission that nobody is registered for was let in because of an old list.
AdmitSound(r) == call[r].at = "admit" =>
    \A c \in contests :
      /\ <<c, call[r].p>> \in links
      /\ Start[c] <= call[r].read /\ call[r].read <= End[c]
      /\ \A d \in Contests : <<d, call[r].u>> \notin ever
      => \/ call[r].read < Start[c] + OngoingTtl
         \/ call[r].read < linkedAt[<<c, call[r].p>>] + OngoingTtl

\* All of it.
ContestInv ==
  /\ ContestsTyped
  /\ \A r \in Calls : call[r] # Idle => RequestFits(call[r])
  /\ \A r \in Calls : FillSound(r) /\ AdmitSound(r)
  /\ \A k \in Keys : CacheSound(k)

\* Nothing is cached at first.
LEMMA ContestInit == Init => ContestInv
<1> SUFFICES ASSUME Init PROVE ContestInv
  OBVIOUS
<1>1. Init
  OBVIOUS
<1>2. cache \in [Keys -> [val : Answers, exp : Nat]] /\ \A k \in Keys : cache[k] = None
  BY <1>1 DEF Init, None, Answers
<1>3. \A r \in Calls : call[r] = Idle /\ call[r].at = "idle"
  BY <1>1 DEF Init, Idle
<1>4. ContestsTyped
  BY <1>1, <1>2, ContestsAssumption DEF Init, ContestsTyped
<1>5. \A k \in Keys : CacheSound(k)
  BY <1>1, <1>2, <1>4 DEF CacheSound, AnswerFits, Live, None, ContestsTyped
<1>6. \A r \in Calls : FillSound(r) /\ AdmitSound(r)
  BY <1>3 DEF FillSound, AdmitSound
<1> QED
  BY <1>3, <1>4, <1>5, <1>6 DEF ContestInv

\* What a request that is not idle looks like.
LEMMA CallsAreRequests ==
  ASSUME ContestInv, NEW r \in Calls, call[r].at \in Steps
  PROVE  /\ call[r] \in Requests /\ call[r] # Idle /\ RequestFits(call[r])
         /\ call[r].key \in Keys /\ call[r].op \in Ops /\ call[r].u \in Users /\ call[r].p \in Problems
         /\ call[r].ans \in Answers /\ call[r].todo \in SUBSET Contests /\ call[r].read \in 0..MaxTime
<1>1. call[r] # Idle
  BY DEF Idle, Steps
<1> QED
  BY <1>1 DEF ContestInv, ContestsTyped, Requests

\* The request that is left after an answer.
LEMMA ProceedFits ==
  ASSUME ContestInv, NEW r \in Calls, call[r].at \in {"look", "fill"}, NEW ans, AnswerFits(call[r].key, ans),
         NEW next \in Proceed(r, call[r].key, ans, Listed(r))
  PROVE  \/ next = Idle
         \/ /\ next \in Requests /\ RequestFits(next) /\ next.at \in {"look", "write", "admit"}
            /\ next.at = "admit" =>
                 /\ next.p = call[r].p /\ next.u = call[r].u
                 /\ \/ call[r].key = OngoingKey(next.p) /\ ans = {} /\ next.read = now
                    \/ \E d \in Contests : <<d, next.u>> \in ever
<1> DEFINE k == call[r].key
           q == [call[r] EXCEPT !.ans = {}]
           listed == Listed(r)
           Ask(c, todo) == [q EXCEPT !.at = "look", !.key = RegistrationKey(c, q.u),
                              !.todo = todo \ {c}, !.read = listed]
           passed == [q EXCEPT !.at = "admit", !.todo = {}, !.read = listed]
<1>1. /\ call[r] \in Requests /\ RequestFits(call[r]) /\ k \in Keys /\ call[r].op \in Ops
      /\ call[r].u \in Users /\ call[r].p \in Problems
      /\ call[r].todo \in SUBSET Contests /\ call[r].read \in 0..MaxTime
  BY CallsAreRequests DEF Steps
<1>2. listed \in 0..MaxTime /\ listed <= now /\ (k[1] = "ongoing" => listed = now)
  BY <1>1, ContestsAssumption DEF Listed, ContestInv, ContestsTyped, RequestFits
<1>3. /\ q \in Requests /\ q.op = call[r].op /\ q.at = call[r].at /\ q.key = k /\ q.u = call[r].u
      /\ q.p = call[r].p /\ q.read = call[r].read /\ q.todo = call[r].todo
  BY <1>1 DEF Requests, Answers
<1> HIDE DEF q, listed, k
<1>4. ASSUME NEW c \in Contests, NEW todo \in SUBSET Contests, q.op = "submit"
      PROVE  Ask(c, todo) \in Requests /\ RequestFits(Ask(c, todo)) /\ Ask(c, todo).at = "look"
  <2>1. /\ Ask(c, todo) \in Requests /\ Ask(c, todo).at = "look" /\ Ask(c, todo).op = q.op
        /\ Ask(c, todo).key = RegistrationKey(c, q.u) /\ Ask(c, todo).u = q.u /\ Ask(c, todo).read = listed
    BY <1>1, <1>2, <1>3, KeyShapes DEF Requests, Steps
  <2> HIDE DEF Ask
  <2> QED
    BY <1>1, <1>2, <1>3, <1>4, <2>1, KeyShapes DEF RequestFits
<1>5. /\ passed \in Requests /\ passed.at = "admit" /\ passed.op = q.op /\ passed.key = k
      /\ passed.u = q.u /\ passed.p = q.p /\ passed.read = listed
  BY <1>1, <1>2, <1>3 DEF Requests, Steps
<1> DEFINE written == [q EXCEPT !.at = "write"]
<1>6. /\ written \in Requests /\ written.at = "write" /\ written.op = q.op /\ written.key = k
      /\ written.u = q.u /\ written.p = q.p /\ written.read = q.read
  BY <1>1, <1>2, <1>3 DEF Requests, Steps
<1>7. Proceed(r, k, ans, listed) =
        CASE q.op = "problems" -> {Idle}
          [] q.op = "register" -> {IF ans # {} \/ now > End[k[2]] THEN Idle ELSE written}
          [] q.op = "deregister" -> {IF ans = {} \/ now >= Start[k[2]] THEN Idle ELSE written}
          [] k[1] = "ongoing" -> IF ans = {} THEN {passed} ELSE {Ask(c, ans) : c \in ans}
          [] OTHER -> IF ans # {} THEN {passed}
                      ELSE IF q.todo = {} THEN {Idle} ELSE {Ask(c, q.todo) : c \in q.todo}
  BY DEF Proceed, q
<1> HIDE DEF Ask, passed, written
<1>8. next \in Proceed(r, k, ans, listed)
  BY DEF k, listed
<1>9. CASE q.op = "problems"
  <2>1. k[1] # "ongoing"
    BY <1>1, <1>3, <1>9 DEF RequestFits, k
  <2> QED
    BY <1>7, <1>8, <1>9, <2>1
<1>10. CASE q.op \in {"register", "deregister"}
  <2>1. next = Idle \/ next = written
    <3>1. k[1] # "ongoing"
      BY <1>1, <1>3, <1>10 DEF RequestFits, k
    <3> QED
      BY <1>7, <1>8, <1>10, <3>1
  <2>2. RequestFits(written)
    BY <1>1, <1>3, <1>6, <1>10 DEF RequestFits, k
  <2> QED
    BY <1>6, <2>1, <2>2
<1>11. CASE q.op = "submit" /\ k[1] = "ongoing"
  <2>1. k = OngoingKey(q.p) /\ ans \subseteq Contests
    BY <1>1, <1>3, <1>11, KeyShapes DEF RequestFits, AnswerFits, k
  <2>2. CASE ans = {}
    <3>1. next = passed
      BY <1>7, <1>8, <1>11, <2>2
    <3>2. RequestFits(passed)
      BY <1>1, <1>2, <1>3, <1>5, <1>11, <2>1, KeyShapes DEF RequestFits
    <3> QED
      BY <1>2, <1>3, <1>5, <1>11, <2>1, <2>2, <3>1, <3>2 DEF k
  <2>3. CASE ans # {}
    <3>1. PICK c \in ans : next = Ask(c, ans)
      BY <1>7, <1>8, <1>11, <2>3
    <3> QED
      BY <1>4, <1>11, <2>1, <3>1
  <2> QED
    BY <2>2, <2>3
<1>12. CASE q.op = "submit" /\ k[1] # "ongoing"
  <2>1. k[1] = "registration" /\ k[3] = q.u /\ k[2] \in Contests
    BY <1>1, <1>3, <1>12, KeyShapes DEF RequestFits, k
  <2>2. CASE ans # {}
    <3>1. next = passed
      BY <1>7, <1>8, <1>12, <2>2
    <3>2. RequestFits(passed)
      BY <1>1, <1>2, <1>3, <1>5, <1>12, <2>1 DEF RequestFits
    <3>3. <<k[2], k[3]>> \in ever
      BY <2>1, <2>2 DEF AnswerFits, k
    <3> QED
      BY <1>3, <1>5, <2>1, <3>1, <3>2, <3>3
  <2>3. CASE ans = {}
    <3>1. next = Idle \/ \E c \in q.todo : next = Ask(c, q.todo)
      BY <1>7, <1>8, <1>12, <2>3
    <3> QED
      BY <1>1, <1>3, <1>4, <1>12, <3>1
  <2> QED
    BY <2>2, <2>3
<1>13. q.op # "link"
  BY <1>1, <1>3 DEF RequestFits
<1> QED
  BY <1>1, <1>3, <1>9, <1>10, <1>11, <1>12, <1>13 DEF Ops

\* What does not change when a call leaves the rows alone.
ContestRows == <<contests, problems, links, registered, linkedAt, ever>>

\* Then nothing read from them changes.
LEMMA SameContestRows ==
  ASSUME ContestsTyped, UNCHANGED <<now, ContestRows>>
  PROVE  /\ \A k : Query(k)' = Query(k)
         /\ \A p, val, t : NotListed(p, val, t)' <=> NotListed(p, val, t)
         /\ \A k, val : AnswerFits(k, val)' <=> AnswerFits(k, val)
         /\ \A q : RequestFits(q)' <=> RequestFits(q)
BY DEF ContestRows, Query, FindRegistration, FindOngoing, FindProblems, Running, NotListed, AnswerFits, RequestFits

\* A select answers its key; what it does not list is not there at the time.
LEMMA SelectsFit ==
  ASSUME ContestInv, NEW k \in Keys
  PROVE  /\ AnswerFits(k, Query(k)) /\ Query(k) \in Answers
         /\ k[1] = "ongoing" => NotListed(k[2], Query(k), now)
<1>1. k[1] = "registration" => Query(k) = registered \cap {<<k[2], k[3]>>}
  BY DEF Query, FindRegistration
<1>2. k[1] = "ongoing" => Query(k) = {c \in contests : Running(c) /\ <<c, k[2]>> \in links}
  BY DEF Query, FindOngoing
<1>3. k[1] = "problems" => Query(k) = {p \in problems : <<k[2], p>> \in links}
  BY KeyShapes DEF Query, FindProblems
<1>4. ContestsTyped
  BY DEF ContestInv
<1>5. AnswerFits(k, Query(k))
  BY <1>1, <1>2, <1>3, <1>4 DEF AnswerFits, ContestsTyped
<1>6. Query(k) \in Answers
  <2>1. k[1] = "registration" => Query(k) \in SUBSET (Contests \X Users)
    BY <1>1, <1>4 DEF ContestsTyped
  <2>2. k[1] = "ongoing" => Query(k) \in SUBSET Contests
    BY <1>2, <1>4 DEF ContestsTyped
  <2>3. k[1] = "problems" => Query(k) \in SUBSET Problems
    BY <1>3, <1>4 DEF ContestsTyped
  <2>4. k[1] \in {"registration", "ongoing", "problems"}
    BY KeyShapes
  <2> QED
    BY <2>1, <2>2, <2>3, <2>4 DEF Answers
<1>7. k[1] = "ongoing" => NotListed(k[2], Query(k), now)
  BY <1>2 DEF NotListed, Running
<1> QED
  BY <1>5, <1>6, <1>7

\* A request goes on and nothing else changes.
LEMMA RequestMoves ==
  ASSUME ContestInv, NEW r \in Calls, NEW q,
         q = Idle \/ (q \in Requests /\ RequestFits(q)),
         call' = [call EXCEPT ![r] = q], faults' \in 0..MaxFaults,
         UNCHANGED <<now, ContestRows, cache, excused>>,
         overtaken' \in {overtaken, overtaken \ {r}},
         call[r].at # "sweep",
         FillSound(r)', AdmitSound(r)'
  PROVE  ContestInv'
<1>0. ContestsTyped
  BY DEF ContestInv
<1>1. call'[r] = q /\ \A s \in Calls \ {r} : call'[s] = call[s]
  BY <1>0 DEF ContestsTyped
<1>2. ContestsTyped'
  BY <1>0 DEF ContestsTyped, ContestRows
<1>3. \A s \in Calls : (call[s] # Idle => RequestFits(call[s]))'
  BY <1>0, <1>1, SameContestRows DEF ContestInv
<1>4. ASSUME NEW s \in Calls PROVE FillSound(s)' /\ AdmitSound(s)'
  <2>1. CASE s # r
    <3>1. FillSound(s)'
      BY <1>0, <1>1, <2>1, SameContestRows DEF ContestInv, FillSound, ContestRows
    <3>2. AdmitSound(s)'
      BY <1>0, <1>1, <2>1 DEF ContestInv, AdmitSound, ContestRows
    <3> QED
      BY <3>1, <3>2
  <2> QED
    BY <2>1
<1>5. ASSUME NEW k \in Keys PROVE CacheSound(k)'
  <2>1. Sweeping(k) => Sweeping(k)'
    BY <1>1 DEF Sweeping
  <2>2. Live(k)' <=> Live(k)
    BY DEF Live
  <2> QED
    BY <1>0, <2>1, <2>2, SameContestRows DEF ContestInv, CacheSound
<1> QED
  BY <1>2, <1>3, <1>4, <1>5 DEF ContestInv

\* A request starts.
LEMMA BeginKeeps ==
  ASSUME ContestInv, NEW r \in Calls, NEW op \in Ops, NEW c \in Contests, NEW u \in Users, NEW p \in Problems,
         Begin(r, op, c, u, p)
  PROVE  ContestInv'
<1>0. ContestsTyped /\ 0 \in 0..MaxTime /\ now \in Nat
  BY ContestsAssumption DEF ContestInv, ContestsTyped
<1>1. PICK k \in Keys, place \in {"look", "write"} :
        /\ call' = [call EXCEPT ![r] = Request(op, u, p, k, place)]
        /\ op \in {"register", "deregister"} => k = RegistrationKey(c, u) /\ place = "look"
        /\ op = "submit" => k = OngoingKey(p) /\ place = "look"
        /\ op = "problems" => k = ProblemsKey(c) /\ place = "look"
        /\ op = "link" => k = ProblemsKey(c) /\ place = "write"
  <2>1. CASE op \in {"register", "deregister"}
    BY <2>1, KeyShapes DEF Begin
  <2>2. CASE op = "submit"
    BY <2>2, KeyShapes DEF Begin
  <2>3. CASE op = "problems"
    BY <2>3, KeyShapes DEF Begin
  <2>4. CASE op = "link"
    BY <2>4, KeyShapes DEF Begin
  <2> QED
    BY <2>1, <2>2, <2>3, <2>4 DEF Ops
<1> DEFINE q == Request(op, u, p, k, place)
<1>2. /\ q \in Requests /\ q.op = op /\ q.u = u /\ q.p = p /\ q.key = k /\ q.at = place /\ q.read = 0
  BY <1>0 DEF Request, Requests, Steps, Answers
<1>3. Known(op, c, p) /\ call[r] = Idle /\ UNCHANGED <<now, ContestRows, cache, excused, faults, overtaken>>
  BY DEF Begin, tables, ghosts, ContestRows
<1> HIDE DEF q
<1>4. RequestFits(q)
  BY <1>0, <1>1, <1>2, <1>3, KeyShapes DEF RequestFits, Known
<1>5. call' = [call EXCEPT ![r] = q] /\ call'[r] = q
  BY <1>0, <1>1 DEF q, ContestsTyped
<1>6. FillSound(r)' /\ AdmitSound(r)'
  BY <1>2, <1>5 DEF FillSound, AdmitSound
<1>7. call[r].at # "sweep" /\ faults' \in 0..MaxFaults
  BY <1>0, <1>3 DEF Idle, ContestsTyped
<1> QED
  BY <1>2, <1>3, <1>4, <1>5, <1>6, <1>7, RequestMoves

\* getOrSet reads the cache.
LEMMA LookKeeps ==
  ASSUME ContestInv, NEW r \in Calls, Look(r)
  PROVE  ContestInv'
<1>0. ContestsTyped
  BY DEF ContestInv
<1>1. call[r].at = "look" /\ UNCHANGED <<now, ContestRows, cache, excused, faults, overtaken>>
  BY DEF Look, tables, ghosts, ContestRows
<1>2. call[r] \in Requests /\ RequestFits(call[r]) /\ call[r].key \in Keys
  BY <1>1, CallsAreRequests DEF Steps
<1>3. CASE Live(call[r].key)
  <2> DEFINE k == call[r].key
  <2>1. PICK next \in Proceed(r, k, cache[k].val, Listed(r)) : call' = [call EXCEPT ![r] = next]
    BY <1>3 DEF Look
  <2>2. CacheSound(k) /\ AnswerFits(k, cache[k].val)
    BY <1>2 DEF ContestInv, CacheSound
  <2>3. \/ next = Idle
        \/ /\ next \in Requests /\ RequestFits(next) /\ next.at \in {"look", "write", "admit"}
           /\ next.at = "admit" =>
                /\ next.p = call[r].p /\ next.u = call[r].u
                /\ \/ k = OngoingKey(next.p) /\ cache[k].val = {} /\ next.read = now
                   \/ \E d \in Contests : <<d, next.u>> \in ever
    BY <1>1, <2>1, <2>2, ProceedFits
  <2>4. call'[r] = next
    BY <1>0, <2>1 DEF ContestsTyped
  <2>5. FillSound(r)'
    BY <2>3, <2>4 DEF FillSound, Idle
  <2>6. AdmitSound(r)'
    <3> SUFFICES ASSUME next.at = "admit", NEW c \in contests, <<c, next.p>> \in links,
                        Start[c] <= next.read, next.read <= End[c],
                        \A d \in Contests : <<d, next.u>> \notin ever
                 PROVE  next.read < Start[c] + OngoingTtl \/ next.read < linkedAt[<<c, next.p>>] + OngoingTtl
      BY <1>1, <2>4 DEF AdmitSound, ContestRows
    <3>1. k = OngoingKey(next.p) /\ cache[k].val = {} /\ next.read = now /\ next.p \in Problems
      <4>1. next # Idle
        BY DEF Idle
      <4>2. next \in Requests
        BY <2>3, <4>1
      <4>3. next.p \in Problems
        BY <4>2 DEF Requests
      <4> QED
        BY <2>3, <4>1, <4>3
    <3>2. PICK t \in 0..now : cache[k].exp = t + OngoingTtl /\ NotListed(next.p, cache[k].val, t)
      BY <1>3, <2>2, <3>1, KeyShapes DEF CacheSound
    <3>3. ~(Start[c] <= t /\ t <= End[c]) \/ t <= linkedAt[<<c, next.p>>]
      BY <3>1, <3>2 DEF NotListed
    <3>4. c \in Contests /\ Start[c] \in Nat /\ End[c] \in Nat /\ now \in Nat /\ linkedAt[<<c, next.p>>] \in Nat
          /\ OngoingTtl \in Nat /\ t \in Nat /\ t <= now
      BY <1>0, <3>1, ContestsAssumption DEF ContestsTyped
    <3>5. now < t + OngoingTtl
      BY <1>3, <3>2 DEF Live
    <3> QED
      BY <3>1, <3>3, <3>4, <3>5
  <2>7. faults' \in 0..MaxFaults /\ (next = Idle \/ (next \in Requests /\ RequestFits(next)))
    BY <1>0, <1>1, <2>3 DEF ContestsTyped
  <2> QED
    BY <1>1, <2>1, <2>5, <2>6, <2>7, RequestMoves
<1>4. CASE ~Live(call[r].key)
  <2> DEFINE q == [call[r] EXCEPT !.at = "select"]
  <2>1. call' = [call EXCEPT ![r] = q]
    BY <1>4 DEF Look
  <2>2. /\ q \in Requests /\ q.at = "select" /\ q.op = call[r].op /\ q.key = call[r].key /\ q.u = call[r].u
        /\ q.p = call[r].p /\ q.read = call[r].read
    BY <1>2 DEF Requests, Steps
  <2> HIDE DEF q
  <2>3. RequestFits(q)
    BY <1>1, <1>2, <2>2 DEF RequestFits
  <2>4. call'[r] = q
    BY <1>0, <2>1 DEF ContestsTyped
  <2>5. FillSound(r)' /\ AdmitSound(r)'
    BY <2>2, <2>4 DEF FillSound, AdmitSound
  <2>6. faults' \in 0..MaxFaults
    BY <1>0, <1>1 DEF ContestsTyped
  <2> QED
    BY <1>1, <2>1, <2>2, <2>3, <2>5, <2>6, RequestMoves
<1> QED
  BY <1>3, <1>4

\* It misses, and reads the rows.
LEMMA SelectKeeps ==
  ASSUME ContestInv, NEW r \in Calls, Select(r)
  PROVE  ContestInv'
<1> DEFINE k == call[r].key
           q == [call[r] EXCEPT !.at = "fill", !.ans = Query(k)]
<1>0. ContestsTyped
  BY DEF ContestInv
<1>1. /\ call[r].at = "select" /\ UNCHANGED <<now, ContestRows, cache, excused, faults>>
      /\ overtaken' = overtaken \ {r} /\ call' = [call EXCEPT ![r] = q]
  BY DEF Select, tables, ContestRows
<1>2. call[r] \in Requests /\ RequestFits(call[r]) /\ call[r].key \in Keys
  BY <1>1, CallsAreRequests DEF Steps
<1>3. /\ AnswerFits(k, Query(k)) /\ Query(k) \in Answers
      /\ k[1] = "ongoing" => NotListed(k[2], Query(k), now)
  BY <1>2, SelectsFit
<1>4. /\ q \in Requests /\ q.at = "fill" /\ q.op = call[r].op /\ q.key = k /\ q.u = call[r].u
      /\ q.p = call[r].p /\ q.read = call[r].read /\ q.ans = Query(k)
  BY <1>2, <1>3 DEF Requests, Steps
<1> HIDE DEF q, k
<1>5. RequestFits(q)
  BY <1>1, <1>2, <1>4 DEF RequestFits, k
<1>6. call'[r] = q
  BY <1>0, <1>1 DEF ContestsTyped
<1>7. AdmitSound(r)'
  BY <1>4, <1>6 DEF AdmitSound
<1>8. FillSound(r)'
  BY <1>0, <1>1, <1>3, <1>4, <1>6, SameContestRows DEF FillSound
<1>9. faults' \in 0..MaxFaults /\ call[r].at # "sweep"
  BY <1>0, <1>1 DEF ContestsTyped
<1> QED
  BY <1>1, <1>4, <1>5, <1>7, <1>8, <1>9, RequestMoves

\* It caches what it has read, however old that is by now.
LEMMA FillKeeps ==
  ASSUME ContestInv, NEW r \in Calls, Fill(r)
  PROVE  ContestInv'
<1> DEFINE k == call[r].key
           ans == call[r].ans
<1>0. ContestsTyped
  BY DEF ContestInv
<1>1. call[r].at = "fill" /\ UNCHANGED <<now, ContestRows, faults>>
  BY DEF Fill, tables, ContestRows
<1>2. call[r] \in Requests /\ RequestFits(call[r]) /\ k \in Keys /\ ans \in Answers /\ call[r].p \in Problems
  BY <1>1, CallsAreRequests DEF Steps
<1>3. PICK next \in Proceed(r, k, ans, Listed(r)) : call' = [call EXCEPT ![r] = next]
  BY DEF Fill
<1>4. /\ cache' = [cache EXCEPT ![k] = [val |-> ans, exp |-> now + Ttl(k)]]
      /\ excused' = IF r \in overtaken THEN excused \cup {k} ELSE excused \ {k}
      /\ overtaken' = overtaken \ {r}
  BY DEF Fill
<1>5. /\ AnswerFits(k, ans)
      /\ k[1] # "ongoing" => ans = Query(k) \/ r \in overtaken
      /\ k[1] = "ongoing" => NotListed(k[2], ans, now)
  BY <1>1 DEF ContestInv, FillSound
<1>6. \/ next = Idle
      \/ /\ next \in Requests /\ RequestFits(next) /\ next.at \in {"look", "write", "admit"}
         /\ next.at = "admit" =>
              /\ next.p = call[r].p /\ next.u = call[r].u
              /\ \/ k = OngoingKey(next.p) /\ ans = {} /\ next.read = now
                 \/ \E d \in Contests : <<d, next.u>> \in ever
  BY <1>1, <1>3, <1>5, ProceedFits
<1> HIDE DEF k, ans
<1>7. call'[r] = next /\ \A s \in Calls \ {r} : call'[s] = call[s]
  BY <1>0, <1>3 DEF ContestsTyped
<1>8. now + Ttl(k) \in Nat /\ now \in Nat /\ Ttl(k) \in Nat /\ (k[1] = "ongoing" => Ttl(k) = OngoingTtl)
  BY <1>0, ContestsAssumption DEF ContestsTyped, Ttl
<1>9. ContestsTyped'
  BY <1>0, <1>1, <1>2, <1>3, <1>4, <1>6, <1>8 DEF ContestsTyped, ContestRows
<1>10. \A s \in Calls : (call[s] # Idle => RequestFits(call[s]))'
  BY <1>0, <1>1, <1>6, <1>7, SameContestRows DEF ContestInv
<1>11. ASSUME NEW s \in Calls PROVE FillSound(s)' /\ AdmitSound(s)'
  <2>1. CASE s # r
    <3>1. FillSound(s)'
      BY <1>0, <1>1, <1>4, <1>7, <2>1, SameContestRows DEF ContestInv, FillSound
    <3>2. AdmitSound(s)'
      BY <1>1, <1>7, <2>1 DEF ContestInv, AdmitSound, ContestRows
    <3> QED
      BY <3>1, <3>2
  <2>2. CASE s = r
    <3>1. FillSound(s)'
      BY <1>6, <1>7, <2>2 DEF FillSound, Idle
    <3>2. AdmitSound(s)'
      <4> SUFFICES ASSUME next.at = "admit", NEW c \in contests, <<c, next.p>> \in links,
                          Start[c] <= next.read, next.read <= End[c],
                          \A d \in Contests : <<d, next.u>> \notin ever
                   PROVE  next.read < Start[c] + OngoingTtl \/ next.read < linkedAt[<<c, next.p>>] + OngoingTtl
        BY <1>1, <1>7, <2>2 DEF AdmitSound, ContestRows
      <4>1. next # Idle
        BY DEF Idle
      <4>2. k = OngoingKey(next.p) /\ ans = {} /\ next.read = now /\ next.p \in Problems
        BY <1>2, <1>6, <4>1
      <4>3. ~(Start[c] <= now /\ now <= End[c]) \/ now <= linkedAt[<<c, next.p>>]
        BY <1>5, <4>2, KeyShapes DEF NotListed
      <4>4. c \in Contests /\ linkedAt[<<c, next.p>>] \in Nat /\ OngoingTtl \in Nat \ {0}
        BY <1>0, <4>2, ContestsAssumption DEF ContestsTyped
      <4> QED
        BY <1>8, <4>2, <4>3, <4>4
    <3> QED
      BY <3>1, <3>2
  <2> QED
    BY <2>1, <2>2
<1>12. ASSUME NEW j \in Keys PROVE CacheSound(j)'
  <2>1. CASE j # k
    <3>1. cache'[j] = cache[j] /\ (j \in excused <=> j \in excused')
      BY <1>0, <1>4, <2>1 DEF ContestsTyped
    <3>2. Sweeping(j) => Sweeping(j)'
      BY <1>1, <1>7 DEF Sweeping
    <3>3. Live(j)' <=> Live(j)
      BY <1>1, <3>1 DEF Live
    <3> QED
      BY <1>0, <1>1, <3>1, <3>2, <3>3, SameContestRows DEF ContestInv, CacheSound
  <2>2. CASE j = k
    <3>1. cache'[k].val = ans /\ cache'[k].exp = now + Ttl(k)
      BY <1>0, <1>2, <1>4 DEF ContestsTyped
    <3>2. r \in overtaken => k \in excused'
      BY <1>4
    <3>3. k[1] = "ongoing" => cache'[k].exp = now + OngoingTtl /\ now \in 0..now'
      BY <1>1, <1>8, <3>1
    <3> QED
      BY <1>0, <1>1, <1>5, <2>2, <3>1, <3>2, <3>3, SameContestRows DEF CacheSound
  <2> QED
    BY <2>1, <2>2
<1> QED
  BY <1>9, <1>10, <1>11, <1>12 DEF ContestInv

\* A submission is let in.
LEMMA AdmitKeeps ==
  ASSUME ContestInv, NEW r \in Calls, Admit(r)
  PROVE  ContestInv'
<1>1. /\ call[r].at = "admit" /\ call' = [call EXCEPT ![r] = Idle]
      /\ UNCHANGED <<now, ContestRows, cache, excused, faults, overtaken>>
  BY DEF Admit, Finish, tables, ghosts, ContestRows
<1>2. call'[r] = Idle /\ faults' \in 0..MaxFaults
  BY <1>1 DEF ContestInv, ContestsTyped
<1>3. FillSound(r)' /\ AdmitSound(r)'
  BY <1>2 DEF FillSound, AdmitSound, Idle
<1> QED
  BY <1>1, <1>2, <1>3, RequestMoves

\* A sweep, or one that fails.
LEMMA SweepKeeps ==
  ASSUME ContestInv, NEW r \in Calls, call[r].at = "sweep", NEW q, NEW k, k = call[r].key,
         q = Idle \/ (q = [call[r] EXCEPT !.key = OngoingKey(call[r].p)] /\ k[1] = "problems"),
         call' = [call EXCEPT ![r] = q], faults' \in 0..MaxFaults,
         UNCHANGED <<now, ContestRows>>, overtaken' \in {overtaken, overtaken \ {r}},
         \/ cache' = [cache EXCEPT ![k] = None] /\ excused' = excused \ {k}
         \/ cache' = cache /\ excused' = excused \cup {k} /\ q = Idle
  PROVE  ContestInv'
<1>0. ContestsTyped /\ None \in [val : Answers, exp : Nat] /\ None.val = {} /\ None.exp = 0 /\ now \in Nat
  BY ContestsAssumption DEF ContestInv, ContestsTyped, None, Answers
<1>1. call[r] \in Requests /\ RequestFits(call[r]) /\ k \in Keys /\ call[r].p \in Problems
  BY CallsAreRequests DEF Steps
<1>2. q = Idle \/ (q \in Requests /\ RequestFits(q) /\ q.at = "sweep")
  <2>1. CASE q = [call[r] EXCEPT !.key = OngoingKey(call[r].p)] /\ k[1] = "problems"
    <3>1. /\ q \in Requests /\ q.at = "sweep" /\ q.op = call[r].op /\ q.read = call[r].read /\ q.op \in Ops
          /\ call[r].at = "sweep"
      BY <1>1, <2>1, KeyShapes DEF Requests
    <3>2. q.op = "link"
      BY <1>1, <2>1, <3>1 DEF RequestFits, Ops
    <3> QED
      BY <1>1, <3>1, <3>2 DEF RequestFits
  <2> QED
    BY <2>1
<1>3. call'[r] = q /\ \A s \in Calls \ {r} : call'[s] = call[s]
  BY <1>0 DEF ContestsTyped
<1>4. cache' \in [Keys -> [val : Answers, exp : Nat]] /\ excused' \subseteq Keys
  BY <1>0, <1>1 DEF ContestsTyped
<1>5. ContestsTyped'
  BY <1>0, <1>2, <1>4 DEF ContestsTyped, ContestRows
<1>6. \A s \in Calls : (call[s] # Idle => RequestFits(call[s]))'
  BY <1>0, <1>2, <1>3, SameContestRows DEF ContestInv
<1>7. ASSUME NEW s \in Calls PROVE FillSound(s)' /\ AdmitSound(s)'
  <2>1. CASE s # r
    <3>1. FillSound(s)'
      BY <1>0, <1>3, <2>1, SameContestRows DEF ContestInv, FillSound
    <3>2. AdmitSound(s)'
      BY <1>3, <2>1 DEF ContestInv, AdmitSound, ContestRows
    <3> QED
      BY <3>1, <3>2
  <2>2. CASE s = r
    BY <1>2, <1>3, <2>2 DEF FillSound, AdmitSound, Idle
  <2> QED
    BY <2>1, <2>2
<1>8. ASSUME NEW j \in Keys PROVE CacheSound(j)'
  <2>1. CASE j # k
    <3>1. cache'[j] = cache[j] /\ (j \in excused <=> j \in excused')
      BY <1>0, <2>1 DEF ContestsTyped
    <3>2. Sweeping(j) => Sweeping(j)'
      BY <1>3, <2>1 DEF Sweeping
    <3>3. Live(j)' <=> Live(j)
      BY <3>1 DEF Live
    <3> QED
      BY <1>0, <3>1, <3>2, <3>3, SameContestRows DEF ContestInv, CacheSound
  <2>2. CASE j = k /\ cache' = [cache EXCEPT ![k] = None]
    <3>1. cache'[j].val = {} /\ cache'[j].exp = 0
      BY <1>0, <1>1, <2>2 DEF ContestsTyped
    <3>2. ~Live(j)'
      BY <1>0, <3>1 DEF Live
    <3>3. AnswerFits(j, cache[j].val)'
      BY <3>1 DEF AnswerFits
    <3> QED
      BY <3>2, <3>3 DEF CacheSound
  <2>3. CASE j = k /\ cache' = cache /\ excused' = excused \cup {k}
    <3>1. Live(j)' <=> Live(j)
      BY <2>3 DEF Live
    <3> QED
      BY <1>0, <2>3, <3>1, SameContestRows DEF ContestInv, CacheSound
  <2> QED
    BY <2>1, <2>2, <2>3
<1> QED
  BY <1>5, <1>6, <1>7, <1>8 DEF ContestInv

\* The keys of a write are deleted, one by one.
LEMMA SweepStepKeeps ==
  ASSUME ContestInv, NEW r \in Calls, Sweep(r)
  PROVE  ContestInv'
<1>1. PICK k : k = call[r].key
  OBVIOUS
<1>2. /\ call[r].at = "sweep" /\ UNCHANGED <<now, ContestRows, faults, overtaken>>
      /\ cache' = [cache EXCEPT ![k] = None] /\ excused' = excused \ {k}
  BY <1>1 DEF Sweep, tables, ContestRows
<1>3. faults' \in 0..MaxFaults
  BY <1>2 DEF ContestInv, ContestsTyped
<1>4. PICK q : /\ q = Idle \/ (q = [call[r] EXCEPT !.key = OngoingKey(call[r].p)] /\ k[1] = "problems")
               /\ call' = [call EXCEPT ![r] = q]
  <2>1. CASE k[1] = "problems"
    BY <1>1, <2>1 DEF Sweep
  <2>2. CASE k[1] # "problems"
    <3>1. call' = [call EXCEPT ![r] = Idle]
      BY <1>1, <2>2 DEF Sweep, Finish
    <3> QED
      BY <3>1
  <2> QED
    BY <2>1, <2>2
<1> QED
  BY <1>1, <1>2, <1>3, <1>4, SweepKeeps

\* Redis does not answer: a read goes to the rows, a sweep is skipped.
LEMMA RedisFailsKeeps ==
  ASSUME ContestInv, NEW r \in Calls, RedisFails(r)
  PROVE  ContestInv'
<1>0. ContestsTyped
  BY DEF ContestInv
<1>1. /\ call[r].at \in {"look", "fill", "sweep"} /\ call' = [call EXCEPT ![r] = Idle]
      /\ UNCHANGED <<now, ContestRows, cache>> /\ overtaken' = overtaken \ {r}
      /\ faults' = faults + 1 /\ faults < MaxFaults
      /\ excused' = IF call[r].at = "sweep" THEN excused \cup {call[r].key} ELSE excused
  BY DEF RedisFails, Finish, tables, ContestRows
<1>2. faults' \in 0..MaxFaults /\ call'[r] = Idle
  BY <1>0, <1>1, ContestsAssumption DEF ContestsTyped
<1>3. CASE call[r].at = "sweep"
  <2>1. PICK k : k = call[r].key
    OBVIOUS
  <2>2. excused' = excused \cup {k} /\ cache' = cache
    BY <1>1, <1>3, <2>1
  <2>3. PICK q : q = Idle
    OBVIOUS
  <2>4. call' = [call EXCEPT ![r] = q] /\ UNCHANGED <<now, ContestRows>> /\ overtaken' \in {overtaken, overtaken \ {r}}
    BY <1>1, <2>3
  <2> QED
    BY <1>2, <1>3, <2>1, <2>2, <2>3, <2>4, SweepKeeps
<1>4. CASE call[r].at # "sweep"
  <2>1. FillSound(r)' /\ AdmitSound(r)'
    BY <1>2 DEF FillSound, AdmitSound, Idle
  <2>2. excused' = excused
    BY <1>1, <1>4
  <2> QED
    BY <1>1, <1>2, <1>4, <2>1, <2>2, RequestMoves
<1> QED
  BY <1>3, <1>4

\* A write: the rows behind the keys ks change, whoever is filling one of them
\* is overtaken, and a live answer is excused or about to be deleted.
LinkedSince(c, p) ==
  <<c, p>> \in links' =>
    (<<c, p>> \in links /\ linkedAt'[<<c, p>>] = linkedAt[<<c, p>>]) \/ linkedAt'[<<c, p>>] = now

\* Such a write keeps the invariant.
LEMMA WriteKeeps ==
  ASSUME ContestInv, ContestsTyped', NEW ks,
         UNCHANGED <<now, cache>>,
         contests \subseteq contests', problems \subseteq problems', ever \subseteq ever',
         \A c \in Contests, p \in Problems : LinkedSince(c, p),
         \A j \in Keys \ ks : j[1] # "ongoing" => Query(j)' = Query(j),
         \A j \in Keys \cap ks : j[1] # "ongoing" /\ Live(j) => j \in excused' \/ Sweeping(j)',
         overtaken' = overtaken \cup Filling(ks), excused \subseteq excused',
         \A s \in Calls : \/ call'[s] = call[s]
                          \/ call'[s].at = "sweep" /\ RequestFits(call[s])' /\ call[s].at # "sweep"
  PROVE  ContestInv'
<1>0. ContestsTyped /\ now \in Nat
  BY ContestsAssumption DEF ContestInv, ContestsTyped
<1>1. ASSUME NEW p \in Problems, NEW val, NEW t \in 0..now, NotListed(p, val, t)
      PROVE  NotListed(p, val, t)'
  <2> SUFFICES ASSUME NEW c \in contests', <<c, p>> \in links', c \notin val
               PROVE  ~(Start[c] <= t /\ t <= End[c]) \/ t <= linkedAt'[<<c, p>>]
    BY DEF NotListed
  <2>1. c \in Contests
    BY DEF ContestsTyped
  <2>2. CASE <<c, p>> \in links /\ linkedAt'[<<c, p>>] = linkedAt[<<c, p>>]
    BY <1>0, <1>1, <2>2 DEF NotListed, ContestsTyped
  <2>3. CASE linkedAt'[<<c, p>>] = now
    BY <1>0, <2>3
  <2> QED
    BY <2>1, <2>2, <2>3 DEF LinkedSince
<1>2. \A j, val : AnswerFits(j, val) => AnswerFits(j, val)'
  BY DEF AnswerFits
<1>3. ASSUME NEW q, RequestFits(q) PROVE RequestFits(q)'
  BY <1>3 DEF RequestFits
<1>4. ASSUME NEW s \in Calls PROVE (call[s] # Idle => RequestFits(call[s]))'
  <2>1. CASE call'[s] = call[s]
    BY <1>3, <2>1 DEF ContestInv
  <2> QED
    BY <2>1
<1>5. ASSUME NEW s \in Calls PROVE FillSound(s)'
  <2> SUFFICES ASSUME call'[s].at = "fill" PROVE FillSound(s)'
    BY DEF FillSound
  <2>1. call'[s] = call[s] /\ call[s].at = "fill"
    OBVIOUS
  <2>2. PICK j \in Keys : j = call[s].key /\ j = call'[s].key
    BY <2>1, CallsAreRequests DEF Steps
  <2>3. PICK val : val = call[s].ans /\ val = call'[s].ans
    BY <2>1
  <2>4. /\ AnswerFits(j, val)
        /\ j[1] # "ongoing" => val = Query(j) \/ s \in overtaken
        /\ j[1] = "ongoing" => NotListed(j[2], val, now)
    BY <2>1, <2>2, <2>3 DEF ContestInv, FillSound
  <2>5. j[1] # "ongoing" => val = Query(j)' \/ s \in overtaken'
    <3>1. CASE j \in ks
      BY <2>1, <2>2, <3>1 DEF Filling
    <3> QED
      BY <2>4, <3>1
  <2>6. j[1] = "ongoing" => NotListed(j[2], val, now)'
    <3>1. j[1] = "ongoing" => j[2] \in Problems /\ now \in 0..now
      BY <1>0, KeyShapes
    <3>2. ASSUME NEW t, t = now, j[1] = "ongoing" PROVE NotListed(j[2], val, t)'
      BY <1>1, <2>4, <3>1, <3>2
    <3>3. PICK t : t = now
      OBVIOUS
    <3> QED
      BY <3>2, <3>3
  <2>7. AnswerFits(j, val)'
    BY <1>2, <2>4
  <2> QED
    BY <2>2, <2>3, <2>5, <2>6, <2>7 DEF FillSound
<1>6. ASSUME NEW s \in Calls PROVE AdmitSound(s)'
  <2> SUFFICES ASSUME call'[s].at = "admit", NEW c \in contests', <<c, call'[s].p>> \in links',
                      Start[c] <= call'[s].read, call'[s].read <= End[c],
                      \A d \in Contests : <<d, call'[s].u>> \notin ever'
               PROVE  \/ call'[s].read < Start[c] + OngoingTtl
                      \/ call'[s].read < linkedAt'[<<c, call'[s].p>>] + OngoingTtl
    BY DEF AdmitSound
  <2>1. call'[s] = call[s] /\ call[s].at = "admit" /\ c \in Contests
    BY DEF ContestsTyped
  <2>2. call[s].p \in Problems /\ call[s].read \in 0..MaxTime /\ call[s].read <= now
    BY <2>1, CallsAreRequests DEF Steps, RequestFits
  <2>3. CASE <<c, call[s].p>> \in links /\ linkedAt'[<<c, call[s].p>>] = linkedAt[<<c, call[s].p>>]
    BY <1>0, <2>1, <2>3 DEF ContestInv, AdmitSound, ContestsTyped
  <2>4. CASE linkedAt'[<<c, call[s].p>>] = now
    BY <1>0, <2>1, <2>2, <2>4, ContestsAssumption
  <2> QED
    BY <2>1, <2>2, <2>3, <2>4 DEF LinkedSince
<1>7. ASSUME NEW j \in Keys PROVE CacheSound(j)'
  <2>1. CacheSound(j) /\ cache'[j] = cache[j] /\ (Live(j)' <=> Live(j))
    BY DEF ContestInv, Live
  <2>2. AnswerFits(j, cache[j].val)'
    <3>1. PICK val : val = cache[j].val /\ val = cache'[j].val
      BY <2>1
    <3>2. AnswerFits(j, val)'
      BY <1>2, <2>1, <3>1 DEF CacheSound
    <3> QED
      BY <3>1, <3>2
  <2>3. (j[1] # "ongoing" /\ Live(j) => cache[j].val = Query(j) \/ j \in excused \/ Sweeping(j))'
    <3>1. CASE j \in ks
      BY <2>1, <3>1
    <3>2. CASE j \notin ks
      <4>1. Sweeping(j) => Sweeping(j)'
        BY DEF Sweeping
      <4> QED
        BY <2>1, <3>2, <4>1 DEF CacheSound
    <3> QED
      BY <3>1, <3>2
  <2>4. (j[1] = "ongoing" /\ Live(j) => \E t \in 0..now :
           cache[j].exp = t + OngoingTtl /\ NotListed(j[2], cache[j].val, t))'
    <3> SUFFICES ASSUME j[1] = "ongoing", Live(j)
                 PROVE  \E t \in 0..now' : cache'[j].exp = t + OngoingTtl /\ NotListed(j[2], cache[j].val, t)'
      BY <2>1
    <3>1. PICK t \in 0..now : cache[j].exp = t + OngoingTtl /\ NotListed(j[2], cache[j].val, t)
      BY <2>1 DEF CacheSound
    <3>2. PICK val : val = cache[j].val /\ val = cache'[j].val
      BY <2>1
    <3>3. NotListed(j[2], val, t)'
      BY <1>1, <3>1, <3>2, KeyShapes
    <3> QED
      BY <2>1, <3>1, <3>2, <3>3
  <2> QED
    BY <2>2, <2>3, <2>4 DEF CacheSound
<1> QED
  BY <1>4, <1>5, <1>6, <1>7 DEF ContestInv

\* createContest deletes no key: nothing about the contest can be cached.
LEMMA CreateContestKeeps ==
  ASSUME ContestInv, NEW c \in Contests, CreateContest(c)
  PROVE  ContestInv'
<1>0. ContestsTyped
  BY DEF ContestInv
<1>1. /\ contests' = contests \cup {c}
      /\ UNCHANGED <<now, problems, links, registered, cache, call, faults, ghosts>>
  BY DEF CreateContest
<1>2. ContestsTyped'
  BY <1>0, <1>1 DEF ContestsTyped, ghosts
<1>3. \A d \in Contests, p \in Problems : LinkedSince(d, p)
  BY <1>1 DEF LinkedSince, ghosts
<1>4. \A j \in Keys : j[1] # "ongoing" => Query(j)' = Query(j)
  BY <1>1, KeyShapes DEF Query, FindRegistration, FindProblems
<1>5. Filling({}) = {}
  BY DEF Filling
<1> QED
  BY <1>1, <1>2, <1>3, <1>4, <1>5, WriteKeeps DEF ghosts

\* createProblem, in a contest or not.
LEMMA CreateProblemKeeps ==
  ASSUME ContestInv, NEW p \in Problems, NEW home \in {{}} \cup {{c} : c \in Contests}, CreateProblem(p, home)
  PROVE  ContestInv'
<1> DEFINE touched == {ProblemsKey(c) : c \in home}
<1>0. ContestsTyped /\ now \in 0..MaxTime
  BY DEF ContestInv, ContestsTyped
<1>1. /\ p \notin problems /\ home \subseteq contests
      /\ problems' = problems \cup {p}
      /\ links' = links \cup (home \X {p})
      /\ linkedAt' = [x \in DOMAIN linkedAt |-> IF x \in home \X {p} THEN now ELSE linkedAt[x]]
      /\ overtaken' = overtaken \cup Filling(touched)
      /\ excused' = excused \cup {k \in touched : Live(k)}
      /\ UNCHANGED <<now, contests, registered, cache, call, faults, ever>>
  BY DEF CreateProblem
<1>2. touched \subseteq Keys
  BY <1>0, <1>1, KeyShapes DEF ContestsTyped
<1>3. ContestsTyped'
  <2>1. links' \subseteq contests' \X problems'
    BY <1>0, <1>1 DEF ContestsTyped
  <2>2. linkedAt' \in [Contests \X Problems -> 0..MaxTime]
    BY <1>0, <1>1 DEF ContestsTyped
  <2>3. overtaken' \subseteq Calls /\ excused' \subseteq Keys
    BY <1>0, <1>1, <1>2 DEF ContestsTyped, Filling
  <2> QED
    BY <1>0, <1>1, <2>1, <2>2, <2>3 DEF ContestsTyped
<1>4. ASSUME NEW d \in Contests, NEW x \in Problems PROVE LinkedSince(d, x)
  <2>1. linkedAt'[<<d, x>>] = IF <<d, x>> \in home \X {p} THEN now ELSE linkedAt[<<d, x>>]
    BY <1>0, <1>1 DEF ContestsTyped
  <2> QED
    BY <1>1, <2>1 DEF LinkedSince
<1>5. ASSUME NEW j \in Keys \ touched, j[1] # "ongoing" PROVE Query(j)' = Query(j)
  <2>1. CASE j[1] = "registration"
    BY <1>1, <2>1 DEF Query, FindRegistration
  <2>2. CASE j[1] = "problems"
    <3>1. j[2] \notin home /\ j[1] # "registration" /\ j[1] # "ongoing"
      BY <1>5, <2>2, KeyShapes
    <3>2. \A x \in problems' : <<j[2], x>> \in links' <=> x \in problems /\ <<j[2], x>> \in links
      BY <1>0, <1>1, <3>1 DEF ContestsTyped
    <3>3. Query(j) = {x \in problems : <<j[2], x>> \in links}
      BY <3>1 DEF Query, FindProblems
    <3>4. Query(j)' = {x \in problems' : <<j[2], x>> \in links'}
      BY <3>1 DEF Query, FindProblems
    <3> QED
      BY <1>1, <3>2, <3>3, <3>4
  <2> QED
    BY <1>5, <2>1, <2>2, KeyShapes
<1> HIDE DEF touched
<1>6. \A j \in Keys \cap touched : Live(j) => j \in excused'
  BY <1>1
<1>7. excused \subseteq excused' /\ contests \subseteq contests' /\ problems \subseteq problems' /\ ever \subseteq ever'
  BY <1>1
<1> QED
  BY <1>1, <1>3, <1>4, <1>5, <1>6, <1>7, WriteKeeps

\* The three writes of a request: the row is new, or a registration goes.
LEMMA RowKeeps ==
  ASSUME ContestInv, NEW r \in Calls, call[r].at = "write", NEW k, k = call[r].key,
         UNCHANGED <<now, contests, problems, cache, faults, excused>>,
         links' \subseteq contests \X problems, registered' \subseteq ever', ever' \subseteq contests \X Users,
         linkedAt' \in [Contests \X Problems -> 0..MaxTime],
         ever \subseteq ever', \A c \in Contests, p \in Problems : LinkedSince(c, p),
         \A j \in Keys \ {k} : j[1] # "ongoing" => Query(j)' = Query(j),
         call' = [call EXCEPT ![r].at = "sweep"], overtaken' = overtaken \cup Filling({k})
  PROVE  ContestInv'
<1>0. ContestsTyped
  BY DEF ContestInv
<1>1. call[r] \in Requests /\ RequestFits(call[r]) /\ k \in Keys /\ call[r].op \in Ops
  BY CallsAreRequests DEF Steps
<1>q. PICK q : q = [call[r] EXCEPT !.at = "sweep"]
  OBVIOUS
<1>2. /\ q \in Requests /\ q.at = "sweep" /\ q.op = call[r].op /\ q.key = k /\ q.u = call[r].u
      /\ q.p = call[r].p /\ q.read = call[r].read
  BY <1>q, <1>1 DEF Requests, Steps
<1>3. call'[r] = q /\ \A s \in Calls \ {r} : call'[s] = call[s]
  BY <1>q, <1>0 DEF ContestsTyped
<1>4. ContestsTyped'
  <2>1. call' \in [Calls -> {Idle} \cup Requests]
    BY <1>q, <1>0, <1>2, <1>3 DEF ContestsTyped
  <2>2. overtaken' \subseteq Calls
    BY <1>0 DEF ContestsTyped, Filling
  <2>3. registered' \subseteq contests \X Users
    OBVIOUS
  <2> QED
    BY <1>0, <2>1, <2>2, <2>3 DEF ContestsTyped
<1>5. RequestFits(q)
  BY <1>1, <1>2 DEF RequestFits
<1>6. RequestFits(q)'
  BY <1>2, <1>5 DEF RequestFits
<1>7. RequestFits(call[r])'
  BY <1>3, <1>6
<1>8. Sweeping(k)'
  BY <1>2, <1>3 DEF Sweeping
<1> QED
  BY <1>2, <1>3, <1>4, <1>7, <1>8, WriteKeeps

\* A row that is there already ends the request and changes nothing.
LEMMA RepeatKeeps ==
  ASSUME ContestInv, NEW r \in Calls, call[r].at = "write", UNCHANGED <<now, ContestRows, cache, faults, overtaken, excused>>,
         call' = [call EXCEPT ![r] = Idle]
  PROVE  ContestInv'
<1>1. call'[r] = Idle /\ faults' \in 0..MaxFaults
  BY DEF ContestInv, ContestsTyped
<1>2. FillSound(r)' /\ AdmitSound(r)'
  BY <1>1 DEF FillSound, AdmitSound, Idle
<1> QED
  BY <1>1, <1>2, RequestMoves

\* A registration is written.
LEMMA WriteRegistrationKeeps ==
  ASSUME ContestInv, NEW r \in Calls, WriteRegistration(r)
  PROVE  ContestInv'
<1> DEFINE row == <<call[r].key[2], call[r].u>>
<1>0. ContestsTyped
  BY DEF ContestInv
<1>1. /\ call[r].at = "write" /\ call[r].op = "register"
      /\ registered' = registered \cup {row} /\ ever' = ever \cup {row}
      /\ UNCHANGED <<now, contests, problems, links, cache, faults, excused, linkedAt>>
  BY DEF WriteRegistration
<1>2. call[r] \in Requests /\ RequestFits(call[r]) /\ call[r].key \in Keys /\ call[r].u \in Users
  BY <1>1, CallsAreRequests DEF Steps
<1>3. call[r].key[1] = "registration" /\ call[r].key[2] \in contests /\ call[r].key[3] = call[r].u
  BY <1>1, <1>2 DEF RequestFits
<1>4. CASE row \in registered
  <2>1. call' = [call EXCEPT ![r] = Idle] /\ UNCHANGED overtaken
    BY <1>4 DEF WriteRegistration, Finish
  <2>2. UNCHANGED ContestRows
    BY <1>0, <1>1, <1>4 DEF ContestRows, ContestsTyped
  <2> QED
    BY <1>1, <2>1, <2>2, RepeatKeeps
<1>5. CASE row \notin registered
  <2>1. PICK k : k = call[r].key
    OBVIOUS
  <2>2. call' = [call EXCEPT ![r].at = "sweep"] /\ overtaken' = overtaken \cup Filling({k})
    BY <1>5, <2>1 DEF WriteRegistration
  <2>3. registered' \subseteq ever' /\ ever' \subseteq contests \X Users /\ ever \subseteq ever'
    BY <1>0, <1>1, <1>2, <1>3 DEF ContestsTyped
  <2>4. \A c \in Contests, p \in Problems : LinkedSince(c, p)
    BY <1>1 DEF LinkedSince
  <2>5. ASSUME NEW j \in Keys \ {k}, j[1] # "ongoing" PROVE Query(j)' = Query(j)
    <3>1. CASE j[1] = "registration"
      <4>1. <<j[2], j[3]>> # row
        BY <1>2, <1>3, <2>1, <3>1, KeyShapes
      <4> QED
        BY <1>1, <3>1, <4>1 DEF Query, FindRegistration
    <3>2. CASE j[1] = "problems"
      BY <1>1, <3>2 DEF Query, FindProblems
    <3> QED
      BY <2>5, <3>1, <3>2, KeyShapes
  <2>6. links' \subseteq contests \X problems /\ linkedAt' \in [Contests \X Problems -> 0..MaxTime]
    BY <1>0, <1>1 DEF ContestsTyped
  <2> QED
    BY <1>1, <2>1, <2>2, <2>3, <2>4, <2>5, <2>6, RowKeeps
<1> QED
  BY <1>4, <1>5

\* A registration is deleted.
LEMMA DeleteRegistrationKeeps ==
  ASSUME ContestInv, NEW r \in Calls, DeleteRegistration(r)
  PROVE  ContestInv'
<1> DEFINE row == <<call[r].key[2], call[r].u>>
<1>0. ContestsTyped
  BY DEF ContestInv
<1>1. PICK k : k = call[r].key
  OBVIOUS
<1>2. /\ call[r].at = "write" /\ call[r].op = "deregister"
      /\ registered' = registered \ {row}
      /\ call' = [call EXCEPT ![r].at = "sweep"]
      /\ overtaken' = overtaken \cup Filling({k})
      /\ UNCHANGED <<now, contests, problems, links, cache, faults, excused, linkedAt, ever>>
  BY <1>1 DEF DeleteRegistration
<1>3. call[r] \in Requests /\ RequestFits(call[r]) /\ call[r].key \in Keys /\ call[r].u \in Users
  BY <1>2, CallsAreRequests DEF Steps
<1>4. k[1] = "registration" /\ k[2] \in contests /\ k[3] = call[r].u
  BY <1>1, <1>2, <1>3 DEF RequestFits
<1>5. ASSUME NEW j \in Keys \ {k}, j[1] # "ongoing" PROVE Query(j)' = Query(j)
  <2>1. CASE j[1] = "registration"
    <3>1. <<j[2], j[3]>> # row
      BY <1>1, <1>3, <1>4, <2>1, KeyShapes
    <3> QED
      BY <1>2, <2>1, <3>1 DEF Query, FindRegistration
  <2>2. CASE j[1] = "problems"
    BY <1>2, <2>2 DEF Query, FindProblems
  <2> QED
    BY <1>5, <2>1, <2>2, KeyShapes
<1>6. \A c \in Contests, p \in Problems : LinkedSince(c, p)
  BY <1>2 DEF LinkedSince
<1>7. /\ registered' \subseteq ever' /\ ever' \subseteq contests \X Users /\ ever \subseteq ever'
      /\ links' \subseteq contests \X problems /\ linkedAt' \in [Contests \X Problems -> 0..MaxTime]
  BY <1>0, <1>2 DEF ContestsTyped
<1> QED
  BY <1>1, <1>2, <1>5, <1>6, <1>7, RowKeeps

\* A problem is added to a contest.
LEMMA WriteLinkKeeps ==
  ASSUME ContestInv, NEW r \in Calls, WriteLink(r)
  PROVE  ContestInv'
<1> DEFINE row == <<call[r].key[2], call[r].p>>
<1>0. ContestsTyped /\ now \in 0..MaxTime
  BY DEF ContestInv, ContestsTyped
<1>1. /\ call[r].at = "write" /\ call[r].op = "link"
      /\ links' = links \cup {row}
      /\ UNCHANGED <<now, contests, problems, registered, cache, faults, excused, ever>>
  BY DEF WriteLink
<1>2. call[r] \in Requests /\ RequestFits(call[r]) /\ call[r].key \in Keys /\ call[r].p \in Problems
  BY <1>1, CallsAreRequests DEF Steps
<1>3. call[r].key[1] = "problems" /\ call[r].key[2] \in contests /\ call[r].p \in problems
      /\ call[r].key[2] \in Contests
  BY <1>0, <1>1, <1>2 DEF RequestFits, ContestsTyped
<1>4. CASE row \in links
  <2>1. call' = [call EXCEPT ![r] = Idle] /\ UNCHANGED <<overtaken, linkedAt>>
    BY <1>4 DEF WriteLink, Finish
  <2>2. UNCHANGED ContestRows
    BY <1>1, <1>4, <2>1 DEF ContestRows
  <2> QED
    BY <1>1, <2>1, <2>2, RepeatKeeps
<1>5. CASE row \notin links
  <2>1. PICK k : k = call[r].key
    OBVIOUS
  <2>2. /\ call' = [call EXCEPT ![r].at = "sweep"] /\ overtaken' = overtaken \cup Filling({k})
        /\ linkedAt' = [linkedAt EXCEPT ![row] = now]
    BY <1>5, <2>1 DEF WriteLink
  <2>3. linkedAt' \in [Contests \X Problems -> 0..MaxTime] /\ links' \subseteq contests \X problems
    BY <1>0, <1>1, <1>3, <2>2 DEF ContestsTyped
  <2>4. ASSUME NEW c \in Contests, NEW p \in Problems PROVE LinkedSince(c, p)
    <3>1. linkedAt'[<<c, p>>] = IF <<c, p>> = row THEN now ELSE linkedAt[<<c, p>>]
      BY <1>0, <2>2 DEF ContestsTyped
    <3> QED
      BY <1>1, <3>1 DEF LinkedSince
  <2>5. ASSUME NEW j \in Keys \ {k}, j[1] # "ongoing" PROVE Query(j)' = Query(j)
    <3>1. CASE j[1] = "registration"
      BY <1>1, <3>1 DEF Query, FindRegistration
    <3>2. CASE j[1] = "problems"
      <4>1. j[2] # call[r].key[2] /\ j[1] # "registration" /\ j[1] # "ongoing"
        BY <1>2, <1>3, <2>1, <2>5, <3>2, KeyShapes
      <4>2. \A x : <<j[2], x>> \in links' <=> <<j[2], x>> \in links
        BY <1>1, <4>1
      <4>3. Query(j) = {x \in problems : <<j[2], x>> \in links}
        BY <4>1 DEF Query, FindProblems
      <4>4. Query(j)' = {x \in problems' : <<j[2], x>> \in links'}
        BY <4>1 DEF Query, FindProblems
      <4> QED
        BY <1>1, <4>2, <4>3, <4>4
    <3> QED
      BY <2>5, <3>1, <3>2, KeyShapes
  <2>6. registered' \subseteq ever' /\ ever' \subseteq contests \X Users /\ ever \subseteq ever'
    BY <1>0, <1>1 DEF ContestsTyped
  <2> QED
    BY <1>1, <2>1, <2>2, <2>3, <2>4, <2>5, <2>6, RowKeeps
<1> QED
  BY <1>4, <1>5

\* Time passes: answers expire, and contests begin and end.
LEMMA ContestTickKeeps == ContestInv /\ Tick => ContestInv'
<1> SUFFICES ASSUME ContestInv, Tick PROVE ContestInv'
  OBVIOUS
<1>0. ContestsTyped /\ now \in Nat /\ MaxTime \in Nat
  BY ContestsAssumption DEF ContestInv, ContestsTyped
<1>1. /\ now < MaxTime /\ now' = now + 1
      /\ \A r \in Calls : call[r].at # "fill"
      /\ cache' = [k \in Keys |-> IF cache[k].exp <= now' THEN None ELSE cache[k]]
      /\ excused' = {k \in excused : cache[k].exp > now'}
      /\ UNCHANGED <<call, faults, overtaken, ContestRows>>
  BY DEF Tick, tables, ContestRows
<1>2. ContestsTyped'
  <2>1. None \in [val : Answers, exp : Nat]
    BY DEF None, Answers
  <2>2. cache' \in [Keys -> [val : Answers, exp : Nat]]
    BY <1>0, <1>1, <2>1 DEF ContestsTyped
  <2>3. now' \in 0..MaxTime /\ excused' \subseteq Keys
    BY <1>0, <1>1 DEF ContestsTyped
  <2> QED
    BY <1>0, <1>1, <2>2, <2>3 DEF ContestsTyped, ContestRows
<1>3. ASSUME NEW r \in Calls PROVE (call[r] # Idle => RequestFits(call[r]))'
  <2> SUFFICES ASSUME call[r] # Idle PROVE RequestFits(call[r])'
    BY <1>1
  <2>1. RequestFits(call[r]) /\ call[r].read \in Nat
    BY <1>0, ContestsAssumption DEF ContestInv, ContestsTyped, Requests
  <2> QED
    BY <1>0, <1>1, <2>1 DEF RequestFits, ContestRows
<1>4. \A r \in Calls : FillSound(r)' /\ AdmitSound(r)'
  <2>1. \A r \in Calls : FillSound(r)'
    BY <1>1 DEF FillSound
  <2>2. \A r \in Calls : AdmitSound(r)'
    BY <1>1 DEF ContestInv, AdmitSound, ContestRows
  <2> QED
    BY <2>1, <2>2
<1>5. ASSUME NEW k \in Keys PROVE CacheSound(k)'
  <2>1. cache[k].exp \in Nat /\ CacheSound(k)
    BY <1>0 DEF ContestsTyped, ContestInv
  <2>2. CASE cache[k].exp <= now'
    <3>1. cache'[k].val = {} /\ cache'[k].exp = 0
      BY <1>1, <2>2 DEF None
    <3>2. ~Live(k)'
      BY <1>0, <1>1, <3>1 DEF Live
    <3>3. AnswerFits(k, cache[k].val)'
      BY <3>1 DEF AnswerFits
    <3> QED
      BY <3>2, <3>3 DEF CacheSound
  <2>3. CASE ~(cache[k].exp <= now')
    <3>1. cache'[k] = cache[k] /\ Live(k)
      BY <1>0, <1>1, <2>1, <2>3 DEF Live
    <3>2. k \in excused => k \in excused'
      BY <1>0, <1>1, <2>1, <2>3
    <3>3. Sweeping(k)' <=> Sweeping(k)
      BY <1>1 DEF Sweeping
    <3>4. AnswerFits(k, cache[k].val)'
      BY <1>1, <2>1, <3>1 DEF CacheSound, AnswerFits, ContestRows
    <3>5. k[1] # "ongoing" => Query(k)' = Query(k)
      BY <1>1, KeyShapes DEF Query, FindRegistration, FindProblems, ContestRows
    <3>6. k[1] = "ongoing" => \E t \in 0..now' :
            cache'[k].exp = t + OngoingTtl /\ NotListed(k[2], cache[k].val, t)'
      <4> SUFFICES ASSUME k[1] = "ongoing"
                   PROVE  \E t \in 0..now' : cache'[k].exp = t + OngoingTtl /\ NotListed(k[2], cache[k].val, t)'
        OBVIOUS
      <4>1. PICK t \in 0..now : cache[k].exp = t + OngoingTtl /\ NotListed(k[2], cache[k].val, t)
        BY <2>1, <3>1 DEF CacheSound
      <4>2. NotListed(k[2], cache[k].val, t)'
        BY <1>1, <3>1, <4>1 DEF NotListed, ContestRows
      <4>3. t \in 0..now'
        BY <1>0, <1>1
      <4> QED
        BY <3>1, <4>1, <4>2, <4>3
    <3> QED
      BY <2>1, <3>1, <3>2, <3>3, <3>4, <3>5, <3>6 DEF CacheSound
  <2> QED
    BY <2>2, <2>3
<1> QED
  BY <1>2, <1>3, <1>4, <1>5 DEF ContestInv

\* A step of another part.
LEMMA ContestStutterKeeps == ContestInv /\ UNCHANGED vars => ContestInv'
<1> SUFFICES ASSUME ContestInv, UNCHANGED vars PROVE ContestInv'
  OBVIOUS
<1>1. UNCHANGED <<now, ContestRows, cache, call, faults, overtaken, excused>>
  BY DEF vars, ContestRows
<1>2. ContestsTyped /\ ContestsTyped'
  BY <1>1 DEF ContestInv, ContestsTyped, ContestRows
<1>3. \A r \in Calls : (call[r] # Idle => RequestFits(call[r]))'
  BY <1>1, <1>2, SameContestRows DEF ContestInv
<1>4. \A r \in Calls : FillSound(r)'
  BY <1>1, <1>2, SameContestRows DEF ContestInv, FillSound
<1>5. \A r \in Calls : AdmitSound(r)'
  BY <1>1 DEF ContestInv, AdmitSound, ContestRows
<1>6. ASSUME NEW k \in Keys PROVE CacheSound(k)'
  <2>1. (Sweeping(k)' <=> Sweeping(k)) /\ (Live(k)' <=> Live(k))
    BY <1>1 DEF Sweeping, Live
  <2> QED
    BY <1>1, <1>2, <2>1, SameContestRows DEF ContestInv, CacheSound
<1> QED
  BY <1>2, <1>3, <1>4, <1>5, <1>6 DEF ContestInv

\* Every step of the contests.
LEMMA ContestNext == ContestInv /\ [Next]_vars => ContestInv'
<1> SUFFICES ASSUME ContestInv, [Next]_vars PROVE ContestInv'
  OBVIOUS
<1>1. CASE Tick
  BY <1>1, ContestTickKeeps
<1>2. CASE \E c \in Contests : CreateContest(c)
  BY <1>2, CreateContestKeeps
<1>3. CASE \E p \in Problems, home \in {{}} \cup {{c} : c \in Contests} : CreateProblem(p, home)
  <2>1. PICK p \in Problems, home \in {{}} \cup {{c} : c \in Contests} : CreateProblem(p, home)
    BY <1>3
  <2> QED
    BY <2>1, CreateProblemKeeps
<1>4. ASSUME NEW r \in Calls,
             \/ \E op \in Ops, c \in Contests, u \in Users, p \in Problems : Begin(r, op, c, u, p)
             \/ Look(r) \/ Select(r) \/ Fill(r)
             \/ WriteRegistration(r) \/ DeleteRegistration(r) \/ WriteLink(r) \/ Sweep(r)
             \/ Admit(r) \/ RedisFails(r)
      PROVE  ContestInv'
  BY <1>4, BeginKeeps, LookKeeps, SelectKeeps, FillKeeps, WriteRegistrationKeeps, DeleteRegistrationKeeps,
     WriteLinkKeeps, SweepStepKeeps, AdmitKeeps, RedisFailsKeeps
<1>5. CASE UNCHANGED vars
  BY <1>5, ContestStutterKeeps
<1> QED
  BY <1>1, <1>2, <1>3, <1>4, <1>5 DEF Next

\* What the invariant says of the cache and the gate.
LEMMA ContestHolds == ContestInv => TypeOK /\ StaleIsARace /\ OutsidersOnlyNearTheStart
<1> SUFFICES ASSUME ContestInv PROVE TypeOK /\ StaleIsARace /\ OutsidersOnlyNearTheStart
  OBVIOUS
<1>1. TypeOK
  BY DEF ContestInv, ContestsTyped, TypeOK
<1>2. StaleIsARace
  BY DEF ContestInv, CacheSound, StaleIsARace
<1>3. OutsidersOnlyNearTheStart
  BY DEF ContestInv, AdmitSound, OutsidersOnlyNearTheStart
<1> QED
  BY <1>1, <1>2, <1>3

\* Somebody who never was registered gets a submission into a running contest's
\* problem only within OngoingTtl of its start, or of the problem's being added,
\* whatever is cached and however requests overlap (submitSolution's gate).
THEOREM TheGateIsClosed == MCSpec => []GateIsClosed
<1>1. ContestInv => GateIsClosed
  BY ContestHolds DEF GateIsClosed, In
<1> QED
  BY PartsStart, ContestInit, ContestNext, ContestSteps, <1>1, PTL DEF MCSpec

-----------------------------------------------------------------------------
(* Accounts.                                                                *)

\* A step of the parts is one of the accounts or leaves them as they are.
LEMMA AccountSteps == [MCNext]_allVars => [Entry!Next]_accountVars
BY DEF allVars, MCNext, Rest, Still, accountVars

\* A request that found a row, and one that has tokens.
SignsARow(q) ==
  /\ q.at \in {"sign", "update"} => people[q.email] # Entry!NoUser /\ q.seen # Entry!NoUser
  /\ q.at \in {"sign", "update"} /\ q.seen \in Entry!Tokens => q.seen.at <= second
  /\ q.at \in {"update", "answer"} => q.token.email = q.email
  /\ q.at = "update" => q.token.at <= second /\ (q.seen \in Entry!Tokens => q.seen.at <= q.token.at)
  /\ q.at = "find" /\ q.op = "refresh" => q.token \in Entry!Tokens

\* The tokens that were replaced are older than the one of the row.
SpentAreOlder(e) ==
  /\ people[e] \in Entry!Tokens =>
       people[e].email = e /\ people[e].at <= second /\ \A t \in spent[e] : t.at < people[e].at
  /\ people[e] \notin Entry!Tokens => spent[e] = {}

\* A browser that has nothing to excuse has the row's token or will get it.
AnswersTo(b) == {r \in Entry!Ours(b) : req[r].at = "answer"}
\* One answer at a time replaces the row's token.
CookieFits(b) ==
  /\ \A r \in AnswersTo(b) : people[req[r].email] = req[r].token
  /\ \A r, p \in AnswersTo(b) : req[r].token = req[p].token
  /\ AnswersTo(b) = {} /\ jar[b] # Entry!NoToken => people[jar[b].email] = jar[b]

\* Whoever has nothing to excuse is right.
AccountInv ==
  /\ Entry!TypeOK
  /\ \A r \in Posts : SignsARow(req[r])
  /\ \A e \in Emails : people[e] \in Entry!Tokens => people[e].email = e /\ people[e].at <= second
  /\ \A e \in Emails : e \notin late => SpentAreOlder(e)
  /\ \A b \in Browsers : b \notin worn => CookieFits(b)

\* The three kinds of rows.
LEMMA RowKinds ==
  /\ Entry!NoUser \notin Entry!Tokens /\ Entry!NoToken \notin Entry!Tokens /\ Entry!NoUser # Entry!NoToken
  /\ Entry!NoToken.email \notin Emails
  /\ \A t \in Entry!Tokens : t.email \in Emails /\ t.at \in 0..LastSecond
  /\ \A t, s \in Entry!Tokens : t.email = s.email /\ t.at = s.at => t = s
BY AccountsAssumption DEF Entry!NoUser, Entry!NoToken, Entry!Tokens

\* Nobody has signed up.
LEMMA AccountInit == Entry!Init => AccountInv
<1> SUFFICES ASSUME Entry!Init PROVE AccountInv
  OBVIOUS
<1>1. Entry!Init
  OBVIOUS
<1>2. Entry!TypeOK
  BY <1>1, AccountsAssumption DEF Entry!Init, Entry!TypeOK, Entry!Rows
<1>3. \A r \in Posts : req[r] = Entry!Idle /\ SignsARow(req[r])
  BY <1>1 DEF Entry!Init, Entry!Idle, SignsARow
<1>4. \A e \in Emails : people[e] = Entry!NoUser /\ SpentAreOlder(e)
  BY <1>1, RowKinds DEF Entry!Init, SpentAreOlder
<1>5. \A b \in Browsers : CookieFits(b)
  BY <1>1, <1>3 DEF Entry!Init, CookieFits, AnswersTo, Entry!Ours, Entry!Idle
<1> QED
  BY <1>2, <1>3, <1>4, <1>5, RowKinds DEF AccountInv

\* A request that has no tokens to deliver goes on; a user may be created.
LEMMA RequestGoesOn ==
  ASSUME AccountInv, NEW r \in Posts, req[r].at # "answer",
         NEW q, q = Entry!Idle \/ (q \in Entry!Request /\ q.at # "answer" /\ SignsARow(q)'),
         req' = [req EXCEPT ![r] = q], UNCHANGED <<second, jar, worn, spent, late>>,
         \/ people' = people
         \/ \E e \in Emails : people[e] = Entry!NoUser /\ people' = [people EXCEPT ![e] = Entry!NoToken]
  PROVE  AccountInv'
<1>0. Entry!TypeOK
  BY DEF AccountInv
<1>1. req'[r] = q /\ \A p \in Posts \ {r} : req'[p] = req[p]
  BY <1>0 DEF Entry!TypeOK
<1>2. \A e \in Emails : people'[e] = people[e] \/ (people[e] = Entry!NoUser /\ people'[e] = Entry!NoToken)
  BY <1>0 DEF Entry!TypeOK
<1>3. people' \in [Emails -> Entry!Rows]
  BY <1>0 DEF Entry!TypeOK, Entry!Rows
<1>4. Entry!TypeOK'
  BY <1>0, <1>3 DEF Entry!TypeOK
<1>5. ASSUME NEW p \in Posts PROVE SignsARow(req[p])'
  <2>1. CASE p = r
    BY <1>1, <2>1 DEF SignsARow, Entry!Idle
  <2>2. CASE p # r
    <3>1. SignsARow(req[p]) /\ req[p] \in Entry!Request \cup {Entry!Idle}
      BY <1>0 DEF AccountInv, Entry!TypeOK
    <3>2. req[p].at \in {"sign", "update"} => req[p].email \in Emails
      BY <3>1 DEF Entry!Request, Entry!Idle
    <3> QED
      BY <1>1, <1>2, <2>2, <3>1, <3>2, RowKinds DEF SignsARow
  <2> QED
    BY <2>1, <2>2
<1>6. \A e \in Emails : people'[e] \in Entry!Tokens => people'[e] = people[e]
  BY <1>2, RowKinds
<1>7. \A e \in Emails : (people[e] \in Entry!Tokens => people[e].email = e /\ people[e].at <= second)'
  BY <1>6 DEF AccountInv
<1>8. ASSUME NEW e \in Emails, e \notin late PROVE SpentAreOlder(e)'
  BY <1>2, <1>8, RowKinds DEF AccountInv, SpentAreOlder
<1>9. ASSUME NEW b \in Browsers, b \notin worn PROVE CookieFits(b)'
  <2>1. AnswersTo(b)' = AnswersTo(b) /\ \A p \in AnswersTo(b) : req'[p] = req[p]
    <3>1. q.at # "answer"
      BY DEF Entry!Idle
    <3> QED
      BY <1>1, <3>1 DEF AnswersTo, Entry!Ours
  <2>2. CookieFits(b)
    BY <1>9 DEF AccountInv
  <2>3. ASSUME NEW p \in AnswersTo(b) PROVE people'[req[p].email] = req[p].token
    <3>1. req[p] \in Entry!Request /\ req[p].at = "answer"
      BY <1>0 DEF AnswersTo, Entry!Ours, Entry!TypeOK, Entry!Idle
    <3>2. req[p].email \in Emails /\ req[p].token \in Entry!Tokens
      BY <3>1 DEF Entry!Request
    <3>3. people[req[p].email] = req[p].token
      BY <2>2 DEF CookieFits
    <3> QED
      BY <1>2, <3>2, <3>3, RowKinds
  <2>4. ASSUME AnswersTo(b) = {}, jar[b] # Entry!NoToken PROVE people'[jar[b].email] = jar[b]
    <3>1. jar[b] \in Entry!Tokens
      BY <1>0, <2>4 DEF Entry!TypeOK
    <3>2. people[jar[b].email] = jar[b]
      BY <2>2, <2>4 DEF CookieFits
    <3> QED
      BY <1>2, <3>1, <3>2, RowKinds
  <2> QED
    BY <2>1, <2>2, <2>3, <2>4 DEF CookieFits
<1> QED
  BY <1>4, <1>5, <1>7, <1>8, <1>9 DEF AccountInv

\* Tokens that are made now for a row that was read.
LEMMA SealedSigns ==
  ASSUME AccountInv, NEW e \in Emails, NEW row \in Entry!Rows, row # Entry!NoUser, people'[e] # Entry!NoUser,
         row \in Entry!Tokens => row.at <= second, second' = second
  PROVE  /\ Entry!Sealed(e, row) \in Entry!Request /\ Entry!Sealed(e, row).at = "update"
         /\ \A q : q = Entry!Sealed(e, row) => SignsARow(q)'
BY DEF AccountInv, Entry!TypeOK, Entry!Sealed, Entry!Token, Entry!Tokens, Entry!Request, SignsARow

\* A request is sent, a refresh with the cookie.
LEMMA SendKeeps ==
  ASSUME AccountInv, NEW r \in Posts, NEW op \in Entry!Ops, NEW e \in Emails, Entry!Send(r, op, e)
  PROVE  AccountInv'
<1>0. Entry!TypeOK /\ BrowserOf[r] \in Browsers
  BY AccountsAssumption DEF AccountInv
<1>1. PICK q : q = [at |-> "find", op |-> op, email |-> e,
                    token |-> IF op = "refresh" THEN jar[BrowserOf[r]] ELSE Entry!NoToken]
  OBVIOUS
<1>2. req[r] = Entry!Idle /\ req' = [req EXCEPT ![r] = q] /\ UNCHANGED <<second, people, jar, worn, spent, late>>
      /\ (op = "refresh" => jar[BrowserOf[r]].email = e)
  BY <1>1 DEF Entry!Send
<1>3. jar[BrowserOf[r]] \in Entry!Tokens \cup {Entry!NoToken}
  BY <1>0 DEF Entry!TypeOK
<1>4. op = "refresh" => jar[BrowserOf[r]] \in Entry!Tokens
  BY <1>2, <1>3, RowKinds
<1>5. q \in Entry!Request /\ q.at = "find" /\ SignsARow(q)'
  BY <1>1, <1>3, <1>4 DEF Entry!Request, SignsARow, Entry!Tokens
<1>6. req[r].at # "answer"
  BY <1>2 DEF Entry!Idle
<1> QED
  BY <1>2, <1>5, <1>6, RequestGoesOn

\* The row is read, and a refresh compared with it.
LEMMA FindKeeps ==
  ASSUME AccountInv, NEW r \in Posts, Entry!Find(r)
  PROVE  AccountInv'
<1> DEFINE f == req[r]
           row == people[f.email]
<1>0. Entry!TypeOK
  BY DEF AccountInv
<1>1. f.at = "find" /\ UNCHANGED <<second, people, jar, worn, spent, late>>
  BY DEF Entry!Find
<1>2. /\ f \in Entry!Request /\ f.op \in Entry!Ops /\ f.email \in Emails /\ f.token \in Entry!Tokens \cup {Entry!NoToken}
  BY <1>0, <1>1 DEF Entry!TypeOK, Entry!Idle, Entry!Request
<1>3. row \in Entry!Rows /\ (row \in Entry!Tokens => row.at <= second)
  BY <1>0, <1>2 DEF Entry!TypeOK, AccountInv
<1>4. PICK q : /\ req' = [req EXCEPT ![r] = q]
               /\ \/ q = Entry!Idle
                  \/ q = Entry!Create(f)
                  \/ q = [at |-> "sign", email |-> f.email, seen |-> row] /\ row # Entry!NoUser
                  \/ q = Entry!Sealed(f.email, row) /\ row # Entry!NoUser
  <2>1. CASE f.op = "signUp"
    BY <2>1 DEF Entry!Find, Entry!SignUp
  <2>2. CASE f.op = "signIn"
    BY <2>2 DEF Entry!Find, Entry!SignIn
  <2>3. CASE f.op = "google"
    BY <2>3 DEF Entry!Find, Entry!GoogleCallBack
  <2>4. CASE f.op = "refresh"
    <3>1. f.token \in Entry!Tokens
      BY <1>1, <2>4 DEF AccountInv, SignsARow
    <3>2. row = f.token => row # Entry!NoUser
      BY <3>1, RowKinds
    <3> QED
      BY <2>4, <3>2 DEF Entry!Find, Entry!RefreshToken
  <2> QED
    BY <1>2, <2>1, <2>2, <2>3, <2>4 DEF Entry!Ops
<1>5. q = Entry!Idle \/ (q \in Entry!Request /\ q.at # "answer" /\ SignsARow(q)')
  <2>1. CASE q = Entry!Create(f)
    BY <1>2, <2>1 DEF Entry!Create, Entry!Request, SignsARow
  <2>2. CASE q = [at |-> "sign", email |-> f.email, seen |-> row] /\ row # Entry!NoUser
    BY <1>1, <1>2, <1>3, <2>2 DEF Entry!Request, SignsARow
  <2>3. CASE q = Entry!Sealed(f.email, row) /\ row # Entry!NoUser
    BY <1>1, <1>2, <1>3, <2>3, SealedSigns
  <2> QED
    BY <1>4, <2>1, <2>2, <2>3
<1> QED
  BY <1>1, <1>4, <1>5, RequestGoesOn

\* signUp inserts the row.
LEMMA InsertKeeps ==
  ASSUME AccountInv, NEW r \in Posts, Entry!Insert(r)
  PROVE  AccountInv'
<1> DEFINE f == req[r]
<1>0. Entry!TypeOK
  BY DEF AccountInv
<1>1. f.at = "insert" /\ UNCHANGED <<second, jar, worn, spent, late>>
  BY DEF Entry!Insert
<1>2. f \in Entry!Request /\ f.email \in Emails
  BY <1>0, <1>1 DEF Entry!TypeOK, Entry!Idle, Entry!Request
<1>3. CASE people[f.email] = Entry!NoUser
  <2>1. people' = [people EXCEPT ![f.email] = Entry!NoToken]
    BY <1>3 DEF Entry!Insert
  <2>2. PICK q : /\ req' = [req EXCEPT ![r] = q]
                 /\ q = Entry!Idle \/ q = Entry!Sealed(f.email, Entry!NoToken)
    BY <1>3 DEF Entry!Insert
  <2>3. people'[f.email] = Entry!NoToken /\ Entry!NoToken \in Entry!Rows
    BY <1>0, <1>2, <2>1 DEF Entry!TypeOK, Entry!Rows
  <2>4. q = Entry!Idle \/ (q \in Entry!Request /\ q.at # "answer" /\ SignsARow(q)')
    BY <1>1, <1>2, <2>2, <2>3, RowKinds, SealedSigns
  <2> QED
    BY <1>1, <1>2, <1>3, <2>1, <2>2, <2>4, RequestGoesOn
<1>4. CASE people[f.email] # Entry!NoUser
  <2>1. people' = people
    BY <1>4 DEF Entry!Insert
  <2>2. req' = [req EXCEPT ![r] = Entry!Idle]
    BY <1>4 DEF Entry!Insert
  <2>3. PICK q : q = Entry!Idle
    OBVIOUS
  <2> QED
    BY <1>1, <2>1, <2>2, <2>3, RequestGoesOn
<1> QED
  BY <1>3, <1>4

\* Tokens are signed, at this second.
LEMMA SignKeeps ==
  ASSUME AccountInv, NEW r \in Posts, Entry!Sign(r)
  PROVE  AccountInv'
<1>0. Entry!TypeOK
  BY DEF AccountInv
<1>1. req[r].at = "sign" /\ UNCHANGED <<second, people, jar, worn, spent, late>>
  BY DEF Entry!Sign
<1>2. req[r] \in Entry!Request /\ req[r].email \in Emails /\ req[r].seen \in Entry!Rows
  BY <1>0, <1>1 DEF Entry!TypeOK, Entry!Idle, Entry!Request
<1>3. SignsARow(req[r])
  BY DEF AccountInv
<1>4. PICK q : q = Entry!Sealed(req[r].email, req[r].seen)
  OBVIOUS
<1>5. req' = [req EXCEPT ![r] = q]
  BY <1>4 DEF Entry!Sign
<1>6. q \in Entry!Request /\ q.at = "update" /\ SignsARow(q)'
  BY <1>1, <1>2, <1>3, <1>4, SealedSigns DEF SignsARow
<1> QED
  BY <1>1, <1>5, <1>6, RequestGoesOn

\* The row gets the tokens, and the browser will.
LEMMA UpdateKeeps ==
  ASSUME AccountInv, NEW r \in Posts, Entry!Update(r)
  PROVE  AccountInv'
<1>0. Entry!TypeOK /\ BrowserOf[r] \in Browsers
  BY AccountsAssumption DEF AccountInv
<1>1. PICK q, e, ours, token, old : q = req[r] /\ e = q.email /\ ours = BrowserOf[r] /\ token = q.token /\ old = people[e]
  OBVIOUS
<1>2. /\ q.at = "update"
      /\ people' = [people EXCEPT ![e] = token]
      /\ req' = [req EXCEPT ![r] = [at |-> "answer", email |-> e, token |-> token]]
      /\ worn' = (worn \cup (IF old # token THEN Browsers \ {ours} ELSE {}))
                   \cup (IF \E p \in Entry!Ours(ours) : req[p].at = "answer" /\ req[p].token # token THEN {ours} ELSE {})
      /\ spent' = [spent EXCEPT ![e] = IF old # token /\ old # Entry!NoToken THEN @ \cup {old} ELSE @]
      /\ late' = IF old # q.seen THEN late \cup {e} ELSE late
      /\ UNCHANGED <<second, jar>>
  BY <1>1 DEF Entry!Update
<1>3. q \in Entry!Request /\ e \in Emails /\ token \in Entry!Tokens /\ q.seen \in Entry!Rows /\ old \in Entry!Rows
  BY <1>0, <1>1, <1>2 DEF Entry!TypeOK, Entry!Idle, Entry!Request
<1>4. SignsARow(q) /\ token.email = e /\ old # Entry!NoUser
  BY <1>1, <1>2 DEF AccountInv, SignsARow
<1>5. token.at \in Nat /\ second \in Nat /\ token.at <= second
  BY <1>0, <1>1, <1>2, <1>3, <1>4, RowKinds, AccountsAssumption DEF SignsARow, Entry!TypeOK
<1>6. /\ req'[r].at = "answer" /\ req'[r].email = e /\ req'[r].token = token
      /\ \A p \in Posts \ {r} : req'[p] = req[p]
  BY <1>0, <1>2 DEF Entry!TypeOK
<1>7. people'[e] = token /\ \A d \in Emails \ {e} : people'[d] = people[d]
  BY <1>0, <1>2, <1>3 DEF Entry!TypeOK
<1>8. Entry!TypeOK'
  <2>1. people' \in [Emails -> Entry!Rows]
    BY <1>0, <1>2, <1>3 DEF Entry!TypeOK, Entry!Rows
  <2>2. [at |-> "answer", email |-> e, token |-> token] \in Entry!Request
    BY <1>3 DEF Entry!Request
  <2>3. req' \in [Posts -> Entry!Request \cup {Entry!Idle}]
    BY <1>0, <1>2, <2>2 DEF Entry!TypeOK
  <2>4. old # Entry!NoToken => old \in Entry!Tokens
    BY <1>3, <1>4 DEF Entry!Rows
  <2>5. spent' \in [Emails -> SUBSET Entry!Tokens]
    BY <1>0, <1>2, <1>3, <2>4 DEF Entry!TypeOK
  <2>6. worn' \subseteq Browsers /\ late' \subseteq Emails
    BY <1>0, <1>1, <1>2, <1>3 DEF Entry!TypeOK
  <2> QED
    BY <1>0, <1>2, <2>1, <2>3, <2>5, <2>6 DEF Entry!TypeOK
<1>9. ASSUME NEW p \in Posts PROVE SignsARow(req[p])'
  <2>1. CASE p = r
    BY <1>4, <1>6, <2>1 DEF SignsARow
  <2>2. CASE p # r
    <3>1. SignsARow(req[p]) /\ req[p] \in Entry!Request \cup {Entry!Idle}
      BY <1>0 DEF AccountInv, Entry!TypeOK
    <3>2. req[p].at \in {"sign", "update"} => req[p].email \in Emails
      BY <3>1 DEF Entry!Request, Entry!Idle
    <3> QED
      BY <1>2, <1>3, <1>6, <1>7, <2>2, <3>1, <3>2, RowKinds DEF SignsARow
  <2> QED
    BY <2>1, <2>2
<1>10. \A d \in Emails : (people[d] \in Entry!Tokens => people[d].email = d /\ people[d].at <= second)'
  BY <1>2, <1>4, <1>5, <1>7 DEF AccountInv
<1>11. ASSUME NEW d \in Emails, d \notin late' PROVE SpentAreOlder(d)'
  <2>1. CASE d # e
    <3>1. people'[d] = people[d] /\ spent'[d] = spent[d] /\ d \notin late
      BY <1>0, <1>2, <1>7, <1>11, <2>1 DEF Entry!TypeOK
    <3> QED
      BY <1>2, <1>11, <3>1 DEF AccountInv, SpentAreOlder
  <2>2. CASE d = e
    <3>1. old = q.seen /\ e \notin late /\ SpentAreOlder(e)
      BY <1>2, <1>11, <2>2 DEF AccountInv
    <3>2. people'[e] = token /\ token \in Entry!Tokens /\ token.email = e /\ token.at <= second'
      BY <1>2, <1>3, <1>4, <1>5, <1>7
    <3>3. CASE old \in Entry!Tokens
      <4>1. old.email = e /\ old.at <= token.at /\ \A t \in spent[e] : t.at < old.at
        BY <1>1, <1>2, <1>4, <3>1, <3>3 DEF SignsARow, SpentAreOlder
      <4>2. \A t \in spent[e] : t.at \in Nat
        BY <1>0, <1>3, RowKinds DEF Entry!TypeOK
      <4>3. old.at \in Nat
        BY <3>3, RowKinds
      <4>4. CASE old = token
        <5>1. spent'[e] = spent[e]
          BY <1>0, <1>2, <1>3, <4>4 DEF Entry!TypeOK
        <5> QED
          BY <2>2, <3>2, <4>1, <4>4, <5>1 DEF SpentAreOlder
      <4>5. CASE old # token
        <5>1. old.at < token.at
          BY <1>3, <1>4, <1>5, <3>3, <4>1, <4>3, <4>5, RowKinds
        <5>2. \A t \in spent'[e] : t \in spent[e] \/ t = old
          BY <1>0, <1>2, <1>3 DEF Entry!TypeOK
        <5>3. \A t \in spent'[e] : t.at < token.at
          BY <1>5, <4>1, <4>2, <4>3, <5>1, <5>2
        <5> QED
          BY <2>2, <3>2, <5>3 DEF SpentAreOlder
      <4> QED
        BY <4>4, <4>5
    <3>4. CASE old \notin Entry!Tokens
      <4>1. old = Entry!NoToken /\ spent[e] = {}
        BY <1>1, <1>3, <1>4, <3>1, <3>4 DEF SpentAreOlder, Entry!Rows
      <4>2. spent'[e] = {}
        BY <1>0, <1>2, <1>3, <4>1 DEF Entry!TypeOK
      <4> QED
        BY <2>2, <3>2, <4>2 DEF SpentAreOlder
    <3> QED
      BY <3>3, <3>4
  <2> QED
    BY <2>1, <2>2
<1>12. ASSUME NEW b \in Browsers, b \notin worn' PROVE CookieFits(b)'
  <2>1. CASE b = ours
    <3>1. \A p \in Entry!Ours(b) : req[p].at = "answer" => req[p].token = token
      BY <1>2, <1>12, <2>1
    <3>2. \A p \in AnswersTo(b)' : req'[p].token = token /\ req'[p].email = e
      <4> SUFFICES ASSUME NEW p \in Posts, BrowserOf[p] = b, req'[p].at = "answer"
                   PROVE  req'[p].token = token /\ req'[p].email = e
        BY DEF AnswersTo, Entry!Ours
      <4>1. CASE p = r
        BY <1>6, <4>1
      <4>2. CASE p # r
        <5>1. req[p].token = token /\ req[p].at = "answer"
          BY <1>6, <3>1, <4>2 DEF Entry!Ours
        <5>2. req[p].email = e
          BY <1>4, <5>1 DEF AccountInv, SignsARow
        <5> QED
          BY <1>6, <4>2, <5>1, <5>2
      <4> QED
        BY <4>1, <4>2
    <3>3. r \in AnswersTo(b)'
      BY <1>1, <1>6, <2>1 DEF AnswersTo, Entry!Ours
    <3> QED
      BY <1>7, <3>2, <3>3 DEF CookieFits
  <2>2. CASE b # ours
    <3>1. b \notin worn /\ old = token
      BY <1>2, <1>12, <2>2
    <3>2. people' = people
      BY <1>0, <1>1, <1>2, <1>3, <3>1 DEF Entry!TypeOK
    <3>3. r \notin Entry!Ours(b)
      BY <1>1, <2>2 DEF Entry!Ours
    <3>4. AnswersTo(b)' = AnswersTo(b) /\ \A p \in AnswersTo(b) : req'[p] = req[p]
      BY <1>6, <3>3 DEF AnswersTo, Entry!Ours
    <3> QED
      BY <1>2, <3>1, <3>2, <3>4 DEF AccountInv, CookieFits
  <2> QED
    BY <2>1, <2>2
<1> QED
  BY <1>8, <1>9, <1>10, <1>11, <1>12 DEF AccountInv

\* The answer arrives, or does not.
LEMMA DeliverKeeps ==
  ASSUME AccountInv, NEW r \in Posts, Entry!Deliver(r) \/ Entry!Fail(r)
  PROVE  AccountInv'
<1>0. Entry!TypeOK /\ BrowserOf[r] \in Browsers
  BY AccountsAssumption DEF AccountInv
<1>1. PICK b, q : b = BrowserOf[r] /\ q = req[r]
  OBVIOUS
<1>2. req' = [req EXCEPT ![r] = Entry!Idle] /\ UNCHANGED <<second, people, spent, late>> /\ q # Entry!Idle
  BY <1>1 DEF Entry!Deliver, Entry!Fail, Entry!Finish, Entry!Idle
<1>3. req'[r] = Entry!Idle /\ \A p \in Posts \ {r} : req'[p] = req[p]
  BY <1>0, <1>2 DEF Entry!TypeOK
<1>4. q \in Entry!Request /\ SignsARow(q)
  BY <1>0, <1>1, <1>2 DEF Entry!TypeOK, AccountInv
<1>5. \A p \in Posts : SignsARow(req[p])'
  BY <1>2, <1>3 DEF AccountInv, SignsARow, Entry!Idle
<1>6. \A d \in Browsers \ {b} : AnswersTo(d)' = AnswersTo(d) /\ \A p \in AnswersTo(d) : req'[p] = req[p]
  BY <1>1, <1>3 DEF AnswersTo, Entry!Ours
<1>7. AnswersTo(b)' = AnswersTo(b) \ {r} /\ \A p \in AnswersTo(b) \ {r} : req'[p] = req[p]
  BY <1>3 DEF AnswersTo, Entry!Ours, Entry!Idle
<1>8. CASE Entry!Deliver(r)
  <2>1. /\ q.at = "answer" /\ jar' = [jar EXCEPT ![b] = q.token]
        /\ worn' = IF people[q.email] = q.token /\ \A p \in Entry!Ours(b) \ {r} : req[p] = Entry!Idle
                   THEN worn \ {b} ELSE worn
    BY <1>1, <1>8 DEF Entry!Deliver
  <2>2. q.token \in Entry!Tokens /\ q.email \in Emails /\ q.token.email = q.email
    BY <1>4, <2>1 DEF Entry!Request, SignsARow
  <2>3. jar' \in [Browsers -> Entry!Tokens \cup {Entry!NoToken}] /\ jar'[b] = q.token
    BY <1>0, <1>1, <2>1, <2>2 DEF Entry!TypeOK
  <2>4. Entry!TypeOK'
    BY <1>0, <1>2, <2>1, <2>3 DEF Entry!TypeOK
  <2>5. ASSUME NEW d \in Browsers, d \notin worn' PROVE CookieFits(d)'
    <3>1. CASE d # b
      <4>1. d \notin worn /\ jar'[d] = jar[d]
        BY <1>0, <2>1, <2>5, <3>1 DEF Entry!TypeOK
      <4> QED
        BY <1>2, <1>6, <3>1, <4>1 DEF AccountInv, CookieFits
    <3>2. CASE d = b /\ b \notin worn
      <4>1. CookieFits(b) /\ r \in AnswersTo(b)
        BY <1>0, <1>1, <2>1, <3>2 DEF AccountInv, AnswersTo, Entry!Ours
      <4>2. people[q.email] = q.token
        BY <1>1, <4>1 DEF CookieFits
      <4> QED
        BY <1>2, <1>7, <2>2, <2>3, <3>2, <4>1, <4>2 DEF CookieFits
    <3>3. CASE d = b /\ b \in worn
      <4>1. people[q.email] = q.token /\ \A p \in Entry!Ours(b) \ {r} : req[p] = Entry!Idle
        BY <2>1, <2>5, <3>3
      <4>2. AnswersTo(b)' = {}
        BY <1>7, <4>1 DEF AnswersTo, Entry!Idle
      <4> QED
        BY <1>2, <2>2, <2>3, <3>3, <4>1, <4>2 DEF CookieFits
    <3> QED
      BY <3>1, <3>2, <3>3
  <2> QED
    BY <1>2, <1>5, <2>4, <2>5 DEF AccountInv, SpentAreOlder
<1>9. CASE Entry!Fail(r)
  <2>1. jar' = jar /\ worn' = worn \cup (IF q.at = "answer" THEN {b} ELSE {})
    BY <1>1, <1>9 DEF Entry!Fail
  <2>2. Entry!TypeOK'
    BY <1>0, <1>1, <1>2, <2>1 DEF Entry!TypeOK
  <2>3. ASSUME NEW d \in Browsers, d \notin worn' PROVE CookieFits(d)'
    <3>1. d \notin worn /\ (d = b => q.at # "answer")
      BY <2>1, <2>3
    <3>2. AnswersTo(d)' = AnswersTo(d) /\ \A p \in AnswersTo(d) : req'[p] = req[p]
      BY <1>1, <1>6, <1>7, <3>1 DEF AnswersTo
    <3> QED
      BY <1>2, <2>1, <3>1, <3>2 DEF AccountInv, CookieFits
  <2> QED
    BY <1>2, <1>5, <2>2, <2>3 DEF AccountInv, SpentAreOlder
<1> QED
  BY <1>8, <1>9

\* A logout clears the cookie only.
LEMMA LogoutKeeps ==
  ASSUME AccountInv, NEW b \in Browsers, Entry!Logout(b)
  PROVE  AccountInv'
<1>1. jar' = [jar EXCEPT ![b] = Entry!NoToken] /\ UNCHANGED <<second, people, req, worn, spent, late>>
  BY DEF Entry!Logout
<1>2. Entry!TypeOK /\ Entry!TypeOK'
  BY <1>1 DEF AccountInv, Entry!TypeOK
<1>3. ASSUME NEW d \in Browsers, d \notin worn PROVE CookieFits(d)'
  <2>1. jar'[d] = jar[d] \/ jar'[d] = Entry!NoToken
    BY <1>1, <1>2 DEF Entry!TypeOK
  <2> QED
    BY <1>1, <1>3, <2>1 DEF AccountInv, CookieFits, AnswersTo
<1> QED
  BY <1>1, <1>2, <1>3 DEF AccountInv, SignsARow, SpentAreOlder

\* The next second: tokens made from now on are other ones.
LEMMA SecondKeeps ==
  ASSUME AccountInv, Entry!Tick
  PROVE  AccountInv'
<1>1. second < LastSecond /\ second' = second + 1 /\ UNCHANGED <<people, jar, req, worn, spent, late>>
  BY DEF Entry!Tick
<1>2. Entry!TypeOK /\ Entry!TypeOK' /\ second \in Nat
  BY <1>1, AccountsAssumption DEF AccountInv, Entry!TypeOK
<1>3. \A t \in Entry!Tokens : t.at \in Nat /\ (t.at <= second => t.at <= second')
  BY <1>1, <1>2, RowKinds
<1>4. ASSUME NEW r \in Posts PROVE SignsARow(req[r])'
  <2>1. req[r] \in Entry!Request \cup {Entry!Idle} /\ SignsARow(req[r])
    BY <1>2 DEF Entry!TypeOK, AccountInv
  <2>2. req[r].at = "update" => req[r].token \in Entry!Tokens
    BY <2>1 DEF Entry!Request, Entry!Idle
  <2> QED
    BY <1>1, <1>3, <2>1, <2>2 DEF SignsARow
<1>5. \A b \in Browsers : b \notin worn' => CookieFits(b)'
  BY <1>1 DEF AccountInv, CookieFits, AnswersTo
<1> QED
  BY <1>1, <1>2, <1>3, <1>4, <1>5 DEF AccountInv, SpentAreOlder

\* Every step of the accounts.
LEMMA AccountNext == AccountInv /\ [Entry!Next]_accountVars => AccountInv'
<1> SUFFICES ASSUME AccountInv, [Entry!Next]_accountVars PROVE AccountInv'
  OBVIOUS
<1>1. CASE UNCHANGED accountVars
  BY <1>1 DEF accountVars, AccountInv, SignsARow, SpentAreOlder, CookieFits, AnswersTo, Entry!TypeOK
<1> QED
  BY <1>1, SendKeeps, FindKeeps, InsertKeeps, SignKeeps, UpdateKeeps, DeliverKeeps, LogoutKeeps, SecondKeeps
  DEF Entry!Next

\* What the invariant says of cookies and of tokens that were replaced.
LEMMA AccountHolds == AccountInv => Entry!TypeOK /\ Entry!CookieIsCurrent /\ Entry!SpentStaysSpent
<1> SUFFICES ASSUME AccountInv PROVE Entry!CookieIsCurrent /\ Entry!SpentStaysSpent
  BY DEF AccountInv
<1>1. Entry!CookieIsCurrent
  <2> SUFFICES ASSUME NEW b \in Browsers, \A r \in Entry!Ours(b) : req[r] = Entry!Idle,
                      jar[b] # Entry!NoToken, b \notin worn
               PROVE  people[jar[b].email] = jar[b]
    BY DEF Entry!CookieIsCurrent
  <2>1. AnswersTo(b) = {}
    BY DEF AnswersTo, Entry!Idle
  <2> QED
    BY <2>1 DEF AccountInv, CookieFits
<1>2. Entry!SpentStaysSpent
  <2> SUFFICES ASSUME NEW e \in Emails, people[e] \in spent[e], e \notin late PROVE FALSE
    BY DEF Entry!SpentStaysSpent
  <2>1. SpentAreOlder(e) /\ spent[e] \subseteq Entry!Tokens
    BY DEF AccountInv, Entry!TypeOK
  <2>2. people[e].at < people[e].at /\ people[e].at \in Nat
    BY <2>1, RowKinds DEF SpentAreOlder
  <2> QED
    BY <2>2
<1> QED
  BY <1>1, <1>2

-----------------------------------------------------------------------------
(* Sums over finite sets.                                                   *)

\* A finite set without one of its elements.
LEMMA OneLess ==
  ASSUME NEW S, IsFiniteSet(S), NEW x \in S
  PROVE  /\ IsFiniteSet(S \ {x}) /\ Cardinality(S \ {x}) = Cardinality(S) - 1
         /\ Cardinality(S) \in Nat \ {0}
BY FS_RemoveElement, FS_CardinalityType, FS_EmptySet

\* What holds of the empty set, and of a subset with one element more, holds of
\* every subset of a finite set.
LEMMA SubsetInduction ==
  ASSUME NEW S, IsFiniteSet(S), NEW P, {} \in P,
         \A T \in SUBSET S, x \in S : T \in P /\ x \notin T => T \cup {x} \in P
  PROVE  SUBSET S \subseteq P
<1> DEFINE Q == {n \in Nat : \A T \in SUBSET S : Cardinality(T) = n => T \in P}
<1>0. \A T \in SUBSET S : IsFiniteSet(T) /\ Cardinality(T) \in Nat
  BY FS_Subset, FS_CardinalityType
<1>1. 0 \in Q
  BY <1>0, FS_EmptySet
<1>2. ASSUME NEW n \in Nat, n \in Q PROVE n + 1 \in Q
  <2> SUFFICES ASSUME NEW T \in SUBSET S, Cardinality(T) = n + 1 PROVE T \in P
    OBVIOUS
  <2>0. IsFiniteSet(T) /\ T # {}
    BY <1>0, FS_EmptySet
  <2>1. PICK x \in T : TRUE
    BY <2>0
  <2>2. T \ {x} \in SUBSET S /\ Cardinality(T \ {x}) = n /\ x \in S
    BY <2>0, OneLess
  <2>3. T \ {x} \in P /\ x \notin T \ {x}
    BY <1>2, <2>2
  <2>4. T = (T \ {x}) \cup {x}
    OBVIOUS
  <2> QED
    BY <2>2, <2>3, <2>4
<1> HIDE DEF Q
<1>3. Nat \subseteq Q
  BY <1>1, <1>2, SetInduction
<1> QED
  BY <1>0, <1>3 DEF Q

\* The sum of the values of f over a subset of its domain, as MapThenSumSet of the
\* community modules takes it.
AnyOf(s) == CHOOSE x \in s : TRUE
SumStep(f, g) == [s \in SUBSET DOMAIN f |-> IF s = {} THEN 0 ELSE f[AnyOf(s)] + g[s \ {AnyOf(s)}]]
Sums(f) == CHOOSE g : g = SumStep(f, g)
SumOver(f) == Sums(f)[DOMAIN f]

\* Such a function exists, by induction on the size of the subset.
LEMMA SumsAreDefined ==
  ASSUME NEW f, IsFiniteSet(DOMAIN f)
  PROVE  Sums(f) = SumStep(f, Sums(f))
<1> DEFINE D == DOMAIN f
           UpTo(n, g) == \A s \in SUBSET D : Cardinality(s) <= n =>
                           g[s] = IF s = {} THEN 0 ELSE f[AnyOf(s)] + g[s \ {AnyOf(s)}]
           Q == {n \in Nat : \E g : UpTo(n, g) /\ g = [s \in SUBSET D |-> g[s]]}
<1>0. \A s \in SUBSET D : IsFiniteSet(s) /\ Cardinality(s) \in Nat /\ Cardinality(s) <= Cardinality(D)
  BY FS_Subset, FS_CardinalityType
<1>1. 0 \in Q
  <2> DEFINE g == [s \in SUBSET D |-> 0]
  <2>1. UpTo(0, g)
    BY <1>0, FS_EmptySet
  <2> QED
    BY <2>1
<1>2. ASSUME NEW n \in Nat, n \in Q PROVE n + 1 \in Q
  <2>1. PICK g : UpTo(n, g) /\ g = [s \in SUBSET D |-> g[s]]
    BY <1>2
  <2> DEFINE h == [s \in SUBSET D |-> IF Cardinality(s) = n + 1 THEN f[AnyOf(s)] + g[s \ {AnyOf(s)}] ELSE g[s]]
  <2>2. ASSUME NEW s \in SUBSET D, Cardinality(s) <= n + 1
        PROVE  h[s] = IF s = {} THEN 0 ELSE f[AnyOf(s)] + h[s \ {AnyOf(s)}]
    <3>1. CASE s = {}
      <4>1. Cardinality(s) = 0
        BY <3>1, FS_EmptySet
      <4>2. h[s] = g[s]
        BY <4>1
      <4>3. g[s] = 0
        <5>1. Cardinality(s) <= n
          BY <4>1
        <5> QED
          BY <2>1, <3>1, <5>1
      <4> QED
        BY <3>1, <4>2, <4>3
    <3>2. CASE s # {}
      <4>1. AnyOf(s) \in s
        BY <3>2 DEF AnyOf
      <4>2. s \ {AnyOf(s)} \in SUBSET D /\ Cardinality(s \ {AnyOf(s)}) = Cardinality(s) - 1
        BY <1>0, <4>1, OneLess
      <4>3. Cardinality(s \ {AnyOf(s)}) # n + 1
        BY <1>0, <2>2, <4>2
      <4>4. h[s \ {AnyOf(s)}] = g[s \ {AnyOf(s)}]
        BY <4>2, <4>3
      <4>5. CASE Cardinality(s) = n + 1
        BY <3>2, <4>4, <4>5
      <4>6. CASE Cardinality(s) # n + 1
        <5>1. Cardinality(s) <= n /\ h[s] = g[s]
          BY <1>0, <2>2, <4>6
        <5> QED
          BY <2>1, <3>2, <4>4, <5>1
      <4> QED
        BY <4>5, <4>6
    <3> QED
      BY <3>1, <3>2
  <2>3. h = [s \in SUBSET D |-> h[s]]
    OBVIOUS
  <2> HIDE DEF h
  <2>4. UpTo(n + 1, h)
    BY <2>2
  <2> HIDE DEF UpTo
  <2> QED
    BY <2>3, <2>4
<1> HIDE DEF Q
<1>3. Cardinality(D) \in Q
  BY <1>0, <1>1, <1>2, SetInduction
<1>4. PICK g : UpTo(Cardinality(D), g) /\ g = [s \in SUBSET D |-> g[s]]
  BY <1>3 DEF Q
<1>5. g = SumStep(f, g)
  <2>1. \A s \in SUBSET D : g[s] = IF s = {} THEN 0 ELSE f[AnyOf(s)] + g[s \ {AnyOf(s)}]
    BY <1>0, <1>4
  <2> QED
    BY <1>4, <2>1 DEF SumStep
<1> QED
  BY <1>5 DEF Sums

\* Its value, one element less at a time.
LEMMA SumsUnfold ==
  ASSUME NEW f, IsFiniteSet(DOMAIN f), NEW s \in SUBSET DOMAIN f
  PROVE  Sums(f)[s] = IF s = {} THEN 0 ELSE f[AnyOf(s)] + Sums(f)[s \ {AnyOf(s)}]
BY SumsAreDefined DEF SumStep

\* The sum of integers is one, and that of natural numbers too.
LEMMA SumsAreNumbers ==
  ASSUME NEW D, IsFiniteSet(D)
  PROVE  /\ \A f \in [D -> Int] : \A s \in SUBSET D : Sums(f)[s] \in Int
         /\ \A f \in [D -> Nat] : \A s \in SUBSET D : Sums(f)[s] \in Nat
<1>1. ASSUME NEW N \in {Nat, Int}, NEW f \in [D -> N] PROVE \A s \in SUBSET D : Sums(f)[s] \in N
  <2> DEFINE Q == {n \in Nat : \A s \in SUBSET D : Cardinality(s) = n => Sums(f)[s] \in N}
  <2>0. \A s \in SUBSET D : IsFiniteSet(s) /\ Cardinality(s) \in Nat
    BY FS_Subset, FS_CardinalityType
  <2>1. 0 \in Q
    <3>1. \A s \in SUBSET D : Sums(f)[s] = IF s = {} THEN 0 ELSE f[AnyOf(s)] + Sums(f)[s \ {AnyOf(s)}]
      BY SumsUnfold
    <3>2. \A s \in SUBSET D : Cardinality(s) = 0 => s = {}
      BY <2>0, FS_EmptySet
    <3>3. 0 \in N
      OBVIOUS
    <3> QED
      BY <3>1, <3>2, <3>3
  <2>2. ASSUME NEW n \in Nat, n \in Q PROVE n + 1 \in Q
    <3> SUFFICES ASSUME NEW s \in SUBSET D, Cardinality(s) = n + 1 PROVE Sums(f)[s] \in N
      OBVIOUS
    <3>1. s # {} /\ AnyOf(s) \in s
      BY <2>0, FS_EmptySet DEF AnyOf
    <3>2. s \ {AnyOf(s)} \in SUBSET D /\ Cardinality(s \ {AnyOf(s)}) = n
      BY <2>0, <3>1, OneLess
    <3>3. Sums(f)[s] = f[AnyOf(s)] + Sums(f)[s \ {AnyOf(s)}]
      BY <3>1, SumsUnfold
    <3>4. Sums(f)[s \ {AnyOf(s)}] \in N /\ f[AnyOf(s)] \in N
      BY <2>2, <3>1, <3>2
    <3> QED
      BY <3>3, <3>4
  <2> HIDE DEF Q
  <2>3. Nat \subseteq Q
    BY <2>1, <2>2, SetInduction
  <2> QED
    BY <2>0, <2>3 DEF Q
<1> QED
  BY <1>1

\* The order in which the elements are taken does not matter.
LEMMA SumsTakeOut ==
  ASSUME NEW D, IsFiniteSet(D), NEW f \in [D -> Int]
  PROVE  \A s \in SUBSET D : \A x \in s : Sums(f)[s] = f[x] + Sums(f)[s \ {x}]
<1> DEFINE Q == {n \in Nat : \A s \in SUBSET D : Cardinality(s) = n =>
                   \A x \in s : Sums(f)[s] = f[x] + Sums(f)[s \ {x}]}
<1>0. \A s \in SUBSET D : IsFiniteSet(s) /\ Cardinality(s) \in Nat
  BY FS_Subset, FS_CardinalityType
<1>1. 0 \in Q
  BY <1>0, FS_EmptySet
<1>2. ASSUME NEW n \in Nat, n \in Q PROVE n + 1 \in Q
  <2> SUFFICES ASSUME NEW s \in SUBSET D, Cardinality(s) = n + 1, NEW x \in s
               PROVE  Sums(f)[s] = f[x] + Sums(f)[s \ {x}]
    OBVIOUS
  <2>1. PICK c \in s : c = AnyOf(s)
    BY DEF AnyOf
  <2>2. Sums(f)[s] = f[c] + Sums(f)[s \ {c}]
    BY <2>1, SumsUnfold
  <2>3. CASE x = c
    BY <2>2, <2>3
  <2>4. CASE x # c
    <3>1. /\ s \ {c} \in SUBSET D /\ x \in s \ {c} /\ Cardinality(s \ {c}) = n
          /\ s \ {x} \in SUBSET D /\ c \in s \ {x} /\ Cardinality(s \ {x}) = n
          /\ (s \ {c}) \ {x} = (s \ {x}) \ {c} /\ (s \ {c}) \ {x} \in SUBSET D
      BY <1>0, <2>4, OneLess
    <3>2. Sums(f)[s \ {c}] = f[x] + Sums(f)[(s \ {c}) \ {x}]
      BY <1>2, <3>1
    <3>3. Sums(f)[s \ {x}] = f[c] + Sums(f)[(s \ {x}) \ {c}]
      BY <1>2, <3>1
    <3>4. f[x] \in Int /\ f[c] \in Int /\ Sums(f)[(s \ {c}) \ {x}] \in Int
      BY <3>1, SumsAreNumbers
    <3>5. PICK rest : rest = Sums(f)[(s \ {c}) \ {x}] /\ rest = Sums(f)[(s \ {x}) \ {c}] /\ rest \in Int
      BY <3>1, <3>4
    <3>6. Sums(f)[s] = f[c] + (f[x] + rest)
      BY <2>2, <3>2, <3>5
    <3>7. Sums(f)[s \ {x}] = f[c] + rest
      BY <3>3, <3>5
    <3>8. \A i, j, k \in Int : i + (j + k) = j + (i + k)
      OBVIOUS
    <3> QED
      BY <3>4, <3>5, <3>6, <3>7, <3>8
  <2> QED
    BY <2>3, <2>4
<1> HIDE DEF Q
<1>3. Nat \subseteq Q
  BY <1>1, <1>2, SetInduction
<1> QED
  BY <1>0, <1>3 DEF Q

\* Sums grow with their terms.
LEMMA SumsGrow ==
  ASSUME NEW D, IsFiniteSet(D), NEW f \in [D -> Int], NEW E, IsFiniteSet(E), NEW g \in [E -> Int],
         NEW t \in SUBSET D, t \subseteq E, \A x \in t : f[x] <= g[x]
  PROVE  Sums(f)[t] <= Sums(g)[t]
<1> DEFINE P == {s \in SUBSET t : Sums(f)[s] <= Sums(g)[s]}
<1>1. {} \in P
  <2>1. Sums(f)[{}] = 0 /\ Sums(g)[{}] = 0
    BY SumsUnfold
  <2> QED
    BY <2>1
<1>2. ASSUME NEW s \in SUBSET t, NEW x \in t, s \in P, x \notin s PROVE s \cup {x} \in P
  <2>1. /\ s \cup {x} \in SUBSET D /\ s \cup {x} \in SUBSET E /\ x \in s \cup {x} /\ (s \cup {x}) \ {x} = s
        /\ s \in SUBSET D /\ s \in SUBSET E
    BY <1>2
  <2>2. Sums(f)[s \cup {x}] = f[x] + Sums(f)[s] /\ Sums(g)[s \cup {x}] = g[x] + Sums(g)[s]
    BY <2>1, SumsTakeOut
  <2>3. Sums(f)[s] \in Int /\ Sums(g)[s] \in Int /\ f[x] \in Int /\ g[x] \in Int
    BY <2>1, SumsAreNumbers
  <2> QED
    BY <1>2, <2>2, <2>3
<1>3. IsFiniteSet(t)
  BY FS_Subset
<1> HIDE DEF P
<1>4. SUBSET t \subseteq P
  BY <1>1, <1>2, <1>3, SubsetInduction
<1> QED
  BY <1>4 DEF P

\* Sums of natural numbers grow with their set, and more if the rest counts.
LEMMA SumsOfMore ==
  ASSUME NEW D, IsFiniteSet(D), NEW f \in [D -> Nat], NEW s \in SUBSET D, NEW t \in SUBSET s
  PROVE  /\ Sums(f)[t] <= Sums(f)[s]
         /\ \A x \in s \ t : f[x] > 0 => Sums(f)[t] < Sums(f)[s]
<1> DEFINE R == s \ t
           P == {r \in SUBSET R :
                   /\ Sums(f)[t] <= Sums(f)[t \cup r]
                   /\ \A x \in r : f[x] > 0 => Sums(f)[t] < Sums(f)[t \cup r]}
<1>0. f \in [D -> Int] /\ Sums(f)[t] \in Nat
  BY SumsAreNumbers
<1>1. {} \in P
  BY <1>0
<1>2. ASSUME NEW r \in SUBSET R, NEW x \in R, r \in P, x \notin r PROVE r \cup {x} \in P
  <2>1. /\ t \cup (r \cup {x}) \in SUBSET D /\ x \in t \cup (r \cup {x})
        /\ (t \cup (r \cup {x})) \ {x} = t \cup r /\ t \cup r \in SUBSET D
    BY <1>2
  <2>2. Sums(f)[t \cup (r \cup {x})] = f[x] + Sums(f)[t \cup r]
    BY <1>0, <2>1, SumsTakeOut
  <2>3. Sums(f)[t \cup r] \in Nat /\ f[x] \in Nat
    BY <2>1, SumsAreNumbers
  <2>4. Sums(f)[t] <= Sums(f)[t \cup (r \cup {x})]
    BY <1>0, <1>2, <2>2, <2>3
  <2>5. ASSUME NEW y \in r \cup {x}, f[y] > 0 PROVE Sums(f)[t] < Sums(f)[t \cup (r \cup {x})]
    <3>1. CASE y \in r
      BY <1>0, <1>2, <2>2, <2>3, <2>5, <3>1
    <3>2. CASE y = x
      BY <1>0, <1>2, <2>2, <2>3, <2>5, <3>2
    <3> QED
      BY <3>1, <3>2
  <2> QED
    BY <1>2, <2>4, <2>5
<1>3. IsFiniteSet(R) /\ R \in SUBSET R /\ t \cup R = s /\ \A x \in s \ t : x \in R
  BY FS_Subset
<1>4. SUBSET R \subseteq P
  <2> HIDE DEF R, P
  <2> QED
    BY <1>1, <1>2, <1>3, SubsetInduction
<1>5. R \in P
  BY <1>3, <1>4
<1> QED
  BY <1>3, <1>5 DEF P

-----------------------------------------------------------------------------
(* Standings.                                                               *)

\* A user's score is the sum of the points of the problems solved.
LEMMA ScoreIsSum ==
  ASSUME NEW rs, NEW u
  PROVE  Table!Standing(rs, u).score = SumOver([p \in Table!SolvedInContest(rs, u) |-> maxScore[p]])
<1> DEFINE S == Table!SolvedInContest(rs, u)
           f == [x \in S |-> maxScore[x]]
<1>1. ASSUME NEW g
      PROVE  SumStep(f, g) = [s \in SUBSET S |-> IF s = {} THEN 0 ELSE maxScore[CHOOSE x \in s : TRUE] + g[s \ {CHOOSE x \in s : TRUE}]]
  BY DEF SumStep, AnyOf
<1>2. Table!Standing(rs, u).score = Table!MapThenSumSet(LAMBDA p : maxScore[p], S)
  BY DEF Table!Standing
<1>3. Table!MapThenSumSet(LAMBDA p : maxScore[p], S) = SumOver(f)
  BY <1>1 DEF Table!MapThenSumSet, Table!MapThenFoldSet, SumOver, Sums
<1> QED
  BY <1>2, <1>3

\* What a solved problem adds to the time.
Taken(rs, u, p) == Table!FirstAccepted(rs, u, p) - startTime + Table!WrongAttempts(rs, u, p) * Penalty

\* A user's time is its sum.
LEMMA TimeIsSum ==
  ASSUME NEW rs, NEW u
  PROVE  Table!Standing(rs, u).time = SumOver([p \in Table!SolvedInContest(rs, u) |-> Taken(rs, u, p)])
<1> DEFINE S == Table!SolvedInContest(rs, u)
           f == [x \in S |-> Taken(rs, u, x)]
<1>1. ASSUME NEW g
      PROVE  SumStep(f, g) = [s \in SUBSET S |-> IF s = {} THEN 0 ELSE Taken(rs, u, CHOOSE x \in s : TRUE) + g[s \ {CHOOSE x \in s : TRUE}]]
  BY DEF SumStep, AnyOf
<1>2. Table!Standing(rs, u).time = Table!MapThenSumSet(LAMBDA p : Taken(rs, u, p), S)
  BY DEF Table!Standing, Taken
<1>3. Table!MapThenSumSet(LAMBDA p : Taken(rs, u, p), S) = SumOver(f)
  BY <1>1 DEF Table!MapThenSumSet, Table!MapThenFoldSet, SumOver, Sums
<1> QED
  BY <1>2, <1>3

\* getSolvedCounts, in all.
LEMMA TotalIsSum ==
  ASSUME NEW rs, NEW u
  PROVE  Table!Total(rs, u) = SumOver(Table!SolvedCounts(rs, u))
<1> DEFINE f == Table!SolvedCounts(rs, u)
           S == DOMAIN f
<1>1. ASSUME NEW g
      PROVE  SumStep(f, g) = [s \in SUBSET S |-> IF s = {} THEN 0 ELSE f[CHOOSE x \in s : TRUE] + g[s \ {CHOOSE x \in s : TRUE}]]
  BY DEF SumStep, AnyOf
<1>2. Table!Total(rs, u) = Table!MapThenSumSet(LAMBDA d : f[d], S)
  BY DEF Table!Total
<1>3. Table!MapThenSumSet(LAMBDA d : f[d], S) = SumOver(f)
  <2> HIDE DEF f
  <2> QED BY <1>1 DEF Table!MapThenSumSet, Table!MapThenFoldSet, SumOver, Sums
<1> QED
  BY <1>2, <1>3

\* Cardinality is the same operator inside the instance.
LEMMA TableCardinality == \A S : Table!Cardinality(S) = Cardinality(S)
BY DEF Table!Cardinality, Cardinality

\* The rows behind a standing.
Solving(rs, u, p) == {i \in DOMAIN rs : rs[i].visible /\ rs[i].contest /\ rs[i].user = u
                                        /\ rs[i].problem = p /\ rs[i].verdict = "AC"}
Failing(rs, u, p) ==
  {i \in DOMAIN rs : /\ rs[i].visible /\ rs[i].contest /\ rs[i].user = u /\ rs[i].problem = p
                     /\ rs[i].verdict # "AC" /\ i < Table!FirstAccepted(rs, u, p)}

\* The first accepted row is one, if there is any, and none is before it.
LEMMA FirstIsFirst ==
  ASSUME NEW rs \in Seq(Table!Row), NEW u, NEW p
  PROVE  /\ Table!FirstAccepted(rs, u, p) \in Nat
         /\ Solving(rs, u, p) = {} => Table!FirstAccepted(rs, u, p) = 0
         /\ Solving(rs, u, p) # {} =>
              /\ Table!FirstAccepted(rs, u, p) \in Solving(rs, u, p) /\ Table!FirstAccepted(rs, u, p) > 0
              /\ \A i \in Solving(rs, u, p) : Table!FirstAccepted(rs, u, p) <= i
<1>1. Table!InContest(rs, u, p) \cap Table!Accepted(rs, u) = Solving(rs, u, p)
  BY DEF Table!InContest, Table!Accepted, Table!Where, Solving
<1>2. Table!FirstAccepted(rs, u, p) = IF Solving(rs, u, p) = {} THEN 0 ELSE Table!Min(Solving(rs, u, p))
  BY <1>1 DEF Table!FirstAccepted
<1>3. Solving(rs, u, p) \subseteq Nat \ {0}
  BY DEF Solving
<1>4. ASSUME Solving(rs, u, p) # {}
      PROVE  /\ Table!Min(Solving(rs, u, p)) \in Solving(rs, u, p)
             /\ \A i \in Solving(rs, u, p) : Table!Min(Solving(rs, u, p)) <= i
  <2>1. \E n \in Solving(rs, u, p) : \A m \in Solving(rs, u, p) : n <= m
    BY <1>3, <1>4, LeastNumber
  <2> QED
    BY <2>1 DEF Table!Min
<1> QED
  BY <1>2, <1>3, <1>4

\* Wrong attempts are counted.
LEMMA WrongAreFailing ==
  ASSUME NEW rs \in Seq(Table!Row), NEW u, NEW p
  PROVE  /\ Table!WrongAttempts(rs, u, p) = Cardinality(Failing(rs, u, p))
         /\ IsFiniteSet(Failing(rs, u, p)) /\ Table!WrongAttempts(rs, u, p) \in Nat
<1>1. {i \in Table!InContest(rs, u, p) \ Table!Accepted(rs, u) : i < Table!FirstAccepted(rs, u, p)}
        = Failing(rs, u, p)
  BY DEF Table!InContest, Table!Accepted, Table!Where, Failing
<1>2. IsFiniteSet(1..Len(rs)) /\ Failing(rs, u, p) \in SUBSET (1..Len(rs))
  BY FS_Interval DEF Failing
<1>3. IsFiniteSet(Failing(rs, u, p))
  BY <1>2, FS_Subset
<1> QED
  BY <1>1, <1>3, FS_CardinalityType, TableCardinality DEF Table!WrongAttempts

\* A problem is solved by a row.
LEMMA SolvedAreTasks ==
  ASSUME NEW rs \in Seq(Table!Row), NEW u
  PROVE  /\ Table!SolvedInContest(rs, u) \in SUBSET Tasks /\ IsFiniteSet(Table!SolvedInContest(rs, u))
         /\ \A p \in Tasks : p \in Table!SolvedInContest(rs, u) <=> Solving(rs, u, p) # {}
<1>1. Table!SolvedInContest(rs, u) \in SUBSET Tasks
  BY DEF Table!SolvedInContest
<1>2. \A p \in Tasks : p \in Table!SolvedInContest(rs, u) <=> Solving(rs, u, p) # {}
  BY FirstIsFirst DEF Table!SolvedInContest
<1> QED
  BY <1>1, <1>2, FS_Subset, StandingsAssumption

\* What it adds is a number, which a row before the start makes negative.
LEMMA TakenIsANumber ==
  ASSUME NEW rs \in Seq(Table!Row), NEW u, NEW p
  PROVE  Taken(rs, u, p) \in Int
<1>1. Table!FirstAccepted(rs, u, p) \in Nat /\ Table!WrongAttempts(rs, u, p) \in Nat
  BY FirstIsFirst, WrongAreFailing
<1>2. \A a, b, c, d \in Nat : a - b + c * d \in Int
  OBVIOUS
<1> QED
  BY <1>1, <1>2, StandingsAssumption DEF Taken

\* A table has a score and a time for every user.
LEMMA TablesAreStandings ==
  ASSUME NEW rs \in Seq(Table!Row)
  PROVE  Table!Table(rs) \in Table!Standings
<1> SUFFICES ASSUME NEW u \in Entrants PROVE Table!Standing(rs, u) \in [score : Nat, time : Int]
  BY DEF Table!Table, Table!Standings
<1> DEFINE S == Table!SolvedInContest(rs, u)
           f == [p \in S |-> maxScore[p]]
           g == [p \in S |-> Taken(rs, u, p)]
<1>1. S \in SUBSET Tasks /\ IsFiniteSet(S)
  BY SolvedAreTasks
<1>2. f \in [S -> Nat] /\ g \in [S -> Int]
  BY <1>1, TakenIsANumber, StandingsAssumption
<1> HIDE DEF f, g, S
<1>3. SumOver(f) \in Nat /\ SumOver(g) \in Int
  BY <1>1, <1>2, SumsAreNumbers DEF SumOver
<1>4. Table!Standing(rs, u).score \in Nat /\ Table!Standing(rs, u).time \in Int
  BY <1>3, ScoreIsSum, TimeIsSum DEF f, g, S
<1>5. Table!Standing(rs, u) = [score |-> Table!Standing(rs, u).score, time |-> Table!Standing(rs, u).time]
  BY DEF Table!Standing
<1> QED
  BY <1>4, <1>5

\* More problems, or the same ones in no more time.
LEMMA BetterStanding ==
  ASSUME NEW rs \in Seq(Table!Row), NEW qs \in Seq(Table!Row), NEW u \in Entrants,
         Table!SolvedInContest(rs, u) \subseteq Table!SolvedInContest(qs, u),
         \A p \in Table!SolvedInContest(rs, u) : Taken(qs, u, p) <= Taken(rs, u, p)
  PROVE  ~Table!Below(Table!Standing(qs, u), Table!Standing(rs, u))
<1> DEFINE R == Table!SolvedInContest(rs, u)
           Q == Table!SolvedInContest(qs, u)
           fR == [p \in R |-> maxScore[p]]
           fQ == [p \in Q |-> maxScore[p]]
           gR == [p \in R |-> Taken(rs, u, p)]
           gQ == [p \in Q |-> Taken(qs, u, p)]
<1>1. R \in SUBSET Tasks /\ IsFiniteSet(R) /\ Q \in SUBSET Tasks /\ IsFiniteSet(Q) /\ R \subseteq Q
  BY SolvedAreTasks
<1>2. /\ fR \in [R -> Nat] /\ fQ \in [Q -> Nat] /\ fR \in [R -> Int] /\ fQ \in [Q -> Int]
      /\ gR \in [R -> Int] /\ gQ \in [Q -> Int]
      /\ \A p \in R : fR[p] = fQ[p] /\ gQ[p] <= gR[p]
      /\ \A p \in Q : fQ[p] > 0
  BY <1>1, TakenIsANumber, StandingsAssumption
<1>3. /\ Table!Standing(rs, u).score = SumOver(fR) /\ Table!Standing(rs, u).time = SumOver(gR)
      /\ Table!Standing(qs, u).score = SumOver(fQ) /\ Table!Standing(qs, u).time = SumOver(gQ)
  BY ScoreIsSum, TimeIsSum
<1> HIDE DEF fR, fQ, gR, gQ, R, Q
<1>4. SumOver(fR) = Sums(fR)[R] /\ SumOver(gR) = Sums(gR)[R] /\ SumOver(fQ) = Sums(fQ)[Q] /\ SumOver(gQ) = Sums(gQ)[Q]
  BY <1>2 DEF SumOver
<1>5. Sums(fR)[R] \in Nat /\ Sums(fQ)[R] \in Nat /\ Sums(fQ)[Q] \in Nat /\ Sums(gR)[R] \in Int /\ Sums(gQ)[Q] \in Int
  BY <1>1, <1>2, SumsAreNumbers
<1>6. Sums(fR)[R] = Sums(fQ)[R]
  <2>1. \A p \in R : fR[p] <= fQ[p] /\ fQ[p] <= fR[p]
    BY <1>1, <1>2
  <2>2. Sums(fR)[R] <= Sums(fQ)[R] /\ Sums(fQ)[R] <= Sums(fR)[R]
    BY <1>1, <1>2, <2>1, SumsGrow
  <2> QED
    BY <1>5, <2>2
<1>7. Sums(fQ)[R] <= Sums(fQ)[Q] /\ (R # Q => Sums(fQ)[R] < Sums(fQ)[Q])
  BY <1>1, <1>2, SumsOfMore
<1>8. R = Q => Sums(gQ)[Q] <= Sums(gR)[R]
  BY <1>1, <1>2, SumsGrow
<1> QED
  BY <1>3, <1>4, <1>5, <1>6, <1>7, <1>8 DEF Table!Below

\* What every step does to the rows.
RowsGrow(rs, qs) ==
  /\ qs \in Seq(Table!Row) /\ DOMAIN rs \subseteq DOMAIN qs
  /\ \A i \in DOMAIN rs :
       /\ qs[i].user = rs[i].user /\ qs[i].problem = rs[i].problem /\ qs[i].contest = rs[i].contest
       /\ rs[i].visible => qs[i].visible
  /\ \A i \in DOMAIN qs \ DOMAIN rs : ~qs[i].visible

\* Unless a verdict is overwritten or a row comes late, what was accepted first
\* still is, or something before it, and no failure is added before it.
LEMMA GrownRowsImprove ==
  ASSUME submissions \in Seq(Table!Row), RowsGrow(submissions, submissions')
  PROVE  Table!Improves
<1> SUFFICES ASSUME ~Table!Overwritten, ~Table!LateCommit, NEW u \in Entrants
             PROVE  ~Table!Below(Table!Standing(submissions', u), Table!Standing(submissions, u))
  BY DEF Table!Improves
<1>1. PICK rs, qs : rs = submissions /\ qs = submissions'
  OBVIOUS
<1>2. rs \in Seq(Table!Row) /\ qs \in Seq(Table!Row) /\ RowsGrow(rs, qs)
  BY <1>1 DEF RowsGrow
<1>3. \A i \in DOMAIN rs : rs[i].verdict = "AC" => qs[i].verdict = "AC"
  BY <1>1 DEF Table!Overwritten
<1>4. \A i, j \in DOMAIN rs :
         i < j /\ rs[j].verdict = "AC" /\ rs[i].user = rs[j].user /\ rs[i].problem = rs[j].problem =>
           rs[i].visible \/ ~qs[i].visible
  BY <1>1 DEF Table!LateCommit
<1>5. \A p : Solving(rs, u, p) \subseteq Solving(qs, u, p)
  BY <1>2, <1>3 DEF RowsGrow, Solving
<1>6. ASSUME NEW p \in Table!SolvedInContest(rs, u) PROVE Taken(qs, u, p) <= Taken(rs, u, p)
  <2> DEFINE f == Table!FirstAccepted(rs, u, p)
             g == Table!FirstAccepted(qs, u, p)
             v == Table!WrongAttempts(rs, u, p)
             w == Table!WrongAttempts(qs, u, p)
  <2>1. Solving(rs, u, p) # {} /\ Solving(qs, u, p) # {}
    BY <1>2, <1>5, SolvedAreTasks
  <2>2. f \in Nat /\ g \in Nat /\ f \in Solving(rs, u, p) /\ g <= f
    BY <1>2, <1>5, <2>1, FirstIsFirst
  <2>3. Failing(qs, u, p) \subseteq Failing(rs, u, p)
    <3> SUFFICES ASSUME NEW i \in Failing(qs, u, p) PROVE i \in Failing(rs, u, p)
      OBVIOUS
    <3>1. i \in DOMAIN qs /\ i < g /\ qs[i].visible /\ qs[i].user = u /\ qs[i].problem = p /\ qs[i].contest
          /\ qs[i].verdict # "AC" /\ i \in Nat
      BY <1>2 DEF Failing
    <3>2. i \in DOMAIN rs
      BY <1>2, <3>1 DEF RowsGrow
    <3>3. f \in DOMAIN rs /\ rs[f].verdict = "AC" /\ rs[f].user = u /\ rs[f].problem = p
      BY <2>2 DEF Solving
    <3>4. rs[i].user = u /\ rs[i].problem = p /\ rs[i].contest /\ rs[i].verdict # "AC" /\ i < f
      BY <1>2, <1>3, <2>2, <3>1, <3>2 DEF RowsGrow
    <3>5. rs[i].visible
      BY <1>4, <3>1, <3>2, <3>3, <3>4
    <3> QED
      BY <3>2, <3>4, <3>5 DEF Failing
  <2>4. v \in Nat /\ w \in Nat /\ w <= v
    BY <1>2, <2>3, WrongAreFailing, FS_Subset
  <2>5. w * Penalty <= v * Penalty /\ w * Penalty \in Nat /\ v * Penalty \in Nat
    <3>1. \A a, b, c \in Nat : a <= b => a * c <= b * c /\ a * c \in Nat /\ b * c \in Nat
      OBVIOUS
    <3> QED
      BY <2>4, <3>1, StandingsAssumption
  <2>6. Taken(qs, u, p) = g - startTime + w * Penalty /\ Taken(rs, u, p) = f - startTime + v * Penalty
    BY DEF Taken
  <2> HIDE DEF f, g, v, w
  <2> QED
    BY <2>2, <2>5, <2>6, StandingsAssumption
<1>7. Table!SolvedInContest(rs, u) \subseteq Table!SolvedInContest(qs, u)
  BY <1>2, <1>5, SolvedAreTasks
<1> QED
  BY <1>1, <1>2, <1>6, <1>7, BetterStanding

\* What a user has solved, anywhere.
LEMMA AcceptedRows ==
  ASSUME NEW rs \in Seq(Table!Row), NEW u
  PROVE  /\ Table!Accepted(rs, u) = {i \in DOMAIN rs : rs[i].visible /\ rs[i].user = u /\ rs[i].verdict = "AC"}
         /\ IsFiniteSet(Table!Accepted(rs, u)) /\ Cardinality(Table!Accepted(rs, u)) \in 0..Len(rs)
         /\ Table!Solved(rs, u) = {rs[i].problem : i \in Table!Accepted(rs, u)}
         /\ Table!Solved(rs, u) \in SUBSET Tasks /\ IsFiniteSet(Table!Solved(rs, u))
         /\ Cardinality(Table!Solved(rs, u)) <= Cardinality(Table!Accepted(rs, u))
<1> DEFINE A == Table!Accepted(rs, u)
           f == [i \in A |-> rs[i].problem]
<1>1. A = {i \in DOMAIN rs : rs[i].visible /\ rs[i].user = u /\ rs[i].verdict = "AC"}
  BY DEF Table!Accepted, Table!Where
<1>2. A \in SUBSET (1..Len(rs)) /\ Len(rs) \in Nat
  BY <1>1
<1>3. IsFiniteSet(1..Len(rs)) /\ Cardinality(1..Len(rs)) = Len(rs)
  <2>1. \A n \in Nat : IsFiniteSet(1..n) /\ Cardinality(1..n) = n
    BY FS_Interval
  <2> QED
    BY <1>2, <2>1
<1>4. IsFiniteSet(A) /\ Cardinality(A) <= Len(rs)
  BY <1>2, <1>3, FS_Subset
<1>5. Table!Solved(rs, u) = {rs[i].problem : i \in A}
  BY DEF Table!Solved
<1>6. Table!Solved(rs, u) \in SUBSET Tasks
  <2>0. \A i \in DOMAIN rs : rs[i] \in Table!Row
    OBVIOUS
  <2>1. \A i \in DOMAIN rs : rs[i].problem \in Tasks
    BY <2>0 DEF Table!Row
  <2> QED
    BY <1>1, <1>5, <2>1
<1> HIDE DEF A
<1>7. f \in Surjection(A, Table!Solved(rs, u))
  BY <1>5 DEF Surjection
<1>8. IsFiniteSet(Table!Solved(rs, u)) /\ Cardinality(Table!Solved(rs, u)) <= Cardinality(A)
  BY <1>4, <1>7, FS_Surjection
<1> QED
  BY <1>1, <1>2, <1>4, <1>5, <1>6, <1>8, FS_CardinalityType DEF A

\* Counting per difficulty counts every solved problem once.
LEMMA CountsAddUp ==
  ASSUME NEW rs \in Seq(Table!Row), NEW u
  PROVE  Table!Total(rs, u) = Cardinality(Table!Solved(rs, u))
<1> DEFINE D == {Difficulty[p] : p \in Tasks}
           S == Table!Solved(rs, u)
           Of(s) == {p \in S : Difficulty[p] \in s}
           f == Table!SolvedCounts(rs, u)
           P == {s \in SUBSET D : Sums(f)[s] = Cardinality(Of(s))}
<1>1. S \in SUBSET Tasks /\ IsFiniteSet(S)
  BY AcceptedRows
<1>2. IsFiniteSet(D)
  <2>1. [p \in Tasks |-> Difficulty[p]] \in Surjection(Tasks, D)
    BY DEF Surjection
  <2> QED
    BY <2>1, FS_Surjection, StandingsAssumption
<1>3. f = [d \in D |-> Cardinality({p \in S : Difficulty[p] = d})]
  BY TableCardinality DEF Table!SolvedCounts
<1> HIDE DEF f, S
<1>4. ASSUME NEW s PROVE IsFiniteSet(Of(s)) /\ Cardinality(Of(s)) \in Nat
  <2>1. Of(s) \in SUBSET S
    OBVIOUS
  <2> HIDE DEF Of
  <2> QED
    BY <1>1, <2>1, FS_Subset, FS_CardinalityType
<1>5. ASSUME NEW d \in D PROVE f[d] = Cardinality(Of({d})) /\ f[d] \in Nat
  <2>1. Of({d}) = {p \in S : Difficulty[p] = d}
    OBVIOUS
  <2>2. f[d] = Cardinality({p \in S : Difficulty[p] = d})
    BY <1>3
  <2> QED
    BY <1>4, <2>1, <2>2
<1>6. f \in [D -> Nat] /\ f \in [D -> Int]
  <2> HIDE DEF D, Of
  <2>1. ASSUME NEW d \in D PROVE f[d] \in Nat
    BY <1>5
  <2> QED
    BY <1>3, <2>1
<1> HIDE DEF D
<1>7. {} \in P
  <2>1. Sums(f)[{}] = 0
    BY <1>2, <1>6, SumsUnfold
  <2>2. Of({}) = {}
    OBVIOUS
  <2> QED
    BY <2>1, <2>2, FS_EmptySet
<1>8. ASSUME NEW s \in SUBSET D, NEW d \in D, s \in P, d \notin s PROVE s \cup {d} \in P
  <2>0. s \cup {d} \in SUBSET D /\ d \in s \cup {d} /\ (s \cup {d}) \ {d} = s
    BY <1>8
  <2>1. Sums(f)[s \cup {d}] = f[d] + Sums(f)[s]
    <3> HIDE DEF Of, P
    <3>1. f \in [D -> Int] /\ IsFiniteSet(D)
      BY <1>2, <1>6
    <3>2. ASSUME NEW t \in SUBSET D, NEW x \in t PROVE Sums(f)[t] = f[x] + Sums(f)[t \ {x}]
      BY <3>1, SumsTakeOut
    <3>3. Sums(f)[s \cup {d}] = f[d] + Sums(f)[(s \cup {d}) \ {d}]
      BY <2>0, <3>2
    <3> QED
      BY <2>0, <3>3
  <2>2. Of(s \cup {d}) = Of(s) \cup Of({d}) /\ Of(s) \cap Of({d}) = {}
    BY <1>8
  <2>3. Cardinality(Of(s) \cup Of({d})) = Cardinality(Of(s)) + Cardinality(Of({d})) - Cardinality(Of(s) \cap Of({d}))
    <3> HIDE DEF Of
    <3> QED
      BY <1>4, FS_Union
  <2>4. Cardinality(Of(s \cup {d})) = Cardinality(Of(s)) + Cardinality(Of({d}))
    <3>0. Cardinality(Of(s) \cap Of({d})) = 0 /\ Cardinality(Of({d})) \in Nat /\ Cardinality(Of(s)) \in Nat
      <4>1. Cardinality(Of(s) \cap Of({d})) = 0
        BY <2>2, FS_EmptySet
      <4> QED
        BY <1>4, <4>1
    <3>1. \A a, b \in Nat : a + b - 0 = a + b
      OBVIOUS
    <3> HIDE DEF Of
    <3> QED
      BY <3>0, <3>1, <2>2, <2>3
  <2>5. Sums(f)[s \cup {d}] = Cardinality(Of(s \cup {d}))
    <3>1. Sums(f)[s] = Cardinality(Of(s))
      BY <1>8
    <3> HIDE DEF Of
    <3> QED
      BY <1>4, <1>5, <2>1, <2>4, <3>1
  <2> HIDE DEF Of
  <2> QED
    BY <1>8, <2>5
<1> HIDE DEF P
<1>9. SUBSET D \subseteq P
  BY <1>2, <1>7, <1>8, SubsetInduction
<1>10. Sums(f)[D] = Cardinality(Of(D))
  BY <1>9 DEF P
<1>11. Of(D) = S
  BY <1>1 DEF D
<1> QED
  BY <1>6, <1>10, <1>11, TotalIsSum DEF SumOver, f, S

\* The status of a problem says whether it is among them.
LEMMA StatusIsSolved ==
  ASSUME NEW rs \in Seq(Table!Row), NEW u
  PROVE  {p \in Tasks : Table!UserStatus(rs, u, p) = "Solved"} = Table!Solved(rs, u)
<1> SUFFICES ASSUME NEW p \in Tasks
             PROVE  Table!UserStatus(rs, u, p) = "Solved" <=> p \in Table!Solved(rs, u)
  BY AcceptedRows
<1> DEFINE T == {i \in DOMAIN rs : rs[i].visible /\ rs[i].user = u /\ rs[i].problem = p}
           A == Table!Accepted(rs, u)
<1>1. Table!UserStatus(rs, u, p) = CASE T \cap A # {} -> "Solved"
                                     [] T # {} /\ T \cap A = {} -> "Attempted"
                                     [] OTHER -> "none"
  BY DEF Table!UserStatus, Table!Where
<1>2. T \cap A # {} <=> p \in Table!Solved(rs, u)
  <2>1. A = {i \in DOMAIN rs : rs[i].visible /\ rs[i].user = u /\ rs[i].verdict = "AC"}
    BY AcceptedRows
  <2>2. Table!Solved(rs, u) = {rs[i].problem : i \in A}
    BY AcceptedRows
  <2>3. T \cap A = {i \in A : rs[i].problem = p}
    BY <2>1
  <2> HIDE DEF A, T
  <2> QED
    BY <2>2, <2>3
<1> HIDE DEF T, A
<1> QED
  BY <1>1, <1>2

\* What ViewsAgree says of a user and a leaderboard.
IsListed(list, rs, u) ==
  IF u \in DOMAIN list THEN list[u] = Table!Total(rs, u)
  ELSE \/ Table!Total(rs, u) = 0
       \/ /\ Table!Cardinality(DOMAIN list) = limit
          /\ \A v \in DOMAIN list : list[v] >= Table!Total(rs, u)

\* However ties are cut off, the leaderboard has a user or is full without it.
LEMMA SolversAreListed ==
  ASSUME NEW rs \in Seq(Table!Row), NEW u \in Entrants, NEW list \in Table!GlobalLeaderboards(rs)
  PROVE  IsListed(list, rs, u)
<1> DEFINE solvers == {v \in Entrants : Table!Solved(rs, v) # {}}
           Count(v) == Table!Cardinality(Table!Solved(rs, v))
<1>1. PICK top \in Table!Tops(rs) : list = [v \in top |-> Count(v)]
  BY DEF Table!GlobalLeaderboards
<1>2. /\ Table!Cardinality(top) = limit \/ top = solvers
      /\ \A w \in top, v \in solvers \ top : Count(v) <= Count(w)
  BY <1>1 DEF Table!Tops
<1>3. \A v : Table!Total(rs, v) = Count(v) /\ Count(v) \in Nat
  BY CountsAddUp, AcceptedRows, TableCardinality, FS_CardinalityType
<1>4. DOMAIN list = top /\ \A v \in top : list[v] = Count(v)
  BY <1>1
<1>5. CASE u \in top
  BY <1>3, <1>4, <1>5 DEF IsListed
<1>6. CASE u \notin top /\ Table!Total(rs, u) # 0
  <2>1. u \in solvers
    <3>1. ASSUME Table!Solved(rs, u) = {} PROVE Count(u) = 0
      BY <3>1, TableCardinality, FS_EmptySet
    <3> QED
      BY <1>3, <1>6, <3>1
  <2>2. Table!Cardinality(top) = limit
    BY <1>2, <1>6, <2>1
  <2>3. \A v \in top : list[v] >= Table!Total(rs, u)
    <3> HIDE DEF Count, solvers
    <3> QED
      BY <1>2, <1>3, <1>4, <1>6, <2>1
  <2> QED
    BY <1>4, <1>6, <2>2, <2>3 DEF IsListed
<1>7. CASE u \notin top /\ Table!Total(rs, u) = 0
  BY <1>4, <1>7 DEF IsListed
<1> QED
  BY <1>5, <1>6, <1>7

\* So the three ways to count agree.
LEMMA SameSolved ==
  ASSUME NEW rs \in Seq(Table!Row), NEW u \in Entrants
  PROVE  /\ Table!Total(rs, u) = Table!Cardinality({p \in Tasks : Table!UserStatus(rs, u, p) = "Solved"})
         /\ Table!SolvedInContest(rs, u) \subseteq Table!Solved(rs, u)
         /\ \A list \in Table!GlobalLeaderboards(rs) : IsListed(list, rs, u)
<1>1. Table!Total(rs, u) = Cardinality(Table!Solved(rs, u))
  BY CountsAddUp
<1>4. ASSUME NEW p \in Table!SolvedInContest(rs, u) PROVE p \in Table!Solved(rs, u)
  <2>1. PICK i \in Solving(rs, u, p) : TRUE
    BY SolvedAreTasks
  <2>2. i \in Table!Accepted(rs, u) /\ rs[i].problem = p
    BY <2>1, AcceptedRows DEF Solving
  <2>3. Table!Solved(rs, u) = {rs[j].problem : j \in Table!Accepted(rs, u)}
    BY AcceptedRows
  <2> QED
    BY <2>2, <2>3
<1> QED
  BY <1>1, <1>4, StatusIsSolved, SolversAreListed, TableCardinality

\* A step of the parts is one of the standings or leaves them as they are.
LEMMA StandingSteps == [MCNext]_allVars => [Table!Next]_standingsVars
BY DEF allVars, MCNext, Rest, Still, standingsVars

\* A table that was asked for, is on its way, or is shown.
Fetch == [table : Table!Standings, number : Int, why : SUBSET Table!Reasons]

\* An answer is right, or has a reason not to be, or a newer one is on its way.
AnswerFresh(x, rs, n, fs) ==
  \/ x.why # {} \/ x.table = Table!Table(rs) \/ n > 0
  \/ \E i \in DOMAIN fs : fs[i] = Table!Asked \/ fs[i].number > x.number

\* An update is owed for a credit.
RowsTyped ==
  /\ submissions \in Seq(Table!Row) /\ Len(submissions) <= MaxRows
  /\ credited \in SUBSET (Entrants \X Tasks) /\ owed \in Nat /\ owed <= Cardinality(credited)
\* The core has answered as many requests as have a number.
AnswersTyped(fs, n) ==
  /\ fs \in Seq(Fetch) /\ Len(fs) <= MaxFetches
  /\ n \in Nat /\ n <= Cardinality({i \in DOMAIN fs : fs[i] # Table!Asked})
  /\ \A i \in DOMAIN fs : fs[i] = Table!Asked \/ fs[i] = Table!Over \/ fs[i].number \in 1..n
\* The page shows an answer that the core has given.
PageTyped == shown \in Fetch /\ shown.number \in 0..served /\ stream \in BOOLEAN
\* The invariant that PageCatchesUp needs: of every answer that can still be shown.
PageFresh ==
  /\ AnswerFresh(shown, submissions, owed, fetches)
  /\ \A i \in DOMAIN fetches :
       fetches[i].number > 0 => \/ AnswerFresh(fetches[i], submissions, owed, fetches)
                                \/ fetches[i].number < shown.number
\* A profile between its queries, or done.
Profiles == [at : {"solved", "done"}, user : Entrants, solved : 0..Cardinality(Tasks),
             accepted : 0..MaxRows, lowered : BOOLEAN]
\* What was solved when the profile was begun is still accepted.
ProfileRight ==
  profile = Table!NoProfile \/
  /\ profile \in Profiles
  /\ ~profile.lowered =>
       IF profile.at = "solved"
       THEN profile.solved <= Cardinality(Table!Accepted(submissions, profile.user))
       ELSE profile.solved <= profile.accepted
\* All of it.
StandInv ==
  /\ RowsTyped /\ AnswersTyped(fetches, served) /\ PageTyped /\ PageFresh /\ ProfileRight
  /\ hitches \in 0..MaxFaults

\* The three tables that nobody has computed.
LEMMA AskedAndOver ==
  /\ Table!NoTable \in Fetch /\ Table!NoTable.number = 0 /\ Table!NoTable.why = {}
  /\ Table!Asked \in Fetch /\ Table!Over \in Fetch
  /\ Table!Asked.number = -1 /\ Table!Over.number = -2 /\ Table!Asked # Table!Over
<1>1. Table!NoTable \in Fetch /\ Table!NoTable.number = 0 /\ Table!NoTable.why = {}
  BY DEF Table!NoTable, Fetch, Table!Standings
<1>2. /\ Table!Asked = [table |-> Table!NoTable.table, number |-> -1, why |-> {}]
      /\ Table!Over = [table |-> Table!NoTable.table, number |-> -2, why |-> {}]
  BY DEF Table!NoTable, Table!Asked, Table!Over
<1>3. Table!NoTable.table \in Table!Standings
  BY <1>1 DEF Fetch
<1>4. /\ Table!Asked \in Fetch /\ Table!Over \in Fetch
      /\ Table!Asked.number = -1 /\ Table!Over.number = -2
  BY <1>2, <1>3 DEF Fetch
<1> QED
  BY <1>1, <1>4

\* The page begins with a request.
LEMMA StandInit == ASSUME Table!Init PROVE StandInv
<1>0. Table!Init
  OBVIOUS
<1> USE <1>0 DEF Table!Init
<1>1. RowsTyped
  <2>1. Cardinality({}) = 0
    BY FS_EmptySet
  <2> QED
    BY <2>1, StandingsAssumption DEF RowsTyped
<1>2. AnswersTyped(fetches, served)
  <2>1. {i \in DOMAIN fetches : fetches[i] # Table!Asked} = {}
    OBVIOUS
  <2>2. fetches \in Seq(Fetch) /\ Len(fetches) = 1 /\ \A i \in DOMAIN fetches : fetches[i] = Table!Asked
    BY AskedAndOver
  <2>3. Cardinality({}) = 0
    BY FS_EmptySet
  <2>4. served = 0 /\ 0 <= Cardinality({i \in DOMAIN fetches : fetches[i] # Table!Asked}) /\ 1 <= MaxFetches
    <3>1. served = 0
      OBVIOUS
    <3>2. Cardinality({i \in DOMAIN fetches : fetches[i] # Table!Asked}) = 0
      BY ONLY <2>1, <2>3
    <3> QED
      BY ONLY <3>1, <3>2, StandingsAssumption
  <2> QED
    BY <2>2, <2>4 DEF AnswersTyped
<1>3. PageTyped
  <2>1. shown \in Fetch /\ shown.number = 0 /\ served = 0 /\ stream = FALSE
    BY AskedAndOver
  <2>2. stream \in BOOLEAN
    BY <2>1, Zenon
  <2> QED
    BY <2>1, <2>2 DEF PageTyped
<1>4. PageFresh
  <2>1. fetches[1] = Table!Asked /\ DOMAIN fetches = {1}
    OBVIOUS
  <2> QED
    BY <2>1 DEF PageFresh, AnswerFresh
<1>5. ProfileRight /\ hitches \in 0..MaxFaults
  BY ContestsAssumption DEF ProfileRight
<1> QED
  BY <1>1, <1>2, <1>3, <1>4, <1>5 DEF StandInv

\* Marking what is shown and what is on its way back.
LEMMA Marked ==
  ASSUME AnswersTyped(fetches, served), PageTyped, NEW reason \in Table!Reasons, Table!Mark(reason),
         UNCHANGED <<served, stream>>
  PROVE  AnswersTyped(fetches, served)' /\ PageTyped' /\ PageFresh'
<1>1. /\ shown \in Fetch /\ shown'.why # {} /\ shown' \in Fetch /\ shown'.number = shown.number
  BY DEF Table!Mark, PageTyped, Fetch
<1>2. /\ DOMAIN fetches' = DOMAIN fetches
      /\ \A i \in DOMAIN fetches :
           /\ fetches[i].number > 0 => fetches'[i] = [fetches[i] EXCEPT !.why = @ \cup {reason}]
           /\ ~(fetches[i].number > 0) => fetches'[i] = fetches[i]
  BY DEF Table!Mark
<1>3. fetches \in Seq(Fetch) /\ Len(fetches) \in Nat /\ DOMAIN fetches = 1..Len(fetches)
  BY DEF AnswersTyped
<1>4. ASSUME NEW i \in DOMAIN fetches
      PROVE  /\ fetches'[i] \in Fetch /\ fetches'[i].number = fetches[i].number
             /\ fetches[i].number > 0 => fetches'[i].why # {}
             /\ fetches'[i] = Table!Asked <=> fetches[i] = Table!Asked
             /\ fetches[i] = Table!Over => fetches'[i] = Table!Over
  <2>1. fetches[i] \in Fetch
    BY <1>3
  <2>2. CASE fetches[i].number > 0
    <3>1. fetches'[i] = [fetches[i] EXCEPT !.why = @ \cup {reason}]
      BY <1>2, <2>2
    <3>2. /\ fetches'[i] \in Fetch /\ fetches'[i].number = fetches[i].number /\ fetches'[i].why # {}
      BY <2>1, <3>1 DEF Fetch
    <3> QED
      BY <2>2, <3>2, AskedAndOver
  <2>3. CASE ~(fetches[i].number > 0)
    BY <1>2, <2>1, <2>3
  <2> QED
    BY <2>2, <2>3
<1>5. fetches' \in Seq(Fetch) /\ Len(fetches') = Len(fetches)
  <2>1. fetches' = [i \in 1..Len(fetches) |-> fetches'[i]]
    BY <1>3 DEF Table!Mark
  <2>2. \A i \in 1..Len(fetches) : fetches'[i] \in Fetch
    BY <1>3, <1>4
  <2> QED
    BY <1>3, <2>1, <2>2
<1>6. {i \in DOMAIN fetches' : fetches'[i] # Table!Asked} = {i \in DOMAIN fetches : fetches[i] # Table!Asked}
  BY <1>2, <1>4
<1>7. AnswersTyped(fetches, served)'
  BY <1>2, <1>4, <1>5, <1>6 DEF AnswersTyped
<1>8. PageTyped'
  BY <1>1 DEF PageTyped
<1>9. PageFresh'
  BY <1>1, <1>2, <1>4 DEF PageFresh, AnswerFresh
<1> QED
  BY <1>7, <1>8, <1>9

\* The rows change.
LEMMA RowsChange ==
  ASSUME StandInv, NEW rs, NEW pairs \in SUBSET (Entrants \X Tasks), Table!RowsBecome(rs, pairs),
         RowsGrow(submissions, rs), Len(rs) <= MaxRows
  PROVE  StandInv' /\ RowsGrow(submissions, submissions')
<1> USE DEF Table!RowsBecome
<1> DEFINE new == pairs \ credited
<1>1. /\ submissions' = rs /\ credited' = credited \cup new /\ owed' = owed + Cardinality(new)
      /\ UNCHANGED <<stream, served, hitches>>
  BY TableCardinality
<1>2. IsFiniteSet(Entrants \X Tasks)
  BY StandingsAssumption, FS_Product
<1>3. /\ new \in SUBSET (Entrants \X Tasks) /\ credited' \in SUBSET (Entrants \X Tasks)
      /\ credited \in SUBSET (Entrants \X Tasks)
  BY <1>1 DEF StandInv, RowsTyped
<1>4. IsFiniteSet(new) /\ IsFiniteSet(credited) /\ Cardinality(new) \in Nat /\ Cardinality(credited) \in Nat
  BY <1>2, <1>3, FS_Subset, FS_CardinalityType
<1>5. Cardinality(credited') = Cardinality(credited) + Cardinality(new)
  <2>1. credited \cap new = {} /\ Cardinality({}) = 0
    BY FS_EmptySet
  <2>2. Cardinality(credited \cup new) = Cardinality(credited) + Cardinality(new) - Cardinality(credited \cap new)
    BY <1>4, FS_Union
  <2>3. Cardinality(credited') = Cardinality(credited \cup new) /\ Cardinality(credited \cap new) = 0
    BY <1>1, <2>1
  <2> HIDE DEF new
  <2> QED
    BY <1>4, <2>2, <2>3
<1>6. RowsTyped'
  <2>1. owed \in Nat /\ owed <= Cardinality(credited)
    BY DEF StandInv, RowsTyped
  <2>2. owed' \in Nat /\ owed' <= Cardinality(credited')
    <3> HIDE DEF new
    <3> QED BY <1>1, <1>4, <1>5, <2>1
  <2>3. submissions' \in Seq(Table!Row) /\ Len(submissions') <= MaxRows
    BY <1>1 DEF RowsGrow
  <2> QED
    BY <1>3, <2>2, <2>3 DEF RowsTyped
<1>7. (AnswersTyped(fetches, served) /\ PageTyped /\ PageFresh)'
  <2>1. CASE new = {} /\ Table!Table(rs) # Table!Table(submissions)
    <3>1. Table!Mark("silent")
      BY <2>1
    <3> QED
      BY <1>1, <3>1, Marked DEF StandInv, Table!Reasons
  <2>2. CASE ~(new = {} /\ Table!Table(rs) # Table!Table(submissions))
    <3>1. UNCHANGED <<fetches, shown>>
      BY <2>2
    <3>2. \/ (Table!Table(submissions') = Table!Table(submissions) /\ owed' = owed)
         \/ owed' > 0
      <4>1. CASE new = {}
        <5>1. Cardinality(new) = 0
          BY <4>1, FS_EmptySet
        <5> HIDE DEF new
        <5>2. owed \in Nat /\ owed' = owed
          BY <1>1, <5>1 DEF StandInv, RowsTyped
        <5> QED
          BY <1>1, <2>2, <4>1, <5>2
      <4>2. CASE new # {}
        <5> HIDE DEF new
        <5>1. Cardinality(new) # 0
          BY <1>4, <4>2, FS_EmptySet
        <5>2. owed \in Nat
          BY DEF StandInv, RowsTyped
        <5> QED
          BY <1>1, <1>4, <5>1, <5>2
      <4> QED
        BY <4>1, <4>2
    <3>3. AnswersTyped(fetches, served)'
      BY <1>1, <3>1 DEF StandInv, AnswersTyped
    <3>4. PageTyped'
      BY <1>1, <3>1 DEF StandInv, PageTyped
    <3>5. PageFresh'
      BY <3>1, <3>2 DEF StandInv, PageFresh, AnswerFresh
    <3> QED
      BY <3>3, <3>4, <3>5
  <2> QED
    BY <2>1, <2>2
<1>8. ProfileRight'
  <2>1. CASE profile = Table!NoProfile
    BY <2>1 DEF ProfileRight
  <2>2. CASE profile # Table!NoProfile
    <3>1. profile \in Profiles
      BY <2>2 DEF StandInv, ProfileRight
    <3>2. CASE \E i \in DOMAIN submissions : submissions[i].verdict = "AC" /\ rs[i].verdict # "AC"
      <4>1. profile' = [profile EXCEPT !.lowered = TRUE]
        BY <2>2, <3>2
      <4>2. profile' \in Profiles /\ profile'.lowered
        BY <3>1, <4>1 DEF Profiles
      <4> QED
        BY <4>2 DEF ProfileRight
    <3>3. CASE ~(\E i \in DOMAIN submissions : submissions[i].verdict = "AC" /\ rs[i].verdict # "AC")
      <4>1. profile' = profile
        BY <3>3
      <4>2. submissions \in Seq(Table!Row) /\ rs \in Seq(Table!Row)
        BY DEF StandInv, RowsTyped, RowsGrow
      <4>3. Table!Accepted(submissions, profile.user) \subseteq Table!Accepted(rs, profile.user)
        BY <3>3, <4>2, AcceptedRows DEF RowsGrow
      <4>4. Cardinality(Table!Accepted(submissions, profile.user)) <= Cardinality(Table!Accepted(rs, profile.user))
        BY <4>2, <4>3, AcceptedRows, FS_Subset
      <4>5. /\ Cardinality(Table!Accepted(submissions, profile.user)) \in Nat
            /\ Cardinality(Table!Accepted(rs, profile.user)) \in Nat
        BY <4>2, AcceptedRows, FS_CardinalityType
      <4>6. Cardinality(Tasks) \in Nat
        BY StandingsAssumption, FS_CardinalityType
      <4>7. profile.solved \in Nat
        BY <3>1, <4>6 DEF Profiles
      <4>8. profile.at = "solved" /\ ~profile.lowered =>
              profile.solved <= Cardinality(Table!Accepted(rs, profile.user))
        BY <2>2, <4>4, <4>5, <4>7 DEF StandInv, ProfileRight
      <4> QED
        BY <1>1, <2>2, <3>1, <4>1, <4>8 DEF StandInv, ProfileRight
    <3> QED
      BY <3>2, <3>3
  <2> QED
    BY <2>1, <2>2
<1>9. hitches' \in 0..MaxFaults
  BY <1>1 DEF StandInv
<1> QED
  BY <1>1, <1>6, <1>7, <1>8, <1>9 DEF StandInv

\* What leaves the rows alone.
LEMMA SameRows ==
  ASSUME StandInv, UNCHANGED <<submissions, credited>>, owed' \in Nat, owed' <= owed
  PROVE  RowsTyped' /\ RowsGrow(submissions, submissions')
<1>1. RowsTyped
  BY DEF StandInv
<1>2. RowsTyped'
  <2>1. IsFiniteSet(credited) /\ Cardinality(credited) \in Nat
    <3>1. IsFiniteSet(Entrants \X Tasks) /\ credited \in SUBSET (Entrants \X Tasks)
      BY <1>1, StandingsAssumption, FS_Product DEF RowsTyped
    <3> QED
      BY <3>1, FS_Subset, FS_CardinalityType
  <2> QED
    BY <1>1, <2>1 DEF RowsTyped
<1>3. submissions' = submissions /\ submissions \in Seq(Table!Row)
  BY <1>1 DEF RowsTyped
<1> QED
  BY <1>2, <1>3 DEF RowsGrow

\* A slot of the fetches changes.
LEMMA SlotChanges ==
  ASSUME AnswersTyped(fetches, served), NEW i \in DOMAIN fetches, NEW x \in Fetch, NEW n,
         n = served \/ (n = served + 1 /\ fetches[i] = Table!Asked),
         x # Table!Asked, x = Table!Over \/ x.number \in 1..n
  PROVE  AnswersTyped([fetches EXCEPT ![i] = x], n)
<1> DEFINE fs == [fetches EXCEPT ![i] = x]
           A == {j \in DOMAIN fetches : fetches[j] # Table!Asked}
           B == {j \in DOMAIN fs : fs[j] # Table!Asked}
<1>1. /\ fetches \in Seq(Fetch) /\ Len(fetches) \in Nat /\ Len(fetches) <= MaxFetches /\ served \in Nat
      /\ served <= Cardinality(A) /\ DOMAIN fetches = 1..Len(fetches)
  BY DEF AnswersTyped
<1>2. fs \in Seq(Fetch) /\ Len(fs) = Len(fetches) /\ DOMAIN fs = DOMAIN fetches
  BY <1>1
<1>3. fs[i] = x /\ \A j \in DOMAIN fetches : j # i => fs[j] = fetches[j]
  BY <1>1
<1>4. IsFiniteSet(DOMAIN fetches)
  BY <1>1, FS_Interval
<1>5. B = A \cup {i} /\ A \in SUBSET DOMAIN fetches /\ i \in DOMAIN fetches
  <2> HIDE DEF fs
  <2> QED BY <1>2, <1>3
<1>6. IsFiniteSet(A) /\ Cardinality(A) \in Nat
  <2> HIDE DEF A
  <2> QED BY <1>4, <1>5, FS_Subset, FS_CardinalityType
<1>7. Cardinality(B) = IF i \in A THEN Cardinality(A) ELSE Cardinality(A) + 1
  <2> HIDE DEF A, B
  <2> QED BY <1>5, <1>6, FS_AddElement
<1>8. n \in Nat /\ n <= Cardinality(B)
  <2>1. fetches[i] = Table!Asked => i \notin A
    OBVIOUS
  <2> HIDE DEF A, B
  <2> QED BY <1>1, <1>6, <1>7, <2>1
<1>9. ASSUME NEW j \in DOMAIN fs
      PROVE  fs[j] = Table!Asked \/ fs[j] = Table!Over \/ fs[j].number \in 1..n
  <2>1. fetches[j] = Table!Asked \/ fetches[j] = Table!Over \/ fetches[j].number \in 1..served
    BY <1>2 DEF AnswersTyped
  <2> HIDE DEF fs
  <2>2. CASE j = i
    BY <1>3, <2>2
  <2>3. CASE j # i
    BY <1>1, <1>2, <1>3, <2>1, <2>3
  <2> QED
    BY <2>2, <2>3
<1> HIDE DEF fs
<1>10. fs \in Seq(Fetch) /\ Len(fs) <= MaxFetches
  BY <1>1, <1>2
<1>11. AnswersTyped(fs, n)
  BY <1>8, <1>9, <1>10 DEF AnswersTyped
<1> QED
  BY <1>11 DEF fs

\* An UPDATE asks for the table.
LEMMA AskKeeps ==
  ASSUME StandInv, Len(fetches) < MaxFetches, Table!Ask, UNCHANGED <<shown, served, stream>>
  PROVE  AnswersTyped(fetches, served)' /\ PageTyped' /\ PageFresh'
<1>1. /\ fetches \in Seq(Fetch) /\ Len(fetches) \in Nat /\ DOMAIN fetches = 1..Len(fetches)
      /\ fetches' = Append(fetches, Table!Asked)
  BY DEF StandInv, AnswersTyped, Table!Ask
<1>2. /\ fetches' \in Seq(Fetch) /\ Len(fetches') = Len(fetches) + 1
      /\ DOMAIN fetches' = 1..(Len(fetches) + 1)
      /\ fetches'[Len(fetches) + 1] = Table!Asked
      /\ \A i \in DOMAIN fetches : fetches'[i] = fetches[i]
  BY <1>1, AskedAndOver
<1>3. {i \in DOMAIN fetches' : fetches'[i] # Table!Asked} = {i \in DOMAIN fetches : fetches[i] # Table!Asked}
  BY <1>1, <1>2
<1>4. ASSUME NEW i \in DOMAIN fetches'
      PROVE  fetches'[i] = Table!Asked \/ fetches'[i] = Table!Over \/ fetches'[i].number \in 1..served'
  BY <1>1, <1>2 DEF StandInv, AnswersTyped
<1>5. Len(fetches') <= MaxFetches
  BY <1>1, <1>2, StandingsAssumption
<1>6. AnswersTyped(fetches, served)'
  BY <1>2, <1>3, <1>4, <1>5 DEF StandInv, AnswersTyped
<1>7. PageTyped'
  BY DEF StandInv, PageTyped
<1>8. PageFresh'
  <2>1. Len(fetches) + 1 \in DOMAIN fetches'
    BY <1>1, <1>2
  <2> QED
    BY <1>2, <2>1 DEF PageFresh, AnswerFresh
<1> QED
  BY <1>6, <1>7, <1>8

\* The core answers with the table there is.
LEMMA ServeKeeps ==
  ASSUME StandInv, NEW i \in DOMAIN fetches, Table!Serve(i)
  PROVE  AnswersTyped(fetches, served)' /\ PageTyped' /\ PageFresh'
<1>1. PICK x : x = [table |-> Table!Table(submissions), number |-> served + 1, why |-> {}]
  OBVIOUS
<1>2. served \in Nat /\ fetches \in Seq(Fetch) /\ DOMAIN fetches = 1..Len(fetches)
  BY DEF StandInv, AnswersTyped
<1>3. /\ served' = served + 1 /\ fetches' = [fetches EXCEPT ![i] = x] /\ fetches[i] = Table!Asked
      /\ UNCHANGED <<submissions, owed, stream, shown>>
  BY <1>1 DEF Table!Serve
<1>4. x \in Fetch /\ x.number = served + 1 /\ x.table = Table!Table(submissions)
  BY <1>1, <1>2, TablesAreStandings DEF Fetch, StandInv, RowsTyped
<1>5. x # Table!Asked /\ x.number \in 1..(served + 1)
  BY <1>2, <1>4, AskedAndOver
<1>6. AnswersTyped([fetches EXCEPT ![i] = x], served + 1)
  BY <1>3, <1>4, <1>5, SlotChanges DEF StandInv
<1>7. AnswersTyped(fetches, served)'
  BY <1>3, <1>6
<1>8. PageTyped'
  BY <1>2, <1>3 DEF StandInv, PageTyped
<1>9. DOMAIN fetches' = DOMAIN fetches /\ fetches'[i] = x /\ \A j \in DOMAIN fetches : j # i => fetches'[j] = fetches[j]
  BY <1>2, <1>3
<1>10. shown'.number < x.number
  BY <1>2, <1>3, <1>4 DEF StandInv, PageTyped
<1>11. AnswerFresh(shown', submissions', owed', fetches')
  BY <1>9, <1>10 DEF AnswerFresh
<1>12. ASSUME NEW j \in DOMAIN fetches', fetches'[j].number > 0
       PROVE  AnswerFresh(fetches'[j], submissions', owed', fetches')
  <2>1. CASE j = i
    BY <1>3, <1>4, <1>9, <2>1 DEF AnswerFresh
  <2>2. CASE j # i
    <3>1. fetches'[j] = fetches[j] /\ fetches[j] # Table!Asked /\ fetches[j] # Table!Over
      BY <1>9, <1>12, <2>2, AskedAndOver
    <3>2. fetches[j].number \in 1..served
      BY <1>9, <3>1 DEF StandInv, AnswersTyped
    <3>3. x.number > fetches'[j].number
      BY <1>2, <1>4, <3>1, <3>2
    <3> QED
      BY <1>9, <3>3 DEF AnswerFresh
  <2> QED
    BY <2>1, <2>2
<1> QED
  BY <1>7, <1>8, <1>11, <1>12 DEF PageFresh

\* The larger of two numbers.
LEMMA LargerOfTwo ==
  ASSUME NEW a \in Int, NEW b \in Int
  PROVE  Table!Max({a, b}) = IF a < b THEN b ELSE a
<1> DEFINE m == IF a < b THEN b ELSE a
<1>1. m \in {a, b} /\ \A y \in {a, b} : m >= y
  OBVIOUS
<1>2. \A y \in {a, b} : (\A z \in {a, b} : y >= z) => y = m
  OBVIOUS
<1> HIDE DEF m
<1>3. Table!Max({a, b}) = m
  BY <1>1, <1>2 DEF Table!Max
<1> QED
  BY <1>3 DEF m

\* An answer arrives, in whatever order, and replaces what is shown.
LEMMA AnswerKeeps ==
  ASSUME StandInv, NEW i \in DOMAIN fetches, Table!Answer(i)
  PROVE  AnswersTyped(fetches, served)' /\ PageTyped' /\ PageFresh'
<1>1. /\ served \in Nat /\ fetches \in Seq(Fetch) /\ DOMAIN fetches = 1..Len(fetches)
      /\ shown \in Fetch /\ shown.number \in 0..served
  BY DEF StandInv, AnswersTyped, PageTyped
<1>2. /\ fetches[i].number > 0 /\ fetches' = [fetches EXCEPT ![i] = Table!Over]
      /\ UNCHANGED <<submissions, owed, stream, served>>
  BY DEF Table!Answer
<1>3. fetches[i] \in Fetch /\ fetches[i].number \in 1..served /\ fetches[i] # Table!Asked
  BY <1>1, <1>2, AskedAndOver DEF StandInv, AnswersTyped
<1>4. AnswersTyped([fetches EXCEPT ![i] = Table!Over], served)
  BY AskedAndOver, SlotChanges DEF StandInv
<1>5. AnswersTyped(fetches, served)'
  BY <1>2, <1>4
<1>6. /\ DOMAIN fetches' = DOMAIN fetches /\ fetches'[i] = Table!Over
      /\ \A j \in DOMAIN fetches : j # i => fetches'[j] = fetches[j]
  BY <1>1, <1>2
<1>7. fetches[i].number \in Int /\ shown.number \in Int
  BY <1>1, <1>3
<1>8. /\ shown' \in Fetch /\ shown'.table = fetches[i].table
      /\ shown'.number = (IF fetches[i].number < shown.number THEN shown.number ELSE fetches[i].number)
      /\ IF fetches[i].number < shown.number THEN shown'.why # {} ELSE shown'.why = fetches[i].why
  <2>1. shown' = [fetches[i] EXCEPT
          !.number = Table!Max({fetches[i].number, shown.number}),
          !.why = IF fetches[i].number < shown.number THEN @ \cup {"overtaken"} ELSE @]
    BY DEF Table!Answer
  <2>2. PICK m : m = Table!Max({fetches[i].number, shown.number})
    OBVIOUS
  <2>3. m = (IF fetches[i].number < shown.number THEN shown.number ELSE fetches[i].number) /\ m \in Int
    BY <1>7, <2>2, LargerOfTwo
  <2>4. shown' = [table |-> fetches[i].table, number |-> m,
                  why |-> IF fetches[i].number < shown.number THEN fetches[i].why \cup {"overtaken"}
                                                              ELSE fetches[i].why]
    BY <1>3, <2>1, <2>2 DEF Fetch
  <2>5. fetches[i].table \in Table!Standings /\ fetches[i].why \in SUBSET Table!Reasons /\ "overtaken" \in Table!Reasons
    BY <1>3 DEF Fetch, Table!Reasons
  <2> QED
    BY <2>3, <2>4, <2>5 DEF Fetch
<1>9. PageTyped'
  <2>1. shown'.number \in 0..served
    BY <1>1, <1>3, <1>8
  <2> QED
    BY <1>2, <1>8, <2>1 DEF StandInv, PageTyped
<1>10. \A x \in DOMAIN fetches : x # i /\ fetches[x] = Table!Asked => fetches'[x] = Table!Asked
  BY <1>6
<1>11. ASSUME NEW x \in Fetch, AnswerFresh(x, submissions, owed, fetches), x.number >= shown'.number
       PROVE  AnswerFresh(x, submissions', owed', fetches')
  <2>1. x.number \in Int /\ shown'.number \in Int /\ fetches[i].number <= shown'.number
    BY <1>1, <1>3, <1>8, <1>11 DEF Fetch
  <2>2. ASSUME NEW j \in DOMAIN fetches, fetches[j] = Table!Asked \/ fetches[j].number > x.number
        PROVE  j # i
    BY <1>3, <1>11, <2>1, <2>2
  <2> QED
    BY <1>2, <1>6, <1>11, <2>2 DEF AnswerFresh
<1>12. AnswerFresh(shown', submissions', owed', fetches')
  <2>1. CASE fetches[i].number < shown.number
    BY <1>8, <2>1 DEF AnswerFresh
  <2>2. CASE ~(fetches[i].number < shown.number)
    <3>1. AnswerFresh(fetches[i], submissions, owed, fetches)
      BY <1>2, <2>2 DEF StandInv, PageFresh
    <3>2. fetches[i].number = shown'.number /\ shown'.table = fetches[i].table /\ shown'.why = fetches[i].why
      BY <1>8, <2>2
    <3>3. AnswerFresh(fetches[i], submissions', owed', fetches')
      BY <1>3, <1>7, <1>11, <3>1, <3>2
    <3> QED
      BY <3>2, <3>3 DEF AnswerFresh
  <2> QED
    BY <2>1, <2>2
<1>13. ASSUME NEW j \in DOMAIN fetches', fetches'[j].number > 0
       PROVE  AnswerFresh(fetches'[j], submissions', owed', fetches') \/ fetches'[j].number < shown'.number
  <2>1. j # i /\ fetches'[j] = fetches[j] /\ fetches[j] \in Fetch /\ j \in DOMAIN fetches
    BY <1>1, <1>6, <1>13, AskedAndOver
  <2>2. fetches[j].number \in Int /\ shown'.number \in Int /\ shown.number <= shown'.number
    BY <1>1, <1>3, <1>8, <2>1 DEF Fetch
  <2>3. AnswerFresh(fetches[j], submissions, owed, fetches) \/ fetches[j].number < shown.number
    BY <1>13, <2>1 DEF StandInv, PageFresh
  <2> QED
    BY <1>7, <1>11, <2>1, <2>2, <2>3
<1> QED
  BY <1>5, <1>9, <1>12, <1>13 DEF PageFresh

\* A request fails.
LEMMA FailureKeeps ==
  ASSUME StandInv, NEW i \in DOMAIN fetches, Table!FetchFails(i)
  PROVE  AnswersTyped(fetches, served)' /\ PageTyped' /\ PageFresh'
<1>1. /\ served \in Nat /\ fetches \in Seq(Fetch) /\ DOMAIN fetches = 1..Len(fetches)
      /\ shown \in Fetch /\ shown.number \in 0..served /\ AnswersTyped(fetches, served)
  BY DEF StandInv, AnswersTyped, PageTyped
<1>2. /\ shown' = [shown EXCEPT !.why = @ \cup {"missed"}] /\ UNCHANGED <<stream, served>>
      /\ fetches' = [j \in DOMAIN fetches |->
           CASE j = i -> Table!Over
             [] j # i /\ fetches[j].number > 0 -> [fetches[j] EXCEPT !.why = @ \cup {"missed"}]
             [] OTHER -> fetches[j]]
  BY DEF Table!FetchFails
<1>3. shown' \in Fetch /\ shown'.number = shown.number /\ shown'.why # {}
  BY <1>1, <1>2 DEF Fetch, Table!Reasons
<1>4. PICK gs : gs = [fetches EXCEPT ![i] = Table!Over]
  OBVIOUS
<1>5. AnswersTyped(gs, served)
  <2>1. AnswersTyped([fetches EXCEPT ![i] = Table!Over], served)
    BY <1>1, AskedAndOver, SlotChanges
  <2> QED
    BY <1>4, <2>1
<1>6. DOMAIN gs = DOMAIN fetches /\ DOMAIN fetches' = DOMAIN fetches /\ gs \in Seq(Fetch) /\ Len(gs) = Len(fetches)
  BY <1>1, <1>2, <1>4, AskedAndOver
<1>7. ASSUME NEW j \in DOMAIN fetches
      PROVE  /\ fetches'[j] \in Fetch /\ fetches'[j].number = gs[j].number
             /\ fetches'[j].number > 0 => fetches'[j].why # {}
             /\ fetches'[j] = Table!Asked <=> gs[j] = Table!Asked
             /\ gs[j] = Table!Over => fetches'[j] = Table!Over
  <2>1. fetches[j] \in Fetch
    BY <1>1
  <2>2. CASE j = i
    <3>1. fetches'[j] = Table!Over /\ gs[j] = Table!Over
      BY <1>1, <1>2, <1>4, <2>2
    <3> QED
      BY <3>1, AskedAndOver
  <2>3. CASE j # i /\ fetches[j].number > 0
    <3>1. fetches'[j] = [fetches[j] EXCEPT !.why = @ \cup {"missed"}] /\ gs[j] = fetches[j]
      BY <1>1, <1>2, <1>4, <2>3
    <3>2. fetches'[j] \in Fetch /\ fetches'[j].number = fetches[j].number /\ fetches'[j].why # {}
      BY <2>1, <3>1 DEF Fetch, Table!Reasons
    <3>3. gs[j] # Table!Asked /\ fetches'[j] # Table!Asked /\ gs[j] # Table!Over
      <4>1. ~(Table!Asked.number > 0) /\ ~(Table!Over.number > 0)
        BY AskedAndOver
      <4>2. fetches[j].number > 0 /\ fetches'[j].number > 0
        BY <2>3, <3>2
      <4> QED
        BY <3>1, <4>1, <4>2, Zenon
    <3> QED
      BY <3>1, <3>2, <3>3
  <2>4. CASE j # i /\ ~(fetches[j].number > 0)
    <3>1. fetches'[j] = fetches[j] /\ gs[j] = fetches[j]
      BY <1>1, <1>2, <1>4, <2>4
    <3> QED
      BY <2>1, <2>4, <3>1
  <2> QED
    BY <2>2, <2>3, <2>4
<1>8. fetches' \in Seq(Fetch) /\ Len(fetches') = Len(fetches)
  <2>1. fetches' = [j \in 1..Len(fetches) |-> fetches'[j]]
    BY <1>1, <1>2
  <2>2. \A j \in 1..Len(fetches) : fetches'[j] \in Fetch
    BY <1>1, <1>7
  <2>3. Len(fetches) \in Nat
    BY <1>1
  <2> QED
    BY <2>1, <2>2, <2>3
<1>9. {j \in DOMAIN fetches' : fetches'[j] # Table!Asked} = {j \in DOMAIN gs : gs[j] # Table!Asked}
  BY <1>6, <1>7
<1>10. AnswersTyped(fetches, served)'
  BY <1>2, <1>5, <1>6, <1>7, <1>8, <1>9 DEF AnswersTyped
<1>11. PageTyped'
  BY <1>1, <1>2, <1>3 DEF StandInv, PageTyped
<1>12. PageFresh'
  BY <1>3, <1>6, <1>7 DEF PageFresh, AnswerFresh
<1> QED
  BY <1>10, <1>11, <1>12

\* Submitting, committing and judging.
LEMMA RowStepsGrow ==
  ASSUME submissions \in Seq(Table!Row), Len(submissions) <= MaxRows
  PROVE  /\ \A u \in Entrants, p \in Tasks, c \in BOOLEAN :
              LET row == [user |-> u, problem |-> p, contest |-> c, visible |-> FALSE, verdict |-> "PENDING"]
              IN  /\ RowsGrow(submissions, Append(submissions, row))
                  /\ Len(submissions) < MaxRows => Len(Append(submissions, row)) <= MaxRows
         /\ \A i \in DOMAIN submissions :
              /\ RowsGrow(submissions, [submissions EXCEPT ![i].visible = TRUE])
              /\ Len([submissions EXCEPT ![i].visible = TRUE]) <= MaxRows
              /\ \A v \in Table!Verdicts : /\ RowsGrow(submissions, [submissions EXCEPT ![i].verdict = v])
                                           /\ Len([submissions EXCEPT ![i].verdict = v]) <= MaxRows
<1>1. ASSUME NEW u \in Entrants, NEW p \in Tasks, NEW c \in BOOLEAN, NEW row,
             row = [user |-> u, problem |-> p, contest |-> c, visible |-> FALSE, verdict |-> "PENDING"]
      PROVE  /\ RowsGrow(submissions, Append(submissions, row))
             /\ Len(submissions) < MaxRows => Len(Append(submissions, row)) <= MaxRows
  <2>1. row \in Table!Row /\ ~row.visible
    <3>1. "PENDING" \in Table!Verdicts
      BY DEF Table!Verdicts
    <3> QED
      BY <1>1, <3>1 DEF Table!Row
  <2>2. PICK qs : qs = Append(submissions, row)
    OBVIOUS
  <2>3. /\ qs \in Seq(Table!Row) /\ Len(qs) = Len(submissions) + 1 /\ qs[Len(submissions) + 1] = row
        /\ Len(submissions) \in Nat /\ DOMAIN qs = 1..(Len(submissions) + 1)
        /\ DOMAIN submissions = 1..Len(submissions)
        /\ \A i \in DOMAIN submissions : qs[i] = submissions[i]
    BY <2>1, <2>2
  <2>4. RowsGrow(submissions, qs)
    <3>1. DOMAIN qs \ DOMAIN submissions = {Len(submissions) + 1}
      BY <2>3
    <3>2. DOMAIN submissions \subseteq DOMAIN qs
      BY <2>3
    <3> QED
      BY <2>1, <2>3, <3>1, <3>2 DEF RowsGrow
  <2>5. Len(submissions) < MaxRows => Len(qs) <= MaxRows
    BY <2>3, StandingsAssumption
  <2> QED
    BY <2>2, <2>4, <2>5
<1>2. ASSUME NEW i \in DOMAIN submissions, NEW qs,
             qs = [submissions EXCEPT ![i].visible = TRUE]
      PROVE  RowsGrow(submissions, qs) /\ Len(qs) <= MaxRows
  <2>1. submissions[i] \in Table!Row
    OBVIOUS
  <2>2. PICK r : r = [submissions[i] EXCEPT !.visible = TRUE]
    OBVIOUS
  <2>3. /\ r \in Table!Row /\ r.user = submissions[i].user /\ r.problem = submissions[i].problem
        /\ r.contest = submissions[i].contest /\ r.visible
    BY <2>1, <2>2 DEF Table!Row
  <2>4. qs = [submissions EXCEPT ![i] = r]
    BY <1>2, <2>2
  <2>5. /\ qs \in Seq(Table!Row) /\ Len(qs) = Len(submissions) /\ DOMAIN qs = DOMAIN submissions
        /\ qs[i] = r /\ \A j \in DOMAIN submissions : j # i => qs[j] = submissions[j]
    BY <2>3, <2>4
  <2> QED
    BY <2>3, <2>5 DEF RowsGrow
<1>3. ASSUME NEW i \in DOMAIN submissions, NEW v \in Table!Verdicts, NEW qs,
             qs = [submissions EXCEPT ![i].verdict = v]
      PROVE  RowsGrow(submissions, qs) /\ Len(qs) <= MaxRows
  <2>1. submissions[i] \in Table!Row
    OBVIOUS
  <2>2. PICK r : r = [submissions[i] EXCEPT !.verdict = v]
    OBVIOUS
  <2>3. /\ r \in Table!Row /\ r.user = submissions[i].user /\ r.problem = submissions[i].problem
        /\ r.contest = submissions[i].contest /\ r.visible = submissions[i].visible
    BY <2>1, <2>2 DEF Table!Row
  <2>4. qs = [submissions EXCEPT ![i] = r]
    BY <1>3, <2>2
  <2>5. /\ qs \in Seq(Table!Row) /\ Len(qs) = Len(submissions) /\ DOMAIN qs = DOMAIN submissions
        /\ qs[i] = r /\ \A j \in DOMAIN submissions : j # i => qs[j] = submissions[j]
    BY <2>3, <2>4
  <2> QED
    BY <2>3, <2>5 DEF RowsGrow
<1> QED
  BY <1>1, <1>2, <1>3

\* The queries of a profile.
LEMMA ProfileSteps ==
  ASSUME StandInv, NEW u \in Entrants, Table!GetSolvedCounts(u) \/ Table!GetSubmissionStats
  PROVE  ProfileRight'
<1>1. submissions \in Seq(Table!Row) /\ Len(submissions) <= MaxRows /\ Len(submissions) \in Nat
  BY DEF StandInv, RowsTyped
<1>2. Cardinality(Tasks) \in Nat
  BY StandingsAssumption, FS_CardinalityType
<1>3. CASE Table!GetSolvedCounts(u)
  <2>1. /\ Table!Total(submissions, u) = Cardinality(Table!Solved(submissions, u))
        /\ Cardinality(Table!Solved(submissions, u)) <= Cardinality(Table!Accepted(submissions, u))
    BY <1>1, AcceptedRows, CountsAddUp
  <2>2. Cardinality(Table!Solved(submissions, u)) \in 0..Cardinality(Tasks)
    <3>1. Table!Solved(submissions, u) \in SUBSET Tasks /\ IsFiniteSet(Table!Solved(submissions, u))
      BY <1>1, AcceptedRows
    <3> QED
      BY <1>2, <3>1, StandingsAssumption, FS_Subset, FS_CardinalityType
  <2>3. /\ profile' = [at |-> "solved", user |-> u, solved |-> Table!Total(submissions, u),
                       accepted |-> 0, lowered |-> FALSE]
        /\ submissions' = submissions
    BY <1>3 DEF Table!GetSolvedCounts
  <2>4. 0 \in 0..MaxRows
    BY StandingsAssumption
  <2>5. profile' \in Profiles
    BY <2>1, <2>2, <2>3, <2>4 DEF Profiles
  <2> QED
    BY <2>1, <2>3, <2>5 DEF ProfileRight
<1>4. CASE Table!GetSubmissionStats
  <2>1. /\ profile.at = "solved" /\ submissions' = submissions
        /\ profile' = [profile EXCEPT !.at = "done",
                         !.accepted = Cardinality(Table!Accepted(submissions, profile.user))]
    BY <1>4, TableCardinality DEF Table!GetSubmissionStats
  <2>2. profile \in Profiles
    BY <2>1 DEF StandInv, ProfileRight, Table!NoProfile
  <2>3. Cardinality(Table!Accepted(submissions, profile.user)) \in 0..MaxRows
    BY <1>1, AcceptedRows, StandingsAssumption
  <2>4. profile' \in Profiles /\ profile'.solved = profile.solved /\ profile'.lowered = profile.lowered
        /\ profile'.at = "done" /\ profile'.accepted = Cardinality(Table!Accepted(submissions, profile.user))
    BY <2>1, <2>2, <2>3 DEF Profiles
  <2>5. ~profile.lowered => profile.solved <= Cardinality(Table!Accepted(submissions, profile.user))
    BY <2>1 DEF StandInv, ProfileRight, Table!NoProfile
  <2> QED
    BY <2>4, <2>5 DEF ProfileRight
<1> QED
  BY <1>3, <1>4

\* Every step of the standings.
LEMMA StandNext ==
  ASSUME StandInv, [Table!Next]_standingsVars
  PROVE  StandInv' /\ RowsGrow(submissions, submissions')
<1>1. submissions \in Seq(Table!Row) /\ Len(submissions) <= MaxRows
  BY DEF StandInv, RowsTyped
<1>2. owed \in Nat /\ (owed > 0 => owed - 1 \in Nat /\ owed - 1 <= owed)
  BY DEF StandInv, RowsTyped
<1>3. hitches \in 0..MaxFaults /\ (hitches < MaxFaults => hitches + 1 \in 0..MaxFaults)
  BY ContestsAssumption DEF StandInv
<1>4. UNCHANGED <<submissions, profile>> => ProfileRight'
  BY DEF StandInv, ProfileRight
<1>5. UNCHANGED <<fetches, shown, served>> /\ stream' \in BOOLEAN =>
        AnswersTyped(fetches, served)' /\ PageTyped'
  BY DEF StandInv, AnswersTyped, PageTyped
<1>6. UNCHANGED <<fetches, shown, submissions, owed>> => PageFresh'
  BY DEF StandInv, PageFresh, AnswerFresh
<1>7. ASSUME NEW u \in Entrants, NEW p \in Tasks, NEW c \in BOOLEAN, Table!Submit(u, p, c)
      PROVE  StandInv' /\ RowsGrow(submissions, submissions')
  <2>1. {} \in SUBSET (Entrants \X Tasks)
    OBVIOUS
  <2> QED
    BY <1>1, <1>7, <2>1, RowStepsGrow, RowsChange DEF Table!Submit
<1>8. ASSUME NEW i \in DOMAIN submissions, Table!Commit(i)
      PROVE  StandInv' /\ RowsGrow(submissions, submissions')
  <2>1. {} \in SUBSET (Entrants \X Tasks)
    OBVIOUS
  <2> QED
    BY <1>1, <1>8, <2>1, RowStepsGrow, RowsChange DEF Table!Commit
<1>9. ASSUME NEW i \in DOMAIN submissions, NEW v \in Table!Verdicts, Table!Judge(i, v)
      PROVE  StandInv' /\ RowsGrow(submissions, submissions')
  <2>1. PICK pairs : pairs = IF v = "AC" /\ submissions[i].contest
                             THEN {<<submissions[i].user, submissions[i].problem>>} ELSE {}
    OBVIOUS
  <2>2. submissions[i] \in Table!Row
    BY <1>1
  <2>3. pairs \in SUBSET (Entrants \X Tasks)
    BY <2>1, <2>2 DEF Table!Row
  <2>4. Table!RowsBecome([submissions EXCEPT ![i].verdict = v], pairs)
    BY <1>9, <2>1 DEF Table!Judge
  <2> QED
    BY <1>1, <2>3, <2>4, RowStepsGrow, RowsChange
<1>10. CASE Table!Publish
  <2>1. /\ owed > 0 /\ owed' = owed - 1
        /\ UNCHANGED <<submissions, credited, stream, served, profile, hitches>>
    BY <1>10 DEF Table!Publish
  <2>2. (AnswersTyped(fetches, served) /\ PageTyped /\ PageFresh)'
    <3>1. CASE stream
      <4>1. Len(fetches) < MaxFetches /\ Table!Ask /\ UNCHANGED shown
        BY <1>10, <3>1 DEF Table!Publish
      <4> QED
        BY <2>1, <4>1, AskKeeps
    <3>2. CASE ~stream
      <4>1. Table!Mark("missed")
        BY <1>10, <3>2 DEF Table!Publish
      <4> QED
        BY <2>1, <4>1, Marked DEF StandInv, Table!Reasons
    <3> QED
      BY <3>1, <3>2
  <2>3. RowsTyped' /\ RowsGrow(submissions, submissions')
    BY <1>2, <2>1, SameRows
  <2> QED
    BY <1>3, <1>4, <2>1, <2>2, <2>3 DEF StandInv
<1>11. CASE Table!LoseUpdate
  <2>1. /\ owed > 0 /\ owed' = owed - 1 /\ hitches < MaxFaults /\ hitches' = hitches + 1
        /\ Table!Mark("missed") /\ UNCHANGED <<submissions, credited, stream, served, profile>>
    BY <1>11 DEF Table!LoseUpdate
  <2>2. (AnswersTyped(fetches, served) /\ PageTyped /\ PageFresh)'
    BY <2>1, Marked DEF StandInv, Table!Reasons
  <2>3. RowsTyped' /\ RowsGrow(submissions, submissions')
    BY <1>2, <2>1, SameRows
  <2> QED
    BY <1>3, <1>4, <2>1, <2>2, <2>3 DEF StandInv
<1>12. CASE Table!Connect \/ Table!Disconnect
  <2>1. /\ UNCHANGED <<submissions, credited, owed, fetches, shown, served, profile>>
        /\ stream' = TRUE \/ stream' = FALSE
        /\ hitches' \in 0..MaxFaults
    BY <1>3, <1>12 DEF Table!Connect, Table!Disconnect
  <2>2. stream' \in BOOLEAN
    BY <2>1, Zenon
  <2>3. owed' \in Nat /\ owed' <= owed
    BY <1>2, <2>1
  <2>4. RowsTyped' /\ RowsGrow(submissions, submissions')
    BY <2>1, <2>3, SameRows
  <2> QED
    BY <1>4, <1>5, <1>6, <2>1, <2>2, <2>4 DEF StandInv
<1>13. ASSUME NEW i \in DOMAIN fetches, Table!Serve(i) \/ Table!Answer(i) \/ Table!FetchFails(i)
       PROVE  StandInv' /\ RowsGrow(submissions, submissions')
  <2>1. (AnswersTyped(fetches, served) /\ PageTyped /\ PageFresh)'
    BY <1>13, ServeKeeps, AnswerKeeps, FailureKeeps
  <2>2. UNCHANGED <<submissions, credited, owed, profile>> /\ hitches' \in 0..MaxFaults
    BY <1>3, <1>13 DEF Table!Serve, Table!Answer, Table!FetchFails
  <2>3. owed' \in Nat /\ owed' <= owed
    BY <1>2, <2>2
  <2>4. RowsTyped' /\ RowsGrow(submissions, submissions')
    BY <2>2, <2>3, SameRows
  <2> QED
    BY <1>4, <2>1, <2>2, <2>4 DEF StandInv
<1>14. ASSUME NEW u \in Entrants, Table!GetSolvedCounts(u) \/ Table!GetSubmissionStats
       PROVE  StandInv' /\ RowsGrow(submissions, submissions')
  <2>1. UNCHANGED <<submissions, credited, owed, stream, fetches, shown, served, hitches>>
    BY <1>14 DEF Table!GetSolvedCounts, Table!GetSubmissionStats, Table!page
  <2>2. ProfileRight'
    BY <1>14, ProfileSteps
  <2>3. stream' \in BOOLEAN /\ owed' \in Nat /\ owed' <= owed /\ hitches' \in 0..MaxFaults
    BY <1>2, <1>3, <2>1 DEF StandInv, PageTyped
  <2>4. RowsTyped' /\ RowsGrow(submissions, submissions')
    BY <2>1, <2>3, SameRows
  <2> QED
    BY <1>5, <1>6, <2>1, <2>2, <2>3, <2>4 DEF StandInv
<1>15. CASE UNCHANGED standingsVars
  <2>1. UNCHANGED <<submissions, credited, owed, stream, fetches, shown, served, profile, hitches>>
    BY <1>15 DEF standingsVars
  <2>2. stream' \in BOOLEAN /\ owed' \in Nat /\ owed' <= owed /\ hitches' \in 0..MaxFaults
    BY <1>2, <1>3, <2>1 DEF StandInv, PageTyped
  <2>3. RowsTyped' /\ RowsGrow(submissions, submissions')
    BY <2>1, <2>2, SameRows
  <2> QED
    BY <1>4, <1>5, <1>6, <2>1, <2>2, <2>3 DEF StandInv
<1>16. CASE Table!GetSubmissionStats
  <2>1. profile \in Profiles
    BY <1>16 DEF StandInv, ProfileRight, Table!NoProfile, Table!GetSubmissionStats
  <2>2. profile.user \in Entrants
    BY <2>1 DEF Profiles
  <2> QED
    BY <1>14, <1>16, <2>2
<1> QED
  BY <1>7, <1>8, <1>9, <1>10, <1>11, <1>12, <1>13, <1>14, <1>15, <1>16 DEF Table!Next

\* What the invariant says of the page and of the views.
LEMMA StandHolds ==
  ASSUME StandInv PROVE Table!TypeOK /\ Table!PageCatchesUp /\ Table!ViewsAgree
<1>1. /\ submissions \in Seq(Table!Row) /\ Len(submissions) <= MaxRows
      /\ fetches \in Seq(Fetch) /\ Len(fetches) <= MaxFetches /\ Len(fetches) \in Nat
      /\ DOMAIN fetches = 1..Len(fetches) /\ served \in Nat
  BY DEF StandInv, RowsTyped, AnswersTyped
<1>2. served <= MaxFetches
  <2> DEFINE A == {i \in DOMAIN fetches : fetches[i] # Table!Asked}
  <2>1. A \in SUBSET (1..Len(fetches)) /\ served <= Cardinality(A)
    BY <1>1 DEF StandInv, AnswersTyped
  <2>2. IsFiniteSet(1..Len(fetches)) /\ Cardinality(1..Len(fetches)) = Len(fetches)
    <3>1. \A n \in Nat : IsFiniteSet(1..n) /\ Cardinality(1..n) = n
      BY FS_Interval
    <3> QED
      BY <1>1, <3>1
  <2> HIDE DEF A
  <2>3. Cardinality(A) <= Len(fetches) /\ Cardinality(A) \in Nat
    BY <2>1, <2>2, FS_Subset, FS_CardinalityType
  <2> QED
    BY <1>1, <2>1, <2>3, StandingsAssumption
<1>3. Table!TypeOK
  <2>1. ASSUME NEW f \in {shown} \cup {fetches[i] : i \in DOMAIN fetches}
        PROVE  f.table \in Table!Standings /\ f.number \in -2..served /\ f.why \subseteq Table!Reasons
    <3>1. f \in Fetch
      BY <1>1 DEF StandInv, PageTyped
    <3>2. f.number \in -2..served
      <4>1. CASE f = shown
        BY <1>1, <4>1 DEF StandInv, PageTyped
      <4>2. CASE f # shown
        <5>1. PICK i \in DOMAIN fetches : f = fetches[i]
          BY <4>2
        <5> QED
          BY <1>1, <5>1, AskedAndOver DEF StandInv, AnswersTyped
      <4> QED
        BY <4>1, <4>2
    <3> QED
      BY <3>1, <3>2 DEF Fetch
  <2>2. /\ credited \subseteq Entrants \X Tasks /\ owed \in 0..Cardinality(credited) /\ stream \in BOOLEAN
        /\ hitches \in 0..MaxFaults
    <3>1. IsFiniteSet(Entrants \X Tasks) /\ credited \in SUBSET (Entrants \X Tasks)
      BY StandingsAssumption, FS_Product DEF StandInv, RowsTyped
    <3>2. Cardinality(credited) \in Nat
      BY <3>1, FS_Subset, FS_CardinalityType
    <3> QED
      BY <3>1, <3>2 DEF StandInv, RowsTyped, PageTyped
  <2>3. served \in 0..MaxFetches
    BY <1>1, <1>2, StandingsAssumption
  <2>4. profile = Table!NoProfile \/
        profile \in [at : {"solved", "done"}, user : Entrants, solved : 0..Cardinality(Tasks),
                     accepted : 0..MaxRows, lowered : BOOLEAN]
    BY DEF StandInv, ProfileRight, Profiles
  <2> QED
    BY <1>1, <2>1, <2>2, <2>3, <2>4, TableCardinality DEF Table!TypeOK
<1>4. Table!PageCatchesUp
  <2> SUFFICES ASSUME owed = 0, \A i \in DOMAIN fetches : fetches[i] = Table!Over
               PROVE  shown.table = Table!Table(submissions) \/ shown.why # {}
    BY DEF Table!PageCatchesUp, Table!Quiet
  <2>1. AnswerFresh(shown, submissions, owed, fetches)
    BY DEF StandInv, PageFresh
  <2>2. shown.number >= 0
    BY <1>1 DEF StandInv, PageTyped
  <2>3. \A i \in DOMAIN fetches : fetches[i] # Table!Asked /\ ~(fetches[i].number > shown.number)
    BY <1>1, <2>2, AskedAndOver DEF StandInv, PageTyped
  <2> QED
    BY <2>1, <2>3 DEF AnswerFresh
<1>5. Table!ViewsAgree
  <2>1. profile.at = "done" => profile.solved <= profile.accepted \/ profile.lowered
    BY DEF StandInv, ProfileRight, Table!NoProfile
  <2> QED
    BY <1>1, <2>1, SameSolved DEF Table!ViewsAgree, IsListed
<1> QED
  BY <1>3, <1>4, <1>5

\* A standing never gets worse, unless an accepted verdict is overwritten or an
\* older row becomes visible late (updateSubmission, getContestLeaderboard).
THEOREM StandingsImprove == MCSpec => StandingsOnlyImprove
<1>1. StandInv /\ [Table!Next]_standingsVars => [In({"page", "table"}, Table!Improves)]_standingsVars
  <2>1. StandInv /\ Table!Next => Table!Improves
    BY StandNext, GrownRowsImprove DEF StandInv, RowsTyped
  <2> QED
    BY <2>1 DEF In
<1>2. StandInv /\ [Table!Next]_standingsVars => StandInv'
  BY StandNext
<1>3. MCInit => StandInv
  BY PartsStart, StandInit
<1> QED
  BY <1>1, <1>2, <1>3, StandingSteps, PTL DEF MCSpec, StandingsOnlyImprove

-----------------------------------------------------------------------------
(* Archive.                                                                 *)

\* A finite set can be listed along a strict total order: every element at the
\* place that the number of those before it gives.
LEMMA ListInOrder ==
  ASSUME NEW S, IsFiniteSet(S), NEW R,
         \A x \in S : <<x, x>> \notin R,
         \A x, y, z \in S : <<x, y>> \in R /\ <<y, z>> \in R => <<x, z>> \in R,
         \A x, y \in S : x # y => <<x, y>> \in R \/ <<y, x>> \in R
  PROVE  \E f \in [1..Cardinality(S) -> S] : \A i, j \in 1..Cardinality(S) : i < j => <<f[i], f[j]>> \in R
<1> DEFINE n == Cardinality(S)
           Before(x) == {y \in S : <<y, x>> \in R}
           rank == [x \in S |-> Cardinality(Before(x)) + 1]
<1>1. n \in Nat /\ IsFiniteSet(1..n) /\ Cardinality(1..n) = n
  <2>1. \A m \in Nat : IsFiniteSet(1..m) /\ Cardinality(1..m) = m
    BY FS_Interval
  <2> QED
    BY <2>1, FS_CardinalityType
<1>2. ASSUME NEW x \in S
      PROVE  /\ Before(x) \in SUBSET (S \ {x}) /\ IsFiniteSet(Before(x)) /\ Cardinality(Before(x)) \in Nat
             /\ Cardinality(Before(x)) + 1 \in 1..n
  <2>1. Before(x) \in SUBSET (S \ {x})
    OBVIOUS
  <2>2. IsFiniteSet(S \ {x}) /\ Cardinality(S \ {x}) = n - 1
    BY FS_RemoveElement
  <2> HIDE DEF Before
  <2>3. IsFiniteSet(Before(x)) /\ Cardinality(Before(x)) <= n - 1
    BY <2>1, <2>2, FS_Subset
  <2>4. Cardinality(Before(x)) \in Nat
    BY <2>3, FS_CardinalityType
  <2> HIDE DEF n
  <2> QED
    BY <1>1, <2>1, <2>3, <2>4
<1>3. ASSUME NEW x \in S, NEW y \in S, <<x, y>> \in R PROVE rank[x] < rank[y]
  <2>1. Before(x) \cup {x} \in SUBSET Before(y) /\ x \notin Before(x)
    BY <1>3
  <2> HIDE DEF Before
  <2>2. Cardinality(Before(x) \cup {x}) = Cardinality(Before(x)) + 1
    BY <1>2, <2>1, FS_AddElement
  <2>3. Cardinality(Before(x) \cup {x}) <= Cardinality(Before(y))
    BY <1>2, <2>1, FS_Subset
  <2> QED
    BY <1>2, <2>2, <2>3
<1>4. rank \in [S -> 1..n]
  <2> HIDE DEF Before, n
  <2> QED BY <1>2
<1> HIDE DEF rank, Before
<1>5. rank \in Injection(S, 1..n)
  <2>1. \A x \in S : rank[x] \in Int
    BY <1>1, <1>4
  <2>2. ASSUME NEW x \in S, NEW y \in S, rank[x] = rank[y], x # y PROVE FALSE
    <3>1. <<x, y>> \in R \/ <<y, x>> \in R
      BY <2>2
    <3>2. rank[x] < rank[y] \/ rank[y] < rank[x]
      BY <1>3, <3>1
    <3> QED
      BY <2>1, <2>2, <3>2
  <2> QED
    BY <1>4, <2>2 DEF Injection, IsInjective
<1>6. rank \in Surjection(S, 1..n)
  BY <1>1, <1>5, FS_Injection
<1>7. \A i \in 1..n : \E x \in S : rank[x] = i
  BY <1>6 DEF Surjection
<1> DEFINE f == [i \in 1..n |-> CHOOSE x \in S : rank[x] = i]
<1>8. f \in [1..n -> S] /\ \A i \in 1..n : rank[f[i]] = i
  BY <1>7
<1> HIDE DEF f, n
<1>9. ASSUME NEW i \in 1..n, NEW j \in 1..n, i < j PROVE <<f[i], f[j]>> \in R
  <2>1. f[i] \in S /\ f[j] \in S /\ rank[f[i]] = i /\ rank[f[j]] = j
    BY <1>8
  <2>2. f[i] # f[j]
    BY <1>9, <2>1
  <2>3. ~(<<f[j], f[i]>> \in R)
    BY <1>1, <1>3, <1>9, <2>1
  <2> QED
    BY <2>1, <2>2, <2>3
<1>10. \E g \in [1..n -> S] : \A i, j \in 1..n : i < j => <<g[i], g[j]>> \in R
  BY <1>8, <1>9
<1> QED
  BY <1>10 DEF n

\* A step of the parts is one of the board or leaves it as it is.
LEMMA BoardSteps == [MCNext]_allVars => [Board!Next]_boardVars
BY DEF allVars, MCNext, Rest, Still, boardVars

MP == MAX_PENALTY_MINS
Places == [score : {0} \cup Points, at : 0..EndTime, raw : Nat,
           by : {"none", "go", "ts", "blind"}, since : 0..BoardTime]
SnapshotRow == [user : Rankers, score : Int, penalty : Int]
Ranked == Seq(SnapshotRow)

\* A place's raw score is the points and what the penalty leaves of their fraction.
Placed(b) ==
  /\ b.by # "none"
  /\ \E x \in 0..(MP - 1) : b.raw = b.score * MP + 2 * MP - x /\ (b.by = "ts" => x = 2 * b.at)
\* Rows that were the whole board, but for who has solved something since time t.
WholeBoard(rs, t) ==
  /\ rs \in Ranked /\ Len(rs) \in 1..Cardinality(Rankers)
  /\ \A i, j \in DOMAIN rs : rs[i].user = rs[j].user => i = j
  /\ \A u \in Board!OnBoard : board[u].since < t => \E i \in DOMAIN rs : rs[i] = Board!Row(u)
  /\ \A i, j \in DOMAIN rs : i < j =>
       (board[rs[i].user].since < t /\ board[rs[j].user].since < t =>
          Board!Above(rs[i].user, rs[j].user))

\* Types, and nobody submits in the future.
BoardTyped ==
  /\ minute \in 0..BoardTime /\ solves \in 0..MaxSolves
  /\ tried \in [Rankers -> [score : {0} \cup Points, at : 0..EndTime]]
  /\ \A u \in Rankers : tried[u].at <= minute
\* Whoever is on the board has a score that was encoded.
BoardPlaced ==
  /\ board \in [Rankers -> Places]
  /\ \A u \in Rankers : board[u] = Board!Nobody \/ Placed(board[u])
\* A snapshot under way,
CapturesRight ==
  /\ capture \in [Captures -> [st : {"none", "begun", "read"}, at : 0..EndTime, rows : Ranked]]
  /\ \A k \in Captures : capture[k].at <= minute
  /\ \A k \in Captures : capture[k].st = "read" => WholeBoard(capture[k].rows, capture[k].at)
\* and one that is saved, is a whole board of its time.
SavedRight ==
  \A s \in snapshots : s.at \in 0..EndTime /\ s.at <= minute /\ WholeBoard(s.rows, s.at)
\* All of it.
BoardInv == BoardTyped /\ BoardPlaced /\ CapturesRight /\ SavedRight

\* The board is empty at first.
LEMMA BoardInit == ASSUME Board!Init PROVE BoardInv
<1>1. Board!Init
  OBVIOUS
<1>2. <<>> \in Ranked
  BY DEF Ranked
<1>3. BoardTyped
  BY <1>1, ArchiveAssumption DEF BoardTyped, Board!Init, Board!NoTry
<1>4. BoardPlaced
  <2>1. Board!Nobody \in Places
    BY ArchiveAssumption DEF Board!Nobody, Places
  <2> QED
    BY <1>1, <2>1 DEF BoardPlaced, Board!Init
<1>5. CapturesRight /\ SavedRight
  BY <1>1, <1>2, ArchiveAssumption DEF CapturesRight, SavedRight, Board!Init, Board!NoCapture
<1> QED
  BY <1>3, <1>4, <1>5 DEF BoardInv

\* Points are natural numbers.
LEMMA PointsAreNumbers == \A x \in {0} \cup Points : x \in Nat
<1>1. Points \subseteq Nat
  BY ArchiveAssumption
<1> QED
  BY <1>1

\* A point more is worth more than any penalty.
LEMMA Products ==
  ASSUME NEW a \in Nat, NEW b \in Nat, NEW m \in Nat, a < b
  PROVE  a * m + m <= b * m /\ a * m \in Nat /\ b * m \in Nat
<1>1. PICK d \in Nat : b = a + 1 + d
  <2>1. b - a - 1 \in Nat /\ b = a + 1 + (b - a - 1)
    OBVIOUS
  <2> QED
    BY <2>1
<1>2. b * m = a * m + m + d * m
  BY <1>1
<1>3. d * m \in Nat /\ a * m \in Nat /\ b * m \in Nat
  OBVIOUS
<1> QED
  BY <1>2, <1>3

\* What each worker encodes.
LEMMA RawIsPlaced ==
  ASSUME NEW t \in [score : {0} \cup Points, at : 0..EndTime], t.at <= minute, minute \in 0..BoardTime,
         NEW by0 \in {"go", "ts", "blind"}
  PROVE  /\ Board!Raw(t, by0) \in Nat
         /\ \E x \in 0..(MP - 1) : /\ Board!Raw(t, by0) = t.score * MP + 2 * MP - x
                                   /\ by0 = "ts" => x = 2 * t.at
<1>1. /\ t.score \in Nat /\ t.at \in Nat /\ minute \in Nat /\ MP \in Nat /\ t.at <= EndTime /\ EndTime \in Nat
      /\ 2 * EndTime < MP /\ BoardTime < MP /\ minute <= BoardTime /\ BoardTime \in Nat
  <2>1. t.score \in {0} \cup Points /\ t.at \in 0..EndTime
    OBVIOUS
  <2>2. t.score \in Nat
    BY <2>1, PointsAreNumbers
  <2> QED
    BY <2>1, <2>2, ArchiveAssumption DEF MP
<1>2. PICK p : p = t.score * MP
  OBVIOUS
<1>3. p \in Nat
  <2>1. \A a, b \in Nat : a * b \in Nat
    OBVIOUS
  <2> QED
    BY <1>1, <1>2, <2>1
<1>4. PICK x : x = IF by0 = "go" THEN minute - t.at ELSE IF by0 = "ts" THEN 2 * t.at ELSE 0
  OBVIOUS
<1>5. x \in 0..(MP - 1) /\ (by0 = "ts" => x = 2 * t.at)
  BY <1>1, <1>4
<1>6. Board!Raw(t, by0) = p + 2 * MP - x
  <2>1. CASE by0 = "go"
    <3>1. Board!Raw(t, by0) = Board!Encoded(Board!Encoded(p, minute - t.at), 0)
      BY <1>2, <2>1 DEF Board!Raw, MP
    <3>2. Board!Clamped(0) = 0 /\ Board!Clamped(minute - t.at) = minute - t.at
      BY <1>1 DEF Board!Clamped, MP
    <3> QED
      BY <1>1, <1>3, <1>4, <2>1, <3>1, <3>2 DEF Board!Encoded, MP
  <2>2. CASE by0 = "ts"
    <3>1. Board!Raw(t, by0) = Board!Encoded(p + MP - t.at, t.at)
      BY <1>2, <2>2 DEF Board!Raw, MP
    <3>2. Board!Clamped(t.at) = t.at
      BY <1>1 DEF Board!Clamped, MP
    <3> QED
      BY <1>1, <1>3, <1>4, <2>2, <3>1, <3>2 DEF Board!Encoded, MP
  <2>3. CASE by0 = "blind"
    <3>1. Board!Raw(t, by0) = Board!Encoded(p + MP - 0, 0)
      BY <1>2, <2>3 DEF Board!Raw, MP
    <3>2. Board!Clamped(0) = 0
      BY <1>1 DEF Board!Clamped, MP
    <3> QED
      BY <1>1, <1>3, <1>4, <2>3, <3>1, <3>2 DEF Board!Encoded, MP
  <2> QED
    BY <2>1, <2>2, <2>3
<1>7. p + 2 * MP - x \in Nat
  BY <1>1, <1>3, <1>5
<1> QED
  BY <1>2, <1>5, <1>6, <1>7

\* A new place is not older than any copy.
LEMMA WholeStays ==
  ASSUME board \in [Rankers -> Places], NEW w \in Rankers, NEW b \in Places,
         board' = [board EXCEPT ![w] = b], b # Board!Nobody,
         NEW t \in Int, t <= b.since, NEW rs, WholeBoard(rs, t)
  PROVE  WholeBoard(rs, t)'
<1>1. \A u \in Rankers : u # w => board'[u] = board[u]
  OBVIOUS
<1>2. board'[w] = b /\ b.since \in Int /\ ~(board'[w].since < t)
  BY DEF Places
<1>3. rs \in Ranked /\ Len(rs) \in 1..Cardinality(Rankers)
      /\ \A i \in DOMAIN rs : rs[i].user \in Rankers
  <2>1. rs \in Ranked /\ Len(rs) \in 1..Cardinality(Rankers)
    BY DEF WholeBoard
  <2>2. \A i \in DOMAIN rs : rs[i] \in SnapshotRow
    BY <2>1 DEF Ranked
  <2> QED
    BY <2>1, <2>2 DEF SnapshotRow
<1>4. ASSUME NEW u \in Board!OnBoard', board'[u].since < t PROVE \E i \in DOMAIN rs : rs[i] = Board!Row(u)'
  <2>1. u \in Rankers /\ u # w
    BY <1>2, <1>4 DEF Board!OnBoard
  <2>2. u \in Board!OnBoard /\ board[u].since < t /\ Board!Row(u)' = Board!Row(u)
    BY <1>1, <1>4, <2>1 DEF Board!OnBoard, Board!Row
  <2> QED
    BY <2>2 DEF WholeBoard
<1>5. ASSUME NEW i \in DOMAIN rs, NEW j \in DOMAIN rs, i < j,
             board'[rs[i].user].since < t, board'[rs[j].user].since < t
      PROVE  Board!Above(rs[i].user, rs[j].user)'
  <2>1. rs[i].user # w /\ rs[j].user # w
    BY <1>2, <1>5
  <2>2. board'[rs[i].user] = board[rs[i].user] /\ board'[rs[j].user] = board[rs[j].user]
    BY <1>1, <1>3, <2>1
  <2>3. Board!Above(rs[i].user, rs[j].user)
    BY <1>5, <2>2 DEF WholeBoard
  <2> QED
    BY <2>2, <2>3 DEF Board!Above
<1> QED
  BY <1>3, <1>4, <1>5 DEF WholeBoard

\* The order of the board ranks everybody on it once.
LEMMA OrderRanks ==
  ASSUME board \in [Rankers -> Places], Board!OnBoard # {}
  PROVE  \E n \in 1..Cardinality(Rankers) :
           /\ Board!Order \in [1..n -> Board!OnBoard]
           /\ \A i, j \in 1..n : i < j => Board!Above(Board!Order[i], Board!Order[j])
           /\ \A i, j \in 1..n : Board!Order[i] = Board!Order[j] => i = j
           /\ \A u \in Board!OnBoard : \E i \in 1..n : Board!Order[i] = u
<1> DEFINE S == Board!OnBoard
           n == Cardinality(S)
           R == {p \in S \X S : Board!Above(p[1], p[2])}
<1>1. S \in SUBSET Rankers /\ S # {}
  BY DEF Board!OnBoard
<1>2. IsFiniteSet(S) /\ n \in 1..Cardinality(Rankers)
  <2> HIDE DEF S
  <2>1. IsFiniteSet(S) /\ n <= Cardinality(Rankers) /\ Cardinality(Rankers) \in Nat
    BY <1>1, ArchiveAssumption, FS_Subset, FS_CardinalityType
  <2>2. n \in Nat /\ n # 0
    BY <1>1, <2>1, FS_CardinalityType, FS_EmptySet
  <2> HIDE DEF n
  <2> QED
    BY <2>1, <2>2
<1>3. \A u \in S : board[u].raw \in Int /\ u \in Int
  BY <1>1, ArchiveAssumption DEF Places
<1>4. \A x, y \in S : <<x, y>> \in R <=> Board!Above(x, y)
  OBVIOUS
<1> HIDE DEF S, R
<1>5. \A x \in S : <<x, x>> \notin R
  BY <1>3, <1>4 DEF Board!Above
<1>6. \A x, y, z \in S : <<x, y>> \in R /\ <<y, z>> \in R => <<x, z>> \in R
  BY <1>3, <1>4 DEF Board!Above
<1>7. \A x, y \in S : x # y => <<x, y>> \in R \/ <<y, x>> \in R
  BY <1>3, <1>4 DEF Board!Above
<1>8. \E f \in [1..n -> S] : \A i, j \in 1..n : i < j => <<f[i], f[j]>> \in R
  BY <1>2, <1>5, <1>6, <1>7, ListInOrder
<1>9. \A S0 : Board!Cardinality(S0) = Cardinality(S0)
  BY DEF Board!Cardinality, Cardinality
<1> DEFINE P(f) == \A i, j \in DOMAIN f : i < j => Board!Above(f[i], f[j])
<1>10. Board!Order = CHOOSE f \in [1..n -> S] : P(f)
  BY <1>9 DEF Board!Order, S
<1> HIDE DEF n
<1>11. \E f \in [1..n -> S] : P(f)
  BY <1>4, <1>8
<1>12. Board!Order \in [1..n -> S] /\ P(Board!Order)
  <2> HIDE DEF P
  <2> QED BY <1>10, <1>11
<1>13. \A i, j \in 1..n : i < j => Board!Above(Board!Order[i], Board!Order[j])
  BY <1>12
<1>14. \A i, j \in 1..n : Board!Order[i] = Board!Order[j] => i = j
  <2>1. \A i, j \in 1..n : i < j => Board!Order[i] # Board!Order[j]
    BY <1>3, <1>12, <1>13 DEF Board!Above
  <2>2. \A i, j \in 1..n : i < j \/ j < i \/ i = j
    BY <1>2
  <2> QED
    BY <2>1, <2>2
<1>15. \A u \in S : \E i \in 1..n : Board!Order[i] = u
  <2>1. Board!Order \in Injection(1..n, S)
    BY <1>12, <1>14 DEF Injection, IsInjective
  <2>2. Cardinality(1..n) = Cardinality(S)
    <3>1. \A m \in Nat : Cardinality(1..m) = m
      BY FS_Interval
    <3>2. n \in Nat
      BY <1>2
    <3> QED
      BY <3>1, <3>2 DEF n
  <2>3. Board!Order \in Surjection(1..n, S)
    BY <1>2, <2>1, <2>2, FS_Injection
  <2> QED
    BY <2>3 DEF Surjection
<1> QED
  BY <1>2, <1>12, <1>13, <1>14, <1>15 DEF S

\* A copy of the board is whole.
LEMMA ReadIsWhole ==
  ASSUME BoardPlaced, Board!OnBoard # {}, NEW rs,
         rs = [i \in DOMAIN Board!Order |-> Board!Row(Board!Order[i])], NEW t
  PROVE  WholeBoard(rs, t)
<1>0. board \in [Rankers -> Places]
  BY DEF BoardPlaced
<1>1. PICK n \in 1..Cardinality(Rankers) :
           /\ Board!Order \in [1..n -> Board!OnBoard]
           /\ \A i, j \in 1..n : i < j => Board!Above(Board!Order[i], Board!Order[j])
           /\ \A i, j \in 1..n : Board!Order[i] = Board!Order[j] => i = j
           /\ \A u \in Board!OnBoard : \E i \in 1..n : Board!Order[i] = u
  BY <1>0, OrderRanks
<1>2. n \in Nat
  BY <1>1, ArchiveAssumption, FS_CardinalityType
<1>3. ASSUME NEW u \in Rankers
      PROVE  Board!Row(u) \in SnapshotRow /\ Board!Row(u).user = u
  <2>1. board[u].raw \in Nat /\ MAX_PENALTY_MINS \in Nat /\ MAX_PENALTY_MINS > 0
    BY <1>0, ArchiveAssumption DEF Places
  <2>2. board[u].raw \div MAX_PENALTY_MINS \in Int
        /\ MAX_PENALTY_MINS - (board[u].raw % MAX_PENALTY_MINS) \in Int
    BY <2>1
  <2> QED
    BY <2>2 DEF Board!Row, SnapshotRow
<1>4. DOMAIN Board!Order = 1..n /\ \A i \in 1..n : Board!Order[i] \in Board!OnBoard /\ Board!Order[i] \in Rankers
  BY <1>1 DEF Board!OnBoard
<1>5. rs = [i \in 1..n |-> Board!Row(Board!Order[i])]
  BY <1>4
<1>6. \A i \in 1..n : rs[i] = Board!Row(Board!Order[i]) /\ rs[i].user = Board!Order[i]
                      /\ rs[i] \in SnapshotRow
  BY <1>3, <1>4, <1>5
<1>7. rs \in Ranked /\ Len(rs) = n /\ DOMAIN rs = 1..n
  <2>1. rs = [i \in 1..n |-> rs[i]]
    BY <1>5
  <2> QED
    BY <1>2, <1>6, <2>1 DEF Ranked
<1>8. \A i, j \in 1..n : rs[i].user = rs[j].user => i = j
  BY <1>1, <1>6
<1>9. \A u \in Board!OnBoard : \E i \in 1..n : rs[i] = Board!Row(u)
  BY <1>1, <1>6
<1>10. \A i, j \in 1..n : i < j => Board!Above(rs[i].user, rs[j].user)
  BY <1>1, <1>6
<1>11. Len(rs) \in 1..Cardinality(Rankers)
  BY <1>1, <1>7
<1> HIDE DEF Ranked
<1> QED
  BY <1>7, <1>8, <1>9, <1>10, <1>11 DEF WholeBoard

\* Every step of the board.
LEMMA BoardNext ==
  ASSUME BoardInv, [Board!Next]_boardVars PROVE BoardInv'
<1> USE DEF BoardInv
<1>0. minute \in Nat /\ minute <= BoardTime /\ BoardTime \in Nat /\ EndTime \in Nat /\ MaxSolves \in Nat
  BY ArchiveAssumption DEF BoardTyped
<1>1. ASSUME UNCHANGED board, NEW rs, NEW t, WholeBoard(rs, t) PROVE WholeBoard(rs, t)'
  BY <1>1 DEF WholeBoard, Board!OnBoard, Board!Row, Board!Above
<1>2. UNCHANGED board => BoardPlaced'
  BY DEF BoardPlaced
<1>3. UNCHANGED <<board, capture>> /\ minute' \in Nat /\ minute' >= minute => CapturesRight'
  <2> SUFFICES ASSUME UNCHANGED <<board, capture>>, minute' \in Nat, minute' >= minute PROVE CapturesRight'
    OBVIOUS
  <2>1. \A k \in Captures : capture[k].at \in 0..EndTime /\ capture[k].at <= minute
    BY DEF CapturesRight
  <2>2. \A k \in Captures : capture'[k].at <= minute'
    BY <1>0, <2>1
  <2>3. \A k \in Captures : capture'[k].st = "read" => WholeBoard(capture[k].rows, capture[k].at)'
    BY <1>1 DEF CapturesRight
  <2> QED
    BY <2>2, <2>3 DEF CapturesRight
<1>4. UNCHANGED <<board, snapshots>> /\ minute' \in Nat /\ minute' >= minute => SavedRight'
  <2> SUFFICES ASSUME UNCHANGED <<board, snapshots>>, minute' \in Nat, minute' >= minute PROVE SavedRight'
    OBVIOUS
  <2>1. \A s \in snapshots : s.at \in 0..EndTime /\ s.at <= minute'
    BY <1>0 DEF SavedRight
  <2>2. \A s \in snapshots : WholeBoard(s.rows, s.at)'
    BY <1>1 DEF SavedRight
  <2> QED
    BY <2>1, <2>2 DEF SavedRight
<1>5. CASE Board!Tick
  <2>1. minute' \in 0..BoardTime /\ minute' = minute + 1 /\ UNCHANGED <<tried, solves, board, capture, snapshots>>
    BY <1>0, <1>5 DEF Board!Tick
  <2>2. \A u \in Rankers : tried[u].at <= minute'
    <3>1. \A u \in Rankers : tried[u].at \in 0..EndTime /\ tried[u].at <= minute
      BY DEF BoardTyped
    <3> QED
      BY <1>0, <2>1, <3>1
  <2>3. BoardTyped'
    BY <2>1, <2>2 DEF BoardTyped
  <2> QED
    BY <1>0, <1>2, <1>3, <1>4, <2>1, <2>3
<1>6. ASSUME NEW u \in Rankers, NEW points \in Points, Board!Submit(u, points)
      PROVE  BoardInv'
  <2>1. /\ minute <= EndTime /\ solves < MaxSolves /\ solves' = solves + 1
        /\ tried' = [tried EXCEPT ![u] = [score |-> points, at |-> minute]]
        /\ UNCHANGED <<minute, board, capture, snapshots>>
    BY <1>6 DEF Board!Submit
  <2>2. [score |-> points, at |-> minute] \in [score : {0} \cup Points, at : 0..EndTime]
    BY <1>0, <2>1
  <2>3. tried' \in [Rankers -> [score : {0} \cup Points, at : 0..EndTime]]
    BY <2>1, <2>2 DEF BoardTyped
  <2>4. \A v \in Rankers : tried'[v].at <= minute
    BY <1>0, <2>1 DEF BoardTyped
  <2>5. BoardTyped'
    BY <1>0, <2>1, <2>3, <2>4 DEF BoardTyped
  <2> QED
    BY <1>0, <1>2, <1>3, <1>4, <2>1, <2>5
<1>7. ASSUME NEW u \in Rankers, NEW judge \in {"go", "ts", "blind"}, Board!UpdateLeaderboard(u, judge)
      PROVE  BoardInv'
  <2>1. PICK b : b = [score |-> tried[u].score, at |-> tried[u].at, by |-> judge,
                      raw |-> Board!Raw(tried[u], judge), since |-> minute]
    OBVIOUS
  <2>2. /\ tried' = [tried EXCEPT ![u] = Board!NoTry] /\ board' = [board EXCEPT ![u] = b]
        /\ UNCHANGED <<minute, solves, capture, snapshots>>
    BY <1>7, <2>1 DEF Board!UpdateLeaderboard
  <2>3. tried[u] \in [score : {0} \cup Points, at : 0..EndTime] /\ tried[u].at <= minute
    BY DEF BoardTyped
  <2>4. /\ Board!Raw(tried[u], judge) \in Nat
        /\ \E x \in 0..(MP - 1) : /\ Board!Raw(tried[u], judge) = tried[u].score * MP + 2 * MP - x
                                  /\ judge = "ts" => x = 2 * tried[u].at
    BY <1>0, <2>3, RawIsPlaced DEF BoardTyped
  <2>5. b \in Places
    BY <1>0, <2>1, <2>3, <2>4 DEF Places
  <2>6. Placed(b) /\ b # Board!Nobody /\ b.since = minute
    <3>1. b.by # "none" /\ b.by = judge /\ b.score = tried[u].score /\ b.at = tried[u].at
          /\ b.raw = Board!Raw(tried[u], judge) /\ b.since = minute
      BY <2>1
    <3> QED
      <4>1. PICK x \in 0..(MP - 1) :
              /\ Board!Raw(tried[u], judge) = tried[u].score * MP + 2 * MP - x
              /\ judge = "ts" => x = 2 * tried[u].at
        BY <2>4
      <4>2. /\ b.raw = b.score * MP + 2 * MP - x
            /\ b.by = "ts" => x = 2 * b.at
        BY <3>1, <4>1, Zenon
      <4>3. b # Board!Nobody
        BY <3>1 DEF Board!Nobody
      <4> QED
        BY <3>1, <4>2, <4>3, Zenon DEF Placed
  <2>7. BoardTyped'
    <3>1. Board!NoTry \in [score : {0} \cup Points, at : 0..EndTime] /\ Board!NoTry.at <= minute
      BY <1>0 DEF Board!NoTry
    <3> QED
      BY <2>2, <3>1 DEF BoardTyped
  <2>8. BoardPlaced'
    BY <2>2, <2>5, <2>6 DEF BoardPlaced
  <2>9. ASSUME NEW rs, NEW t \in Int, t <= minute, WholeBoard(rs, t) PROVE WholeBoard(rs, t)'
    BY <2>2, <2>5, <2>6, <2>9, WholeStays DEF BoardPlaced
  <2>10. CapturesRight'
    <3>1. \A k \in Captures : capture[k].at \in Int /\ capture[k].at <= minute
      BY <1>0 DEF CapturesRight
    <3>2. UNCHANGED <<capture, minute>>
      BY <2>2
    <3>3. ASSUME NEW k \in Captures, capture'[k].st = "read" PROVE WholeBoard(capture[k].rows, capture[k].at)'
      <4>1. PICK rs, t : rs = capture[k].rows /\ t = capture[k].at
        OBVIOUS
      <4>2. WholeBoard(rs, t)'
        BY <2>9, <3>1, <3>2, <3>3, <4>1 DEF CapturesRight
      <4> QED
        BY <3>2, <4>1, <4>2 DEF WholeBoard
    <3> QED
      BY <3>2, <3>3 DEF CapturesRight
  <2>11. SavedRight'
    <3>1. \A s \in snapshots : s.at \in Int /\ s.at <= minute /\ s.at \in 0..EndTime /\ WholeBoard(s.rows, s.at)
      BY <1>0 DEF SavedRight
    <3>2. \A s \in snapshots : WholeBoard(s.rows, s.at)'
      BY <2>9, <3>1
    <3>3. UNCHANGED <<snapshots, minute>>
      BY <2>2
    <3> QED
      BY <3>1, <3>2, <3>3 DEF SavedRight
  <2> QED
    BY <2>7, <2>8, <2>10, <2>11
<1>8. ASSUME NEW k \in Captures, Board!TakeSnapshot(k) \/ Board!ReadBoard(k) \/ Board!SaveSnapshots(k)
      PROVE  BoardInv'
  <2>1. UNCHANGED <<minute, tried, solves, board>>
    BY <1>8 DEF Board!TakeSnapshot, Board!ReadBoard, Board!SaveSnapshots
  <2>2. BoardTyped' /\ BoardPlaced'
    BY <1>2, <2>1 DEF BoardTyped
  <2>3. capture[k] \in [st : {"none", "begun", "read"}, at : 0..EndTime, rows : Ranked] /\ capture[k].at <= minute
    BY DEF CapturesRight
  <2>4. ASSUME NEW c \in [st : {"none", "begun", "read"}, at : 0..EndTime, rows : Ranked],
               c.at <= minute, c.st = "read" => WholeBoard(c.rows, c.at),
               capture' = [capture EXCEPT ![k] = c]
        PROVE  CapturesRight'
    <3>1. capture' \in [Captures -> [st : {"none", "begun", "read"}, at : 0..EndTime, rows : Ranked]]
      BY <2>4 DEF CapturesRight
    <3>2. ASSUME NEW j \in Captures
          PROVE  capture'[j].at <= minute /\ (capture'[j].st = "read" => WholeBoard(capture'[j].rows, capture'[j].at))
      <4>1. capture'[j] = IF j = k THEN c ELSE capture[j]
        BY <2>4 DEF CapturesRight
      <4> QED
        BY <2>4, <4>1 DEF CapturesRight
    <3>3. \A rs, t : WholeBoard(rs, t) => WholeBoard(rs, t)'
      BY <1>1, <2>1
    <3>4. ASSUME NEW j \in Captures, capture'[j].st = "read"
          PROVE  WholeBoard(capture[j].rows, capture[j].at)'
      <4>1. PICK rs, t : rs = capture'[j].rows /\ t = capture'[j].at
        OBVIOUS
      <4>2. WholeBoard(rs, t)'
        BY <3>2, <3>3, <3>4, <4>1
      <4> QED
        BY <4>1, <4>2 DEF WholeBoard
    <3> QED
      BY <2>1, <3>1, <3>2, <3>4 DEF CapturesRight
  <2>5. <<>> \in Ranked
    BY DEF Ranked
  <2>6. Board!NoCapture \in [st : {"none", "begun", "read"}, at : 0..EndTime, rows : Ranked]
        /\ Board!NoCapture.at <= minute /\ Board!NoCapture.st # "read"
    BY <1>0, <2>5 DEF Board!NoCapture
  <2>7. CASE Board!TakeSnapshot(k)
    <3>1. PICK c : c = [st |-> "begun", at |-> minute, rows |-> <<>>]
      OBVIOUS
    <3>2. capture' = [capture EXCEPT ![k] = c] /\ minute <= EndTime /\ UNCHANGED snapshots
      BY <2>7, <3>1 DEF Board!TakeSnapshot
    <3>3. c \in [st : {"none", "begun", "read"}, at : 0..EndTime, rows : Ranked] /\ c.at <= minute /\ c.st # "read"
      BY <1>0, <2>5, <3>1, <3>2
    <3>4. CapturesRight'
      BY <2>4, <3>2, <3>3
    <3> QED
      BY <1>0, <1>4, <2>1, <2>2, <3>2, <3>4
  <2>8. CASE Board!ReadBoard(k)
    <3>0. UNCHANGED snapshots
      BY <2>8 DEF Board!ReadBoard
    <3>1. CASE Board!OnBoard = {}
      <4>1. capture' = [capture EXCEPT ![k] = Board!NoCapture]
        BY <2>8, <3>1 DEF Board!ReadBoard
      <4>2. CapturesRight'
        BY <2>4, <2>6, <4>1
      <4> QED
        BY <1>0, <1>4, <2>1, <2>2, <3>0, <4>2
    <3>2. CASE Board!OnBoard # {}
      <4>1. PICK rs : rs = [i \in DOMAIN Board!Order |-> Board!Row(Board!Order[i])]
        OBVIOUS
      <4>2. PICK c : c = [capture[k] EXCEPT !.st = "read", !.rows = rs]
        OBVIOUS
      <4>3. capture' = [capture EXCEPT ![k] = c]
        BY <2>8, <3>2, <4>1, <4>2 DEF Board!ReadBoard
      <4>4. WholeBoard(rs, capture[k].at)
        BY <3>2, <4>1, ReadIsWhole
      <4>5. rs \in Ranked
        BY <4>4 DEF WholeBoard
      <4>6. c \in [st : {"none", "begun", "read"}, at : 0..EndTime, rows : Ranked]
            /\ c.at = capture[k].at /\ c.rows = rs
        BY <2>3, <4>2, <4>5
      <4>7. CapturesRight'
        BY <2>3, <2>4, <4>3, <4>4, <4>6
      <4> QED
        BY <1>0, <1>4, <2>1, <2>2, <3>0, <4>7
    <3> QED
      BY <3>1, <3>2
  <2>9. CASE Board!SaveSnapshots(k)
    <3>1. capture[k].st = "read" /\ capture' = [capture EXCEPT ![k] = Board!NoCapture]
          /\ \/ snapshots' = snapshots \cup {[at |-> capture[k].at, rows |-> capture[k].rows]}
             \/ UNCHANGED snapshots
      BY <2>9 DEF Board!SaveSnapshots
    <3>2. CapturesRight'
      BY <2>4, <2>6, <3>1
    <3>3. ASSUME NEW s \in snapshots'
          PROVE  s.at \in 0..EndTime /\ s.at <= minute /\ WholeBoard(s.rows, s.at)
      <4>1. CASE s \in snapshots
        BY <4>1 DEF SavedRight
      <4>2. CASE s \notin snapshots
        <5>1. s = [at |-> capture[k].at, rows |-> capture[k].rows]
          BY <3>1, <3>3, <4>2
        <5>2. s.at = capture[k].at /\ s.rows = capture[k].rows
          BY <5>1
        <5> QED
          BY <2>3, <3>1, <5>2 DEF CapturesRight
      <4> QED
        BY <4>1, <4>2
    <3>4. SavedRight'
      <4>1. \A s \in snapshots' : WholeBoard(s.rows, s.at)'
        BY <1>1, <2>1, <3>3
      <4> QED
        BY <2>1, <3>3, <4>1 DEF SavedRight
    <3> QED
      BY <2>2, <3>2, <3>4
  <2> QED
    BY <1>8, <2>7, <2>8, <2>9
<1>9. CASE UNCHANGED boardVars
  <2>1. UNCHANGED <<minute, tried, solves, board, capture, snapshots>>
    BY <1>9 DEF boardVars
  <2>2. BoardTyped' /\ BoardPlaced'
    BY <1>2, <2>1 DEF BoardTyped
  <2> QED
    BY <1>0, <1>3, <1>4, <2>1, <2>2
<1> QED
  BY <1>5, <1>6, <1>7, <1>8, <1>9 DEF Board!Next

\* More points, or as many and less of a penalty, give a greater score.
LEMMA RawRanks ==
  ASSUME BoardPlaced, NEW u \in Board!OnBoard, NEW v \in Board!OnBoard
  PROVE  /\ board[u].score > board[v].score => board[u].raw > board[v].raw
         /\ /\ board[u].score = board[v].score /\ board[u].at < board[v].at
            /\ board[u].by = "ts" /\ board[v].by = "ts"
            => board[u].raw > board[v].raw
<1>1. u \in Rankers /\ v \in Rankers /\ Placed(board[u]) /\ Placed(board[v])
  BY DEF BoardPlaced, Board!OnBoard
<1>2. board[u] \in Places /\ board[v] \in Places
  BY <1>1 DEF BoardPlaced
<1>3. /\ board[u].score \in Nat /\ board[v].score \in Nat /\ board[u].raw \in Nat /\ board[v].raw \in Nat
      /\ board[u].at \in Nat /\ board[v].at \in Nat /\ MP \in Nat
  <2>1. board[u].score \in {0} \cup Points /\ board[v].score \in {0} \cup Points
    BY <1>2 DEF Places
  <2>2. board[u].score \in Nat /\ board[v].score \in Nat
    BY <2>1, PointsAreNumbers
  <2> QED
    BY <1>2, <2>2, ArchiveAssumption DEF Places, MP
<1>4. PICK x \in 0..(MP - 1) : /\ board[u].raw = board[u].score * MP + 2 * MP - x
                               /\ board[u].by = "ts" => x = 2 * board[u].at
  BY <1>1 DEF Placed
<1>5. PICK y \in 0..(MP - 1) : /\ board[v].raw = board[v].score * MP + 2 * MP - y
                               /\ board[v].by = "ts" => y = 2 * board[v].at
  BY <1>1 DEF Placed
<1>6. ASSUME board[u].score > board[v].score PROVE board[u].raw > board[v].raw
  <2>1. PICK p, q : p = board[u].score * MP /\ q = board[v].score * MP
    OBVIOUS
  <2>2. q + MP <= p /\ p \in Nat /\ q \in Nat
    BY <1>3, <1>6, <2>1, Products
  <2>3. board[u].raw = p + 2 * MP - x /\ board[v].raw = q + 2 * MP - y
    BY <1>4, <1>5, <2>1, Zenon
  <2> QED
    BY <1>3, <2>2, <2>3
<1>7. ASSUME board[u].score = board[v].score, board[u].at < board[v].at,
             board[u].by = "ts", board[v].by = "ts"
      PROVE  board[u].raw > board[v].raw
  <2>1. PICK p : p = board[u].score * MP
    OBVIOUS
  <2>2. p \in Nat
    <3>1. \A a, b \in Nat : a * b \in Nat
      OBVIOUS
    <3> QED
      BY <1>3, <2>1, <3>1
  <2>3. board[u].raw = p + 2 * MP - 2 * board[u].at /\ board[v].raw = p + 2 * MP - 2 * board[v].at
    BY <1>4, <1>5, <1>7, <2>1, Zenon
  <2> QED
    BY <1>3, <1>7, <2>2, <2>3
<1> QED
  BY <1>6, <1>7

\* What the invariant says of snapshots and of scores.
LEMMA BoardHolds ==
  ASSUME BoardInv PROVE Board!TypeOK /\ Board!SnapshotsAreBoards /\ Board!ScoresRank
<1> USE DEF BoardInv
<1>1. \A S : Board!Cardinality(S) = Cardinality(S)
  BY DEF Board!Cardinality, Cardinality
<1>2. Board!TypeOK
  <2>1. \A u \in Rankers : board[u] \in [score : {0} \cup Points, at : 0..EndTime, raw : Nat,
                          by : {"none", "go", "ts", "blind"}, since : 0..BoardTime]
    BY DEF BoardPlaced, Places
  <2>2. board \in [Rankers -> [score : {0} \cup Points, at : 0..EndTime, raw : Nat,
                          by : {"none", "go", "ts", "blind"}, since : 0..BoardTime]]
    BY DEF BoardPlaced, Places
  <2>3. \A k \in Captures : capture[k].st \in {"none", "begun", "read"} /\ capture[k].at \in 0..EndTime
    BY DEF CapturesRight
  <2>4. \A s \in snapshots : s.at \in 0..EndTime /\ Len(s.rows) \in 1..Cardinality(Rankers)
    BY DEF SavedRight, WholeBoard
  <2> QED
    BY <1>1, <2>2, <2>3, <2>4 DEF Board!TypeOK, BoardTyped
<1>3. Board!SnapshotsAreBoards
  <2> SUFFICES ASSUME NEW s \in snapshots
               PROVE  /\ Board!IsInjective([i \in DOMAIN s.rows |-> s.rows[i].user])
                      /\ \A u \in Board!OnBoard : board[u].since < s.at => \E i \in DOMAIN s.rows : s.rows[i] = Board!Row(u)
                      /\ \A i, j \in DOMAIN s.rows : i < j =>
                           (board[s.rows[i].user].since < s.at /\ board[s.rows[j].user].since < s.at
                              => Board!Above(s.rows[i].user, s.rows[j].user))
    BY DEF Board!SnapshotsAreBoards
  <2>1. WholeBoard(s.rows, s.at)
    BY DEF SavedRight
  <2> QED
    BY <2>1 DEF WholeBoard, Board!IsInjective
<1>4. Board!ScoresRank
  BY RawRanks DEF Board!ScoresRank, Board!Above
<1> QED
  BY <1>2, <1>3, <1>4

-----------------------------------------------------------------------------
(* What is proved of all components.                                        *)

\* What each component's steps keep, together.
LEMMA PartsKeepTheirInvariants ==
  MCSpec => /\ [](ConnectionInv /\ BreakerInv /\ LimitInv /\ OnceInv /\ SagaInv /\ GrpcInv)
            /\ [](JudgeInv /\ PlagiarismInv /\ BloomInv /\ ContestInv)
            /\ [](AccountInv /\ StandInv /\ BoardInv)
<1>1. MCSpec => []ConnectionInv
  BY PartsStart, ConnectionInit, ConnectionNext, ConnectionSteps, PTL DEF MCSpec
<1>2. MCSpec => []BreakerInv
  BY PartsStart, BreakerInit, BreakerNext, BreakerSteps, PTL DEF MCSpec
<1>3. MCSpec => []LimitInv
  BY PartsStart, LimitInit, LimitNext, LimitSteps, PTL DEF MCSpec
<1>4. MCSpec => []OnceInv
  BY PartsStart, OnceInit, OnceNext, IdempotencySteps, PTL DEF MCSpec
<1>5. MCSpec => []SagaInv
  BY PartsStart, SagaInit, SagaNext, SagaMoves, PTL DEF MCSpec
<1>6. MCSpec => []GrpcInv
  BY PartsStart, GrpcInit, GrpcNext, GrpcSteps, PTL DEF MCSpec
<1>7. MCSpec => []JudgeInv
  BY PartsStart, JudgeInit, JudgeNext, JudgeSteps, PTL DEF MCSpec
<1>8. MCSpec => []PlagiarismInv
  BY PartsStart, PlagiarismInit, PlagiarismNext, PlagiarismSteps, PTL DEF MCSpec
<1>9. MCSpec => []BloomInv
  BY PartsStart, BloomInit, BloomNext, BloomSteps, PTL DEF MCSpec
<1>10. MCSpec => []ContestInv
  BY PartsStart, ContestInit, ContestNext, ContestSteps, PTL DEF MCSpec
<1>11. MCSpec => []AccountInv
  BY PartsStart, AccountInit, AccountNext, AccountSteps, PTL DEF MCSpec
<1>12. MCSpec => []StandInv
  <2>1. MCInit => StandInv
    BY PartsStart, StandInit
  <2>2. StandInv /\ [Table!Next]_standingsVars => StandInv'
    BY StandNext
  <2> QED
    BY <2>1, <2>2, StandingSteps, PTL DEF MCSpec
<1>13. MCSpec => []BoardInv
  <2>1. MCInit => BoardInv
    BY PartsStart, BoardInit
  <2>2. BoardInv /\ [Board!Next]_boardVars => BoardInv'
    BY BoardNext
  <2> QED
    BY <2>1, <2>2, BoardSteps, PTL DEF MCSpec
<1> QED
  BY <1>1, <1>2, <1>3, <1>4, <1>5, <1>6, <1>7, <1>8, <1>9, <1>10, <1>11, <1>12, <1>13, PTL

\* Every variable of every component has its type: no counter, window, bucket,
\* queue or list that the code keeps leaves its bounds.
THEOREM PartsAreTyped == MCSpec => []PartsTypeOK
<1>1. ConnectionInv /\ BreakerInv /\ LimitInv /\ OnceInv /\ SagaInv /\ GrpcInv =>
        Rabbit!TypeOK /\ Circuit!TypeOK /\ Limiter!TypeOK /\ Once!TypeOK /\ Undo!TypeOK /\ Client!TypeOK
  BY OnceHolds, SagaHolds, GrpcHolds DEF ConnectionInv, BreakerInv, LimitInv, OnceInv
<1>2. JudgeInv /\ PlagiarismInv /\ BloomInv /\ ContestInv =>
        Sandbox!TypeOK /\ Checks!TypeOK /\ Filter!TypeOK /\ TypeOK
  BY JudgeHolds, PlagiarismHolds, BloomHolds, ContestHolds
<1>3. AccountInv /\ StandInv /\ BoardInv => Entry!TypeOK /\ Table!TypeOK /\ Board!TypeOK
  BY AccountHolds, StandHolds, BoardHolds
<1>4. (ConnectionInv /\ BreakerInv /\ LimitInv /\ OnceInv /\ SagaInv /\ GrpcInv)
        /\ (JudgeInv /\ PlagiarismInv /\ BloomInv /\ ContestInv) /\ (AccountInv /\ StandInv /\ BoardInv)
      => PartsTypeOK
  BY <1>1, <1>2, <1>3 DEF PartsTypeOK, In
<1> QED
  BY PartsKeepTheirInvariants, <1>4, PTL

\* A cached answer, a clear bit of the filter, the standings on a page, a snapshot
\* of a leaderboard and a browser's cookie disagree with the rows of the core only
\* for the reasons that the components name; the counts of solved problems agree.
THEOREM CopiesHaveReasons == MCSpec => []CopiesAreExplained
<1>1. ContestInv /\ BloomInv /\ AccountInv /\ StandInv /\ BoardInv => CopiesAreExplained
  BY ContestHolds, BloomHolds, AccountHolds, StandHolds, BoardHolds DEF CopiesAreExplained, In
<1> QED
  BY PartsKeepTheirInvariants, <1>1, PTL

(* The same of each component by itself, without the bounds that MCServices  *)
(* puts on a run: any number of calls and faults at once, contests that are  *)
(* not all in one run, and any mix of submissions.                          *)
THEOREM EachServiceAlone ==
  /\ Filter!Spec => [](Filter!TypeOK /\ Filter!BlockedIsExplained)
  /\ Spec => [](TypeOK /\ StaleIsARace /\ OutsidersOnlyNearTheStart)
  /\ Entry!Spec => [](Entry!TypeOK /\ Entry!CookieIsCurrent /\ Entry!SpentStaysSpent)
  /\ Table!Spec => [](Table!TypeOK /\ Table!PageCatchesUp /\ Table!ViewsAgree)
  /\ Board!Spec => [](Board!TypeOK /\ Board!SnapshotsAreBoards /\ Board!ScoresRank)
<1>1. Filter!Spec => [](Filter!TypeOK /\ Filter!BlockedIsExplained)
  <2>1. [Filter!Next]_(Filter!vars) => [Filter!Next]_bloomVars
    BY DEF Filter!vars, bloomVars
  <2>2. BloomInv => Filter!TypeOK /\ Filter!BlockedIsExplained
    BY BloomHolds
  <2> QED
    BY BloomInit, BloomNext, <2>1, <2>2, PTL DEF Filter!Spec
<1>2. Spec => [](TypeOK /\ StaleIsARace /\ OutsidersOnlyNearTheStart)
  <2>1. ContestInv => TypeOK /\ StaleIsARace /\ OutsidersOnlyNearTheStart
    BY ContestHolds
  <2> QED
    BY ContestInit, ContestNext, <2>1, PTL DEF Spec
<1>3. Entry!Spec => [](Entry!TypeOK /\ Entry!CookieIsCurrent /\ Entry!SpentStaysSpent)
  <2>1. [Entry!Next]_(Entry!vars) => [Entry!Next]_accountVars
    BY DEF Entry!vars, accountVars
  <2>2. AccountInv => Entry!TypeOK /\ Entry!CookieIsCurrent /\ Entry!SpentStaysSpent
    BY AccountHolds
  <2> QED
    BY AccountInit, AccountNext, <2>1, <2>2, PTL DEF Entry!Spec
<1>4. Table!Spec => [](Table!TypeOK /\ Table!PageCatchesUp /\ Table!ViewsAgree)
  <2>1. Table!Init => StandInv
    BY StandInit
  <2>2. StandInv /\ [Table!Next]_standingsVars => StandInv'
    BY StandNext
  <2>3. [Table!Next]_(Table!vars) => [Table!Next]_standingsVars
    BY DEF Table!vars, standingsVars
  <2>4. StandInv => Table!TypeOK /\ Table!PageCatchesUp /\ Table!ViewsAgree
    BY StandHolds
  <2> QED
    BY <2>1, <2>2, <2>3, <2>4, PTL DEF Table!Spec
<1>5. Board!Spec => [](Board!TypeOK /\ Board!SnapshotsAreBoards /\ Board!ScoresRank)
  <2>1. Board!Init => BoardInv
    BY BoardInit
  <2>2. BoardInv /\ [Board!Next]_boardVars => BoardInv'
    BY BoardNext
  <2>3. [Board!Next]_(Board!vars) => [Board!Next]_boardVars
    BY DEF Board!vars, boardVars
  <2>4. BoardInv => Board!TypeOK /\ Board!SnapshotsAreBoards /\ Board!ScoresRank
    BY BoardHolds
  <2> QED
    BY <2>1, <2>2, <2>3, <2>4, PTL DEF Board!Spec
<1> QED
  BY <1>1, <1>2, <1>3, <1>4, <1>5
=============================================================================
