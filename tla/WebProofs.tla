------------------------------ MODULE WebProofs ------------------------------
(* Proofs about the web client, for every value of MCWeb's constants that    *)
(* its assumption admits: any number of tabs, requests, attempts, polls,     *)
(* visits and edits.  A behaviour is about one of the three components, and  *)
(* each has an inductive invariant of its own.                               *)
EXTENDS MCWeb, Integers, FiniteSetTheorems, TLAPS

-----------------------------------------------------------------------------
(* Session: nobody waits for a refresh that is over.                        *)

\* The bounds are numbers.
LEMMA WebNumbers ==
  MaxTurns \in Nat /\ MaxAttempts \in Nat /\ MaxPolls \in Nat /\ MaxVisits \in Nat /\ MaxEdits \in Nat
BY WebAssumption

\* A step of the client is one of a session or leaves it as it is.
LEMMA SessionSteps == [Next]_<<part, session, pages, drafts>> => [Session!Next]_session
BY DEF Next, session

\* What a request and a refresh can be.
States == {"idle", "out", "ok", "unauthorized", "queued", "owner", "leaving"}
RefreshStates == {"none", "out", "ok", "unauthorized", "failed", "waits"}
CallRow == [retried : BOOLEAN, st : States]
RefreshRow == [st : RefreshStates, token : Session!Tokens]

\* The types, with the rows of requests behind a name.
SessionTyped ==
  /\ readable \in Deployments /\ access \in BOOLEAN /\ jar \in Session!Tokens
  /\ page \in [Tabs -> {"auth", "app"}] /\ refreshing \in [Tabs -> BOOLEAN]
  /\ queue \in [Tabs -> SUBSET (Calls \cup {"refresh"})]
  /\ call \in [Tabs -> [Calls -> CallRow]] /\ refresh \in [Tabs -> RefreshRow]
  /\ turns \in 0..MaxTurns

\* A request of the tab waits for the refresh that it started; those behind it.
Owned(t) == \E c \in Calls : call[t][c].st = "owner"
Queued(t) == {c \in Calls : call[t][c].st = "queued"}
\* The tab refreshes as long as it has a refresh, one that a request owns, and only
\* then anyone waits.
Minded(t) ==
  /\ refreshing[t] <=> refresh[t].st # "none"
  /\ refreshing[t] <=> Owned(t)
  /\ queue[t] \cap Calls = Queued(t)
  /\ queue[t] # {} => refreshing[t]

\* The invariant is inductive as the run checks it: it says of every flag what it
\* stands for, so no step needs to know more.
SessionInv == SessionTyped /\ \A t \in Tabs : Minded(t)

\* It is what the run checks.
LEMMA SessionProperties == SessionInv => Session!TypeOK /\ Session!WaitersHaveARefresh
<1> SUFFICES ASSUME SessionInv PROVE Session!TypeOK /\ Session!WaitersHaveARefresh
  OBVIOUS
<1>1. Session!TypeOK
  BY DEF SessionInv, SessionTyped, Session!TypeOK, CallRow, States, RefreshRow, RefreshStates, Session!Refresh
<1>2. Session!WaitersHaveARefresh
  BY Zenon DEF SessionInv, Minded, Owned, Queued, Session!WaitersHaveARefresh
<1> QED
  BY <1>1, <1>2

\* Rows stay rows when their state changes.
LEMMA CallRows ==
  /\ Session!Idle \in CallRow /\ Session!Idle.st = "idle"
  /\ \A r \in CallRow, s \in States : [r EXCEPT !.st = s] \in CallRow /\ [r EXCEPT !.st = s].st = s
  /\ \A s \in States, b \in BOOLEAN : [st |-> s, retried |-> b] \in CallRow
  /\ Session!NoRefresh \in RefreshRow /\ Session!NoRefresh.st = "none"
  /\ \A r \in RefreshRow, s \in RefreshStates : [r EXCEPT !.st = s] \in RefreshRow /\ [r EXCEPT !.st = s].st = s
  /\ \A s \in RefreshStates, k \in Session!Tokens : [st |-> s, token |-> k] \in RefreshRow
BY DEF CallRow, RefreshRow, Session!Idle, Session!NoRefresh, Session!Tokens, States, RefreshStates

\* Nothing is under way at first.
LEMMA SessionInit == Session!Init => SessionInv
<1> SUFFICES ASSUME Session!Init PROVE SessionInv
  OBVIOUS
<1> USE DEF Session!Init
<1>1. SessionTyped
  <2>1. turns \in 0..MaxTurns
    BY WebNumbers
  <2>2. jar \in Session!Tokens
    BY DEF Session!Tokens
  <2>3. access \in BOOLEAN
    BY Zenon
  <2> QED
    BY <2>1, <2>2, <2>3, CallRows DEF SessionTyped
<1>2. \A t \in Tabs : Minded(t)
  BY CallRows DEF Minded, Owned, Queued
<1> QED
  BY <1>1, <1>2 DEF SessionInv

\* A new token in the row changes no state of a refresh.
LEMMA AgedTokens ==
  ASSUME SessionTyped
  PROVE  /\ Session!Aged(jar) \in Session!Tokens
         /\ Session!AgedRefresh \in [Tabs -> RefreshRow]
         /\ \A t \in Tabs : Session!AgedRefresh[t].st = refresh[t].st
<1>1. \A x \in Session!Tokens : Session!Aged(x) \in Session!Tokens
  BY DEF Session!Aged, Session!Tokens
<1>2. refresh \in [Tabs -> RefreshRow] /\ jar \in Session!Tokens
  BY DEF SessionTyped
<1>3. \A r \in RefreshRow : /\ [r EXCEPT !.token = Session!Aged(r.token)] \in RefreshRow
                            /\ [r EXCEPT !.token = Session!Aged(r.token)].st = r.st
  BY <1>1 DEF RefreshRow
<1> QED
  BY <1>1, <1>2, <1>3 DEF Session!AgedRefresh

\* What a tab waits for only depends on its own requests.
LEMMA SameTab ==
  ASSUME NEW t \in Tabs, Minded(t),
         refreshing'[t] = refreshing[t], queue'[t] = queue[t], call'[t] = call[t],
         refresh'[t].st # "none" <=> refresh[t].st # "none"
  PROVE  Minded(t)'
BY Zenon DEF Minded, Owned, Queued

\* A request goes to another state, and neither owns a refresh nor is in the queue before or
\* after: nobody's waiting changes.
LEMMA OtherCall ==
  ASSUME SessionInv, NEW t \in Tabs, NEW c \in Calls, NEW r \in CallRow,
         call[t][c].st \notin {"owner", "queued"}, r.st \notin {"owner", "queued"},
         call' = [call EXCEPT ![t][c] = r],
         UNCHANGED <<readable, refreshing, queue, refresh, turns>>,
         access' \in BOOLEAN, jar' \in Session!Tokens, page' \in [Tabs -> {"auth", "app"}]
  PROVE  SessionInv'
<1>0. call \in [Tabs -> [Calls -> CallRow]]
  BY DEF SessionInv, SessionTyped
<1>1. SessionTyped'
  BY <1>0 DEF SessionInv, SessionTyped
<1>2. \A u \in Tabs : u # t => Minded(u)'
  BY <1>0, SameTab DEF SessionInv
<1>3. Minded(t)'
  <2>1. \A d \in Calls : d # c => call'[t][d] = call[t][d]
    BY <1>0
  <2>2. call'[t][c] = r
    BY <1>0
  <2>3. Owned(t)' <=> Owned(t)
    BY <2>1, <2>2 DEF Owned
  <2>4. Queued(t)' = Queued(t)
    BY <2>1, <2>2 DEF Queued
  <2> QED
    BY <2>3, <2>4 DEF SessionInv, Minded
<1> QED
  BY <1>1, <1>2, <1>3 DEF SessionInv

\* Every step of a session keeps the invariant.
LEMMA SessionNext == SessionInv /\ [Session!Next]_session => SessionInv'
<1> SUFFICES ASSUME SessionInv, [Session!Next]_session PROVE SessionInv'
  OBVIOUS
<1>t. /\ SessionTyped /\ call \in [Tabs -> [Calls -> CallRow]] /\ refresh \in [Tabs -> RefreshRow]
      /\ queue \in [Tabs -> SUBSET (Calls \cup {"refresh"})] /\ refreshing \in [Tabs -> BOOLEAN]
      /\ page \in [Tabs -> {"auth", "app"}]
  BY DEF SessionInv, SessionTyped
<1>m. \A t \in Tabs : Minded(t)
  BY DEF SessionInv
<1>w. Session!PostPasses \in BOOLEAN
  BY WebAssumption DEF SessionInv, SessionTyped, Session!PostPasses
<1>1. CASE Session!SignInElsewhere
  <2>1. SessionTyped'
    BY <1>1, <1>t, AgedTokens DEF Session!SignInElsewhere, SessionTyped
  <2>2. \A t \in Tabs : Minded(t)'
    BY <1>1, <1>t, <1>m, AgedTokens, SameTab DEF Session!SignInElsewhere
  <2> QED
    BY <2>1, <2>2 DEF SessionInv
<1>2. CASE Session!AccessExpires
  <2>1. SessionTyped'
    <3>1. turns' \in 0..MaxTurns
      BY <1>2, <1>t, WebNumbers DEF Session!AccessExpires, SessionTyped
    <3>2. access' \in BOOLEAN
      BY <1>2 DEF Session!AccessExpires
    <3> QED
      BY <3>1, <3>2, <1>2, <1>t DEF Session!AccessExpires, SessionTyped
  <2>2. \A t \in Tabs : Minded(t)'
    BY <1>2, <1>m, SameTab DEF Session!AccessExpires
  <2> QED
    BY <2>1, <2>2 DEF SessionInv
<1>3. ASSUME NEW t \in Tabs, Session!SignIn(t) PROVE SessionInv'
  <2>1. SessionTyped'
    <3>1. turns' \in 0..MaxTurns
      BY <1>3, <1>t, WebNumbers DEF Session!SignIn, SessionTyped
    <3>2. access' \in BOOLEAN /\ jar' \in Session!Tokens
      BY <1>3 DEF Session!SignIn, Session!Tokens
    <3> QED
      BY <3>1, <3>2, <1>3, <1>t, AgedTokens DEF Session!SignIn, SessionTyped
  <2>2. \A u \in Tabs : Minded(u)'
    BY <1>3, <1>t, <1>m, AgedTokens, SameTab DEF Session!SignIn
  <2> QED
    BY <2>1, <2>2 DEF SessionInv
<1>4. ASSUME NEW t \in Tabs, Session!AnswerRefresh(t) PROVE SessionInv'
  <2>0. PICK answer \in {"ok", "failed", "unauthorized"} :
          IF answer = "ok"
          THEN jar' = Session!Aged(jar)
            /\ refresh' = [Session!AgedRefresh EXCEPT ![t] = [st |-> "ok", token |-> "row"]]
          ELSE refresh' = [refresh EXCEPT ![t].st = answer] /\ jar' = jar
    BY <1>4 DEF Session!AnswerRefresh
  <2>1. /\ refresh[t].st = "out"
        /\ UNCHANGED <<readable, access, page, refreshing, queue, call, turns>>
    BY <1>4 DEF Session!AnswerRefresh
  <2>2. /\ refresh' \in [Tabs -> RefreshRow] /\ jar' \in Session!Tokens
        /\ \A u \in Tabs : refresh'[u].st # "none" <=> refresh[u].st # "none"
    <3>1. CASE answer = "ok"
      <4>1. PICK r \in RefreshRow : r = [st |-> "ok", token |-> "row"] /\ r.st = "ok"
        <5>1. [st |-> "ok", token |-> "row"] \in RefreshRow
          BY DEF RefreshRow, RefreshStates, Session!Tokens
        <5> QED
          BY <5>1
      <4>2. PICK f \in [Tabs -> RefreshRow] : f = Session!AgedRefresh /\ \A u \in Tabs : f[u].st = refresh[u].st
        BY <1>t, AgedTokens
      <4>3. refresh' = [f EXCEPT ![t] = r] /\ jar' \in Session!Tokens
        BY <1>t, <2>0, <3>1, <4>1, <4>2, AgedTokens
      <4> QED
        BY <2>1, <4>1, <4>2, <4>3
    <3>2. CASE answer # "ok"
      <4>1. PICK r \in RefreshRow : r = [refresh[t] EXCEPT !.st = answer] /\ r.st = answer
        <5>1. /\ [refresh[t] EXCEPT !.st = answer] \in RefreshRow
              /\ [refresh[t] EXCEPT !.st = answer].st = answer
          <6>1. refresh[t] \in RefreshRow
            BY <1>t
          <6> QED
            BY <6>1 DEF RefreshRow, RefreshStates
        <5> QED
          BY <5>1
      <4>2. refresh' = [refresh EXCEPT ![t] = r] /\ jar' = jar
        BY <1>t, <2>0, <3>2, <4>1
      <4>3. jar \in Session!Tokens
        BY <1>t DEF SessionTyped
      <4> QED
        BY <1>t, <2>1, <4>1, <4>2, <4>3
    <3> QED
      BY <3>1, <3>2
  <2>3. SessionTyped'
    BY <2>1, <2>2, <1>t DEF SessionTyped
  <2>4. \A u \in Tabs : Minded(u)'
    BY <2>1, <2>2, <1>m, SameTab
  <2> QED
    BY <2>3, <2>4 DEF SessionInv
<1>5. ASSUME NEW t \in Tabs, Session!DeliverRefresh(t) PROVE SessionInv'
  <2>1. PICK f \in [Calls -> CallRow] :
          /\ call' = [call EXCEPT ![t] = f]
          /\ \A c \in Calls : f[c].st # "owner" /\ (f[c].st = "queued" => c \notin queue[t] /\ c \in Queued(t))
    <3> DEFINE f == [c \in Calls |-> IF c \in queue[t] \/ call[t][c].st = "owner"
                                    THEN [call[t][c] EXCEPT !.st = "out"] ELSE call[t][c]]
    <3>1. \A c \in Calls : call[t][c] \in CallRow
      BY <1>t
    <3>2. \A c \in Calls : \/ f[c] = [call[t][c] EXCEPT !.st = "out"]
                           \/ c \notin queue[t] /\ call[t][c].st # "owner" /\ f[c] = call[t][c]
      OBVIOUS
    <3>3. \A c \in Calls : /\ f[c] \in CallRow /\ f[c].st # "owner"
                           /\ f[c].st = "queued" => c \notin queue[t] /\ c \in Queued(t)
      BY <3>1, <3>2, CallRows DEF States, Queued
    <3>4. call' = [call EXCEPT ![t] = f]
      BY <1>5 DEF Session!DeliverRefresh
    <3>5. f \in [Calls -> CallRow]
      BY <3>3
    <3> HIDE DEF f
    <3> QED
      BY <3>3, <3>4, <3>5
  <2>2. SessionTyped'
    <3>1. refresh[t].token \in Session!Tokens
      BY <1>t DEF RefreshRow
    <3>2. access' \in BOOLEAN /\ jar' \in Session!Tokens
      BY <1>5, <3>1 DEF Session!DeliverRefresh
    <3>3. call' \in [Tabs -> [Calls -> CallRow]]
      BY <1>t, <2>1 DEF SessionTyped
    <3>4. refresh' \in [Tabs -> RefreshRow]
      BY <1>5, <1>t, CallRows DEF Session!DeliverRefresh, SessionTyped
    <3>5. /\ refreshing' \in [Tabs -> BOOLEAN] /\ queue' \in [Tabs -> SUBSET (Calls \cup {"refresh"})]
          /\ readable' = readable /\ page' = page /\ turns' = turns
      BY <1>5, <1>t DEF Session!DeliverRefresh, SessionTyped
    <3> QED
      BY <1>t, <3>2, <3>3, <3>4, <3>5 DEF SessionTyped
  <2>3. \A u \in Tabs : u # t => Minded(u)'
    BY <1>5, <1>t, <1>m, <2>1, SameTab DEF Session!DeliverRefresh
  <2>4. Minded(t)'
    <3>1. queue[t] \cap Calls = Queued(t) /\ call'[t] = f
      BY <1>m, <1>t, <2>1 DEF Minded
    <3>3. ~Owned(t)' /\ Queued(t)' = {}
      BY <2>1, <3>1 DEF Owned, Queued
    <3>4. refreshing'[t] = FALSE /\ queue'[t] = {} /\ refresh'[t].st = "none"
      BY <1>5, <1>t, CallRows DEF Session!DeliverRefresh
    <3> QED
      BY <3>3, <3>4 DEF Minded
  <2> QED
    BY <2>2, <2>3, <2>4 DEF SessionInv
<1>6. ASSUME NEW t \in Tabs, Session!QueueRefresh(t) PROVE SessionInv'
  <2>1. /\ refresh' \in [Tabs -> RefreshRow] /\ refresh'[t].st = "waits" /\ refresh[t].st = "unauthorized"
        /\ \A u \in Tabs : u # t => refresh'[u] = refresh[u] /\ queue'[u] = queue[u]
        /\ queue'[t] = queue[t] \cup {"refresh"}
    BY <1>6, <1>t, CallRows DEF Session!QueueRefresh, Session!Refresh, RefreshStates
  <2>2. SessionTyped'
    <3>1. queue' \in [Tabs -> SUBSET (Calls \cup {"refresh"})]
      BY <1>6, <1>t DEF Session!QueueRefresh, Session!Refresh
    <3>2. UNCHANGED <<readable, access, jar, page, refreshing, call, turns>>
      BY <1>6 DEF Session!QueueRefresh, Session!cookies
    <3> QED
      BY <1>t, <2>1, <3>1, <3>2 DEF SessionTyped
  <2>3. \A u \in Tabs : u # t => Minded(u)'
    BY <1>6, <1>m, <2>1, SameTab DEF Session!QueueRefresh
  <2>4. Minded(t)'
    <3>1. queue'[t] \cap Calls = queue[t] \cap Calls
      BY <2>1, WebAssumption
    <3>2. Owned(t)' = Owned(t) /\ Queued(t)' = Queued(t) /\ refreshing' = refreshing
      BY <1>6 DEF Session!QueueRefresh, Owned, Queued
    <3> QED
      BY <1>m, <2>1, <3>1, <3>2 DEF Minded
  <2> QED
    BY <2>2, <2>3, <2>4 DEF SessionInv
<1>7. ASSUME NEW t \in Tabs, Session!RefreshFails(t) PROVE SessionInv'
  <2>0. PICK f \in [Calls -> CallRow] : call' = [call EXCEPT ![t] = f]
                                     /\ \A c \in Calls : f[c].st # "owner" /\ (f[c].st = "queued" => c \notin queue[t] /\ c \in Queued(t))
    <3> DEFINE f == [c \in Calls |->
                 CASE c \in queue[t] -> Session!Idle
                   [] call[t][c].st = "owner" -> [call[t][c] EXCEPT !.st = "leaving"]
                   [] OTHER -> call[t][c]]
    <3>1. \A c \in Calls : call[t][c] \in CallRow
      BY <1>t
    <3>2. \A c \in Calls : \/ f[c] = Session!Idle
                           \/ f[c] = [call[t][c] EXCEPT !.st = "leaving"]
                           \/ c \notin queue[t] /\ call[t][c].st # "owner" /\ f[c] = call[t][c]
      OBVIOUS
    <3>3. \A c \in Calls : /\ f[c] \in CallRow /\ f[c].st # "owner"
                           /\ f[c].st = "queued" => c \notin queue[t] /\ c \in Queued(t)
      BY <3>1, <3>2, CallRows DEF States, Queued
    <3>4. call' = [call EXCEPT ![t] = f]
      BY <1>7 DEF Session!RefreshFails
    <3>5. f \in [Calls -> CallRow]
      BY <3>3
    <3> HIDE DEF f
    <3> QED
      BY <3>3, <3>4, <3>5
  <2>2. SessionTyped'
    <3>1. UNCHANGED <<readable, access, jar, page, turns>>
      BY <1>7 DEF Session!RefreshFails, Session!cookies
    <3>2. /\ refresh' = [refresh EXCEPT ![t] = Session!NoRefresh]
          /\ refreshing' = [refreshing EXCEPT ![t] = FALSE]
          /\ queue' = [queue EXCEPT ![t] = {}]
      BY <1>7 DEF Session!RefreshFails
    <3> QED
      BY <1>t, <2>0, <3>1, <3>2, CallRows DEF SessionTyped
  <2>3. \A u \in Tabs : u # t => Minded(u)'
    BY <1>7, <1>t, <1>m, <2>0, SameTab DEF Session!RefreshFails
  <2>4. Minded(t)'
    <3>1. queue[t] \cap Calls = Queued(t)
      BY <1>m DEF Minded
    <3>2. call'[t] = f
      BY <1>t, <2>0
    <3>3. ~Owned(t)' /\ Queued(t)' = {}
      BY <2>0, <3>1, <3>2 DEF Owned, Queued
    <3>4. refreshing'[t] = FALSE /\ queue'[t] = {} /\ refresh'[t].st = "none"
      BY <1>7, <1>t, CallRows DEF Session!RefreshFails
    <3> QED
      BY <3>3, <3>4 DEF Minded
  <2> QED
    BY <2>2, <2>3, <2>4 DEF SessionInv
<1>8. ASSUME NEW t \in Tabs, NEW c \in Calls, Session!Send(t, c) PROVE SessionInv'
  <2>1. PICK r \in CallRow : r = [call[t][c] EXCEPT !.st = "out"] /\ r.st = "out"
    <3>1. /\ [call[t][c] EXCEPT !.st = "out"] \in CallRow
          /\ [call[t][c] EXCEPT !.st = "out"].st = "out"
      <4>1. call[t][c] \in CallRow
        BY <1>t
      <4> QED
        BY <4>1 DEF CallRow, States
    <3> QED
      BY <3>1
  <2>2. /\ call' = [call EXCEPT ![t][c] = r] /\ call[t][c].st = "idle"
        /\ UNCHANGED <<readable, access, jar, page, refreshing, queue, refresh, turns>>
    BY <1>8, <2>1, CallRows DEF Session!Send, Session!cookies
  <2> QED
    BY <2>1, <2>2, OtherCall DEF SessionInv, SessionTyped
<1>9. ASSUME NEW t \in Tabs, NEW c \in Calls, Session!Answer(t, c) PROVE SessionInv'
  <2>0. PICK s \in {"ok", "unauthorized"} : s = IF access THEN "ok" ELSE "unauthorized"
    OBVIOUS
  <2>1. PICK r \in CallRow : r = [call[t][c] EXCEPT !.st = s] /\ r.st = s
    <3>1. /\ [call[t][c] EXCEPT !.st = s] \in CallRow
          /\ [call[t][c] EXCEPT !.st = s].st = s
      <4>1. call[t][c] \in CallRow
        BY <1>t
      <4> QED
        BY <4>1 DEF CallRow, States
    <3> QED
      BY <3>1
  <2>3. call' = [call EXCEPT ![t][c] = r]
    BY <1>9, <2>0, <2>1 DEF Session!Answer
  <2>2. call[t][c].st = "out" /\ UNCHANGED <<readable, access, jar, page, refreshing, queue, refresh, turns>>
    BY <1>9 DEF Session!Answer, Session!cookies
  <2> QED
    BY <2>1, <2>2, <2>3, OtherCall DEF SessionInv, SessionTyped
<1>10. ASSUME NEW t \in Tabs, NEW c \in Calls, Session!DeliverOk(t, c) \/ Session!Reject(t, c) PROVE SessionInv'
  <2>1. /\ call' = [call EXCEPT ![t][c] = Session!Idle]
        /\ call[t][c].st \in {"ok", "out", "unauthorized"}
        /\ UNCHANGED <<readable, access, jar, refreshing, queue, refresh, turns>>
    BY <1>10 DEF Session!DeliverOk, Session!Reject, Session!Settle, Session!cookies
  <2>2. page' \in [Tabs -> {"auth", "app"}]
    BY <1>10, <1>t DEF Session!DeliverOk, Session!Reject
  <2> QED
    BY <2>1, <2>2, OtherCall, CallRows DEF SessionInv, SessionTyped
<1>11. ASSUME NEW t \in Tabs, NEW c \in Calls, Session!DeliverUnauthorized(t, c) PROVE SessionInv'
  <2>0. /\ call[t][c].st = "unauthorized"
        /\ UNCHANGED <<readable, access, jar, page, turns>>
    BY <1>11 DEF Session!DeliverUnauthorized, Session!cookies
  <2>1. CASE refreshing[t]
    <3>1. PICK r \in CallRow : call' = [call EXCEPT ![t][c] = r] /\ r.st = "queued"
      <4>1. call[t][c] \in CallRow /\ "queued" \in States
        BY <1>t DEF States
      <4> QED
        BY <1>11, <1>t, <2>1, <4>1, CallRows DEF Session!DeliverUnauthorized
    <3>2. queue' = [queue EXCEPT ![t] = queue[t] \cup {c}] /\ UNCHANGED <<refreshing, refresh>>
      BY <1>11, <2>1 DEF Session!DeliverUnauthorized
    <3>3. SessionTyped'
      BY <1>t, <2>0, <3>1, <3>2 DEF SessionTyped
    <3>4. \A u \in Tabs : u # t => Minded(u)'
      BY <1>t, <1>m, <3>1, <3>2, SameTab
    <3>5. Minded(t)'
      <4>1. call'[t][c] = r /\ \A d \in Calls : d # c => call'[t][d] = call[t][d]
        BY <1>t, <3>1
      <4>2. Owned(t)' <=> Owned(t)
        BY <2>0, <3>1, <4>1 DEF Owned
      <4>3. Queued(t)' = Queued(t) \cup {c}
        BY <2>0, <3>1, <4>1 DEF Queued
      <4>4. queue'[t] \cap Calls = (queue[t] \cap Calls) \cup {c}
        BY <1>t, <3>2
      <4> QED
        BY <1>m, <2>1, <3>2, <4>2, <4>3, <4>4 DEF Minded
    <3> QED
      BY <3>3, <3>4, <3>5 DEF SessionInv
  <2>2. CASE ~refreshing[t]
    <3>1. PICK r \in CallRow : call' = [call EXCEPT ![t][c] = r] /\ r.st = "owner"
      <4>1. [st |-> "owner", retried |-> TRUE] \in CallRow
        BY DEF CallRow, States
      <4> QED
        BY <1>11, <2>2, <4>1 DEF Session!DeliverUnauthorized
    <3>2. PICK k \in RefreshRow : refresh' = [refresh EXCEPT ![t] = k] /\ k.st = "out"
      <4>1. [st |-> "out", token |-> jar] \in RefreshRow
        BY <1>t DEF RefreshRow, RefreshStates, SessionTyped
      <4> QED
        BY <1>11, <2>2, <4>1 DEF Session!DeliverUnauthorized
    <3>3. refreshing' = [refreshing EXCEPT ![t] = TRUE] /\ queue' = queue
      BY <1>11, <2>2 DEF Session!DeliverUnauthorized
    <3>4. SessionTyped'
      BY <1>t, <2>0, <3>1, <3>2, <3>3 DEF SessionTyped
    <3>5. \A u \in Tabs : u # t => Minded(u)'
      BY <1>t, <1>m, <3>1, <3>2, <3>3, SameTab
    <3>6. Minded(t)'
      <4>1. call'[t][c] = r /\ \A d \in Calls : d # c => call'[t][d] = call[t][d]
        BY <1>t, <3>1
      <4>2. Owned(t)'
        BY <3>1, <4>1 DEF Owned
      <4>3. Queued(t)' = Queued(t)
        BY <2>0, <3>1, <4>1 DEF Queued
      <4>4. refreshing'[t] = TRUE /\ refresh'[t].st = "out"
        BY <1>t, <3>2, <3>3
      <4> QED
        BY <1>m, <3>3, <4>2, <4>3, <4>4 DEF Minded
    <3> QED
      BY <3>4, <3>5, <3>6 DEF SessionInv
  <2> QED
    BY <2>1, <2>2
<1>12. ASSUME NEW t \in Tabs, NEW c \in Calls, Session!Logout(t, c) PROVE SessionInv'
  <2>1. call[t][c].st = "leaving" /\ UNCHANGED <<readable, turns>>
    BY <1>12 DEF Session!Logout
  <2>2. access' \in BOOLEAN /\ jar' \in Session!Tokens
    <3>1. CASE Session!PostPasses
      BY <1>12, <3>1 DEF Session!Logout, Session!Tokens
    <3>2. CASE ~Session!PostPasses
      BY <1>12, <1>t, <3>2 DEF Session!Logout, Session!cookies, SessionTyped
    <3> QED
      BY <3>1, <3>2
  <2>3. CASE page[t] = "auth"
    <3>1. call' = [call EXCEPT ![t][c] = Session!Idle] /\ UNCHANGED <<page, refreshing, queue, refresh>>
      BY <1>12, <2>3 DEF Session!Logout, Session!Settle
    <3> QED
      BY <2>1, <2>2, <3>1, OtherCall, CallRows DEF SessionInv, SessionTyped
  <2>4. CASE page[t] # "auth"
    <3>1. /\ page' = [page EXCEPT ![t] = "auth"] /\ refreshing' = [refreshing EXCEPT ![t] = FALSE]
          /\ queue' = [queue EXCEPT ![t] = {}] /\ call' = [call EXCEPT ![t] = [d \in Calls |-> Session!Idle]]
          /\ refresh' = [refresh EXCEPT ![t] = Session!NoRefresh]
      BY <1>12, <2>4 DEF Session!Logout
    <3>2. [d \in Calls |-> Session!Idle] \in [Calls -> CallRow]
      BY CallRows
    <3>3. SessionTyped'
      BY <1>t, <2>1, <2>2, <3>1, <3>2, CallRows DEF SessionTyped
    <3>4. \A u \in Tabs : u # t => Minded(u)'
      BY <1>t, <1>m, <3>1, SameTab
    <3>5. Minded(t)'
      <4>1. /\ refreshing'[t] = FALSE /\ queue'[t] = {} /\ refresh'[t] = Session!NoRefresh
            /\ \A d \in Calls : call'[t][d] = Session!Idle
        BY <1>t, <3>1
      <4>2. ~Owned(t)' /\ Queued(t)' = {}
        BY <4>1, CallRows DEF Owned, Queued
      <4> QED
        BY <4>1, <4>2, CallRows DEF Minded
    <3> QED
      BY <3>3, <3>4, <3>5 DEF SessionInv
  <2> QED
    BY <2>3, <2>4
<1>13. CASE UNCHANGED session
  <2>1. SessionTyped'
    BY <1>13, <1>t DEF session, SessionTyped
  <2>2. \A u \in Tabs : Minded(u)'
    BY <1>13, <1>m, SameTab DEF session
  <2> QED
    BY <2>1, <2>2 DEF SessionInv
<1>14. CASE Session!Next
  BY <1>1, <1>2, <1>3, <1>4, <1>5, <1>6, <1>7, <1>8, <1>9, <1>10, <1>11, <1>12, <1>14
  DEF Session!Next, Session!DeliverAny, Session!Deliver
<1> QED
  BY <1>13, <1>14

-----------------------------------------------------------------------------
(* Drafts: the storage and the tabs.                                        *)

\* A step of the client is one of the drafts or leaves them as they are.
LEMMA DraftSteps == [Next]_<<part, session, pages, drafts>> => [Drafts!Next]_drafts
BY DEF Next, drafts

\* The invariant is inductive as the run checks it.
DraftsInv == Drafts!TypeOK /\ Drafts!DraftsAreLatest

\* A tab without drafts has some, all empty.
LEMMA NoDraftsIsADraft == Drafts!NoDrafts \in Drafts!Drafts /\ \A c \in Codes : Drafts!NoDrafts[c] = 0
BY WebAssumption DEF Drafts!NoDrafts, Drafts!Drafts

\* No tab is open at first.
LEMMA DraftsInit == Drafts!Init => DraftsInv
<1> SUFFICES ASSUME Drafts!Init PROVE DraftsInv
  OBVIOUS
<1>1. Drafts!Init
  OBVIOUS
<1>2. 0 \in 0..MaxEdits
  BY WebAssumption
<1>3. Drafts!TypeOK
  BY <1>1, <1>2, NoDraftsIsADraft DEF Drafts!Init, Drafts!TypeOK
<1>4. Drafts!DraftsAreLatest
  BY <1>1 DEF Drafts!Init, Drafts!DraftsAreLatest
<1> QED
  BY <1>3, <1>4 DEF DraftsInv

\* Whoever writes the storage writes what it shows, and every other open tab is then behind
\* in that draft.
LEMMA DraftsNext == DraftsInv /\ [Drafts!Next]_drafts => DraftsInv'
<1> SUFFICES ASSUME DraftsInv, [Drafts!Next]_drafts PROVE DraftsInv'
  OBVIOUS
<1>t. /\ open \subseteq Tabs /\ savedCodes \in [Tabs -> Drafts!Drafts] /\ storage \in Drafts!Drafts
      /\ edits \in 0..MaxEdits /\ latest \in Drafts!Drafts
      /\ behind \in [Tabs -> SUBSET Codes] /\ overwritten \subseteq Codes
  BY DEF DraftsInv, Drafts!TypeOK
<1>l. /\ \A c \in Codes : storage[c] # latest[c] => c \in overwritten
      /\ \A t \in open, c \in Codes : savedCodes[t][c] # latest[c] => c \in behind[t]
  BY DEF DraftsInv, Drafts!DraftsAreLatest
<1>1. ASSUME NEW t \in Tabs, Drafts!Open(t) PROVE DraftsInv'
  <2> USE <1>1 DEF Drafts!Open
  <2>1. Drafts!TypeOK'
    BY <1>t DEF Drafts!TypeOK
  <2>2. \A o \in Tabs : savedCodes'[o] = IF o = t THEN storage ELSE savedCodes[o]
    BY <1>t
  <2>3. \A o \in Tabs : behind'[o] = IF o = t THEN overwritten ELSE behind[o]
    BY <1>t
  <2>4. Drafts!DraftsAreLatest'
    BY <1>t, <1>l, <2>2, <2>3 DEF Drafts!DraftsAreLatest
  <2> QED
    BY <2>1, <2>4 DEF DraftsInv
<1>2. ASSUME NEW t \in Tabs, Drafts!Close(t) PROVE DraftsInv'
  <2> USE <1>2 DEF Drafts!Close
  <2>1. Drafts!TypeOK'
    BY <1>t, NoDraftsIsADraft DEF Drafts!TypeOK
  <2>2. \A o \in Tabs \ {t} : savedCodes'[o] = savedCodes[o] /\ behind'[o] = behind[o]
    BY <1>t
  <2>3. Drafts!DraftsAreLatest'
    BY <1>t, <1>l, <2>2 DEF Drafts!DraftsAreLatest
  <2> QED
    BY <2>1, <2>3 DEF DraftsInv
<1>3. ASSUME NEW t \in Tabs, NEW c \in Codes, Drafts!SaveCode(t, c) PROVE DraftsInv'
  <2>1. PICK codes : codes = [savedCodes[t] EXCEPT ![c] = edits + 1]
    OBVIOUS
  <2>2. /\ t \in open /\ edits < MaxEdits /\ edits' = edits + 1 /\ open' = open
        /\ savedCodes' = [savedCodes EXCEPT ![t] = codes] /\ storage' = codes
        /\ latest' = [latest EXCEPT ![c] = edits + 1]
        /\ overwritten' = (overwritten \cup behind[t]) \ {c}
    BY <1>3, <2>1 DEF Drafts!SaveCode
  <2>3. /\ behind' \in [Tabs -> SUBSET Codes]
        /\ \A o \in Tabs : behind'[o] = IF o = t THEN behind[t] \ {c}
                                       ELSE IF o \in open THEN behind[o] \cup {c} ELSE {}
    <3>1. behind' = [o \in Tabs |-> IF o = t THEN behind[t] \ {c}
                                    ELSE IF o \in open THEN behind[o] \cup {c} ELSE {}]
      BY <1>3, <1>t DEF Drafts!SaveCode, Drafts!Others
    <3> QED
      BY <3>1, <1>t
  <2>4. edits + 1 \in 0..MaxEdits
    BY <1>t, <2>2, WebAssumption
  <2>5. codes \in Drafts!Drafts /\ latest' \in Drafts!Drafts
    BY <1>t, <2>1, <2>2, <2>4 DEF Drafts!Drafts
  <2>6. Drafts!TypeOK'
    BY <1>t, <2>2, <2>3, <2>4, <2>5 DEF Drafts!TypeOK
  <2>7. /\ codes[c] = edits + 1 /\ latest'[c] = edits + 1
        /\ \A d \in Codes \ {c} : codes[d] = savedCodes[t][d] /\ latest'[d] = latest[d]
    BY <1>t, <2>1, <2>2 DEF Drafts!Drafts
  <2>8. \A o \in Tabs : savedCodes'[o] = IF o = t THEN codes ELSE savedCodes[o]
    BY <1>t, <2>2
  <2>9. ASSUME NEW d \in Codes, storage'[d] # latest'[d] PROVE d \in overwritten'
    BY <1>l, <2>2, <2>7, <2>9
  <2>10. ASSUME NEW o \in open, NEW d \in Codes, savedCodes'[o][d] # latest'[d] PROVE d \in behind'[o]
    <3>1. o \in Tabs /\ savedCodes'[o] = IF o = t THEN codes ELSE savedCodes[o]
      BY <1>t, <2>8
    <3>2. CASE o = t
      <4>1. d # c /\ savedCodes[t][d] # latest[d]
        BY <2>7, <2>10, <3>1, <3>2
      <4> QED
        BY <1>l, <2>2, <2>3, <3>2, <4>1
    <3>3. CASE o # t
      <4>1. behind'[o] = behind[o] \cup {c}
        BY <2>3, <3>1, <3>3
      <4>2. d = c \/ savedCodes[o][d] # latest[d]
        BY <2>7, <2>10, <3>1, <3>3
      <4> QED
        BY <1>l, <4>1, <4>2
    <3> QED
      BY <3>2, <3>3
  <2>11. Drafts!DraftsAreLatest'
    BY <2>2, <2>9, <2>10 DEF Drafts!DraftsAreLatest
  <2> QED
    BY <2>6, <2>11 DEF DraftsInv
<1>4. ASSUME NEW t \in Tabs, Drafts!Logout(t) PROVE DraftsInv'
  <2>1. /\ t \in open /\ savedCodes' = [savedCodes EXCEPT ![t] = Drafts!NoDrafts] /\ storage' = Drafts!NoDrafts
        /\ latest' = Drafts!NoDrafts /\ overwritten' = {} /\ UNCHANGED <<open, edits>>
    BY <1>4 DEF Drafts!Logout
  <2>2. behind' = [o \in Tabs |-> IF o \in open \ {t} THEN Codes ELSE {}]
    BY <1>4 DEF Drafts!Logout, Drafts!Others
  <2>3. behind' \in [Tabs -> SUBSET Codes] /\ \A o \in open \ {t} : behind'[o] = Codes
    BY <1>t, <2>2
  <2>4. Drafts!TypeOK'
    BY <1>t, <2>1, <2>3, NoDraftsIsADraft DEF Drafts!TypeOK
  <2>5. Drafts!DraftsAreLatest'
    BY <1>t, <2>1, <2>3 DEF Drafts!DraftsAreLatest
  <2> QED
    BY <2>4, <2>5 DEF DraftsInv
<1>5. CASE UNCHANGED drafts
  BY <1>5 DEF drafts, DraftsInv, Drafts!TypeOK, Drafts!DraftsAreLatest
<1> QED
  BY <1>1, <1>2, <1>3, <1>4, <1>5 DEF Drafts!Next

-----------------------------------------------------------------------------
(* Pages: attempts, their answers and the lists.                            *)

\* A step of the client is one of the pages or leaves them as they are.
LEMMA PageSteps == [Next]_<<part, session, pages, drafts>> => [Pages!Next]_pages
BY DEF Next, pages

\* What can be attempted and what is listed; an attempt, and how many there have been.
Kinds == {"run", "submit"}
Lists == {"submissions", "details"}
Attempt == Pages!Attempts
Count == Pages!N

\* An attempt is over and nothing of it is under way; no attempt up to a overlapped.
Quiet(a) == attempts[a].st \in {"answered", "over"} /\ attempts[a].pending = 0 /\ attempts[a].done = 0
Apart(a) == \A b \in overlapped : b > a

\* The types, with the rows of attempts behind a name.
PagesTyped ==
  /\ kind \in {"problem", "contest"} /\ mounted \in BOOLEAN /\ shown \in Problems
  /\ home \in Problems /\ hung \in BOOLEAN
  /\ visits \in 0..MaxVisits /\ running \in BOOLEAN
  /\ Count \in 0..MaxAttempts /\ attempts \in [1..Count -> Attempt]
  /\ pollRef \in 0..Count /\ result \in [Kinds -> 0..Count]
  /\ fetches \subseteq Lists \X Problems /\ lists \in [Lists -> SUBSET Problems]
  /\ overlapped \subseteq 1..Count /\ crossed \in BOOLEAN

\* While the page is there, only the last attempt can be at work, and only while the buttons are
\* disabled, unless it or one before it overlapped: whatever ends an attempt enables the buttons,
\* an answer that was left ends another one's, and a shortcut counts whatever is at work as
\* overlapped.  This is what makes the outcome shown the last one.
OthersAreQuiet == mounted => \A a \in 1..Count : Apart(a) /\ (a < Count \/ ~running) => Quiet(a)
\* Nothing is polled for before the POST is answered.
PostedIsNew == \A a \in 1..Count : attempts[a].st = "posting" => attempts[a].pending = 0 /\ attempts[a].done = 0
\* An outcome is shown under the button that asked for it, and why it may not be the last.
ResultsFit == \A op \in Kinds : result[op] # 0 =>
  /\ attempts[result[op]].op = op
  /\ \A b \in 1..Count : b > result[op] /\ attempts[b].op = op => ~Apart(result[op])
\* The last outcome of its kind is shown.
Told == mounted => \A a \in 1..Count :
  attempts[a].st = "answered" /\ Apart(a) /\ (\A b \in 1..Count : b > a => attempts[b].op # attempts[a].op)
    => result[attempts[a].op] = a
\* The page of a contest's problem only submits, so whatever goes into its output concerns
\* every attempt.
OpsFit == \A a \in 1..Count : attempts[a].op \in Pages!Ops
\* An attempt that ended with an answer under way overlapped.
LeftBehind == mounted => \A a \in 1..Count :
  attempts[a].st \in {"answered", "over"} /\ ~Quiet(a) => a \in overlapped
\* The ref has the interval of the run that is active.
RefHolds == overlapped = {} /\ mounted =>
  \A a \in 1..Count : attempts[a].st = "active" /\ attempts[a].op = "run" => pollRef = a
\* Whoever has not left a problem in the middle of something only waits for what he sees.
ForShown == ~crossed =>
  /\ \A x \in fetches : x[2] = shown
  /\ \A a \in 1..Count : ~Quiet(a) => attempts[a].for = shown
\* The lists are of the problem on the page, or will be.
Followed == ~crossed => \A f \in Lists : lists[f] = {shown} \/ <<f, shown>> \in fetches \/ ~mounted

\* The inductive invariant of the pages.
PagesInv ==
  /\ PagesTyped /\ OthersAreQuiet /\ PostedIsNew /\ ResultsFit /\ Told /\ OpsFit /\ LeftBehind
  /\ RefHolds /\ ForShown /\ Followed

\* The fields of an attempt.
LEMMA RowsAre ==
  ASSUME NEW r \in Attempt
  PROVE  /\ r.op \in Kinds /\ r.for \in Problems /\ r.st \in {"posting", "active", "answered", "over"}
         /\ r.settled \in BOOLEAN /\ r.pending \in 0..MaxPolls /\ r.done \in 0..MaxPolls
BY DEF Attempt, Pages!Attempts, Kinds

\* The attempts are numbered, so the last number is how many there are.
LEMMA CountOf == \A n \in Nat : Pages!Cardinality(1..n) = n
<1>1. \A S : Pages!Cardinality(S) = Cardinality(S)
  BY DEF Pages!Cardinality, Cardinality
<1>2. ASSUME NEW n \in Nat PROVE Cardinality(1..n) = n
  <2>1. 1 \in Int /\ n \in Int /\ Cardinality(1..n) = IF 1 > n THEN 0 ELSE n - 1 + 1
    BY FS_Interval
  <2> QED
    BY <2>1
<1> QED
  BY <1>1, <1>2

\* The invariant implies what the run checks.
LEMMA PagesProperties == PagesInv => Pages!TypeOK /\ Pages!PageIsUpToDate
<1> SUFFICES ASSUME PagesInv PROVE Pages!TypeOK /\ Pages!PageIsUpToDate
  OBVIOUS
<1>1. Pages!TypeOK
  BY DEF PagesInv, PagesTyped, Count, Attempt, Kinds, Lists, Pages!TypeOK
<1>2. Pages!LastOutcomeIsShown
  <2> SUFFICES ASSUME NEW a \in 1..Count, overlapped \cap 1..a = {}
               PROVE  /\ result[attempts[a].op] = a => Pages!Later(a) = {}
                      /\ attempts[a].st = "answered" /\ Pages!Later(a) = {} /\ mounted
                           => result[attempts[a].op] = a
    BY DEF Pages!LastOutcomeIsShown, Count
  <2>0. overlapped \subseteq 1..Count /\ Count \in Nat /\ attempts[a] \in Attempt
    BY DEF PagesInv, PagesTyped
  <2>1. Apart(a)
    BY <2>0 DEF Apart
  <2>2. attempts[a].op \in Kinds
    BY <2>0, RowsAre
  <2>3. Pages!Later(a) = {b \in 1..Count : b > a /\ attempts[b].op = attempts[a].op}
    BY DEF Pages!Later, Count
  <2>4. result[attempts[a].op] = a => Pages!Later(a) = {}
    BY <2>0, <2>1, <2>2, <2>3 DEF PagesInv, ResultsFit
  <2>5. attempts[a].st = "answered" /\ Pages!Later(a) = {} /\ mounted => result[attempts[a].op] = a
    BY <2>1, <2>3 DEF PagesInv, Told
  <2> QED
    BY <2>4, <2>5
<1>3. Pages!ListsFollow
  BY DEF PagesInv, PagesTyped, Followed, Pages!ListsFollow
<1>4. Pages!ActiveIsRunning
  <2> SUFFICES ASSUME overlapped = {}, mounted, NEW a \in DOMAIN attempts, attempts[a].st = "active"
               PROVE  running /\ a = Pages!N /\ (attempts[a].op = "run" => pollRef = a)
    BY DEF Pages!ActiveIsRunning
  <2>1. a \in 1..Count /\ Count \in Nat
    BY DEF PagesInv, PagesTyped
  <2>2. ~Quiet(a) /\ Apart(a)
    BY DEF Quiet, Apart
  <2>3. running /\ a = Count
    BY <2>1, <2>2 DEF PagesInv, OthersAreQuiet
  <2> QED
    BY <2>1, <2>3 DEF PagesInv, RefHolds, Count
<1> QED
  BY <1>1, <1>2, <1>3, <1>4 DEF Pages!PageIsUpToDate

\* Nothing has been attempted at first.
LEMMA PagesInit == Pages!Init => PagesInv
<1> SUFFICES ASSUME Pages!Init PROVE PagesInv
  OBVIOUS
<1>0. Pages!Init
  OBVIOUS
<1>1. DOMAIN attempts = 1..0 /\ attempts = [a \in 1..0 |-> attempts[a]]
  BY <1>0 DEF Pages!Init
<1>2. Count = 0 /\ 1..Count = {}
  <2>1. Pages!Cardinality(1..0) = 0
    BY CountOf
  <2> QED
    BY <1>1, <2>1 DEF Count, Pages!N
<1>3. PagesTyped
  <2>1. 0 \in 0..MaxAttempts /\ 0 \in 0..MaxVisits
    BY WebAssumption
  <2>2. attempts \in [1..Count -> Attempt]
    BY <1>1, <1>2
  <2>3. result \in [Kinds -> 0..Count] /\ lists \in [Lists -> SUBSET Problems] /\ pollRef \in 0..Count
    BY <1>0, <1>2 DEF Pages!Init, Kinds, Lists
  <2>4. /\ mounted \in BOOLEAN /\ running \in BOOLEAN /\ crossed \in BOOLEAN /\ hung \in BOOLEAN
        /\ home \in Problems
    BY <1>0 DEF Pages!Init
  <2>5. fetches \subseteq Lists \X Problems
    BY <1>0 DEF Pages!Init, Lists
  <2> QED
    BY <1>0, <1>2, <2>1, <2>2, <2>3, <2>4, <2>5 DEF Pages!Init, PagesTyped
<1>4. OthersAreQuiet /\ PostedIsNew /\ RefHolds
  BY <1>2 DEF OthersAreQuiet, PostedIsNew, RefHolds
<1>o. Told /\ OpsFit /\ LeftBehind
  BY <1>2 DEF Told, OpsFit, LeftBehind
<1>5. ResultsFit
  BY <1>0 DEF ResultsFit, Pages!Init, Kinds
<1>6. ForShown /\ Followed
  BY <1>0, <1>2 DEF ForShown, Followed, Pages!Init, Lists
<1> QED
  BY <1>3, <1>4, <1>o, <1>5, <1>6 DEF PagesInv

\* What an action does to one attempt.
LEMMA OneAttempt ==
  ASSUME PagesInv, NEW a \in 1..Count, NEW r \in Attempt, r.op = attempts[a].op, r.for = attempts[a].for,
         attempts' = [attempts EXCEPT ![a] = r]
  PROVE  /\ Count' = Count /\ attempts' \in [1..Count -> Attempt] /\ attempts'[a] = r
         /\ \A b \in 1..Count : b # a => attempts'[b] = attempts[b]
         /\ \A b \in 1..Count : attempts'[b].op = attempts[b].op /\ attempts'[b].for = attempts[b].for
<1>1. attempts \in [1..Count -> Attempt]
  BY DEF PagesInv, PagesTyped
<1>2. DOMAIN attempts' = DOMAIN attempts
  BY <1>1
<1>3. Count' = Count
  BY <1>2 DEF Count, Pages!N
<1> QED
  BY <1>1, <1>3

\* What most steps need of the invariant.
LEMMA TheAttempts ==
  ASSUME PagesInv
  PROVE  /\ Count \in Nat /\ attempts \in [1..Count -> Attempt] /\ overlapped \subseteq 1..Count
         /\ \A a \in 1..Count : attempts[a] \in Attempt
         /\ mounted /\ overlapped = {} => \A a \in 1..Count : ~Quiet(a) => a = Count
BY DEF PagesInv, PagesTyped, OthersAreQuiet, Apart

\* What a status or an error does to the outcomes: the page of a contest's problem has none left.
LEMMA NoOutcomes ==
  ASSUME PagesInv
  PROVE  /\ Pages!NoOutcome \in [Kinds -> 0..Count]
         /\ \A op \in Kinds : Pages!NoOutcome[op] # 0 => Pages!NoOutcome[op] = result[op]
         /\ \A op \in Kinds : Pages!NoOutcome[op] # result[op] => kind = "contest" /\ op = "submit"
BY TheAttempts DEF PagesInv, PagesTyped, Pages!NoOutcome, Kinds

\* Who still waits for something while the last outcome of a kind is due was started after it,
\* for something else.
LEMMA DueIsOver ==
  ASSUME PagesInv, mounted, NEW a \in 1..Count, ~Quiet(a),
         NEW b \in 1..Count, attempts[b].st = "answered", Apart(b), b # a,
         \A c \in 1..Count : c > b => attempts[c].op # attempts[b].op
  PROVE  attempts[a].op # attempts[b].op /\ kind # "contest"
<1>t. Count \in Nat /\ overlapped \subseteq 1..Count
  BY TheAttempts
<1>1. b < a
  <2> SUFFICES ASSUME a < b PROVE FALSE
    BY <1>t
  <2>1. Apart(a) /\ a < Count
    BY <1>t DEF Apart
  <2> QED
    BY <2>1 DEF PagesInv, OthersAreQuiet
<1>2. attempts[a].op # attempts[b].op
  BY <1>1
<1> QED
  BY <1>2 DEF PagesInv, OpsFit, Pages!Ops

\* A step of an attempt that goes on.
LEMMA GoesOn ==
  ASSUME PagesInv, NEW a \in 1..Count, NEW r \in Attempt, r.op = attempts[a].op, r.for = attempts[a].for,
         attempts' = [attempts EXCEPT ![a] = r], ~Quiet(a), r.st # "posting",
         r.st = attempts[a].st \/ r.st = "active",
         UNCHANGED <<kind, mounted, shown, visits, home, running, fetches, lists, hung, overlapped, crossed>>,
         result' = result \/ result' = Pages!NoOutcome,
         pollRef' \in 0..Count,
         overlapped = {} /\ mounted /\ r.st = "active" /\ r.op = "run" => pollRef' = a
  PROVE  PagesInv'
<1>0. /\ Count' = Count /\ attempts' \in [1..Count -> Attempt] /\ attempts'[a] = r
      /\ \A b \in 1..Count : b # a => attempts'[b] = attempts[b]
      /\ \A b \in 1..Count : attempts'[b].op = attempts[b].op /\ attempts'[b].for = attempts[b].for
  BY OneAttempt
<1>a. Count \in Nat /\ mounted' = mounted /\ overlapped' = overlapped /\ running' = running
  BY TheAttempts
<1>q. \A b \in 1..Count : b # a => Quiet(b)' = Quiet(b)
  BY <1>0 DEF Quiet
<1>p. \A b \in 1..Count : Apart(b)' = Apart(b)
  BY <1>a DEF Apart
<1>1. PagesTyped'
  <2>1. result' \in [Kinds -> 0..Count]
    BY NoOutcomes DEF PagesInv, PagesTyped
  <2> QED
    BY <1>0, <2>1 DEF PagesInv, PagesTyped
<1>2. OthersAreQuiet'
  <2> SUFFICES ASSUME mounted, NEW b \in 1..Count, Apart(b), b < Count \/ ~running PROVE Quiet(b)'
    BY <1>0, <1>a, <1>p DEF OthersAreQuiet
  <2>1. Quiet(b)
    BY DEF PagesInv, OthersAreQuiet
  <2> QED
    BY <2>1, <1>q
<1>3. PostedIsNew'
  BY <1>0 DEF PagesInv, PostedIsNew
<1>4. ResultsFit'
  <2> SUFFICES ASSUME NEW op \in Kinds, result'[op] # 0
               PROVE  /\ attempts'[result'[op]].op = op
                      /\ \A b \in 1..Count : b > result'[op] /\ attempts'[b].op = op => ~Apart(result'[op])
    BY <1>0, <1>a DEF ResultsFit, Apart
  <2>1. result'[op] = result[op]
    BY NoOutcomes
  <2>2. result[op] \in 1..Count
    BY <1>a, <2>1 DEF PagesInv, PagesTyped
  <2> QED
    BY <1>0, <2>1, <2>2 DEF PagesInv, ResultsFit
<1>8. Told'
  <2> SUFFICES ASSUME mounted, NEW b \in 1..Count, attempts'[b].st = "answered", Apart(b),
                      \A c \in 1..Count : c > b => attempts'[c].op # attempts'[b].op
               PROVE  result'[attempts'[b].op] = b
    BY <1>0, <1>a, <1>p DEF Told
  <2>1. b # a
    BY <1>0, TheAttempts DEF PagesInv, LeftBehind, Apart
  <2>2. attempts[b].st = "answered" /\ \A c \in 1..Count : c > b => attempts[c].op # attempts[b].op
    BY <1>0, <2>1
  <2>3. result[attempts[b].op] = b
    BY <2>2 DEF PagesInv, Told
  <2>4. kind # "contest" /\ attempts[b].op \in Kinds
    BY <2>1, <2>2, DueIsOver, TheAttempts, RowsAre
  <2> QED
    BY <1>0, <2>3, <2>4, NoOutcomes
<1>9. OpsFit' /\ LeftBehind'
  <2>1. OpsFit'
    BY <1>0 DEF PagesInv, OpsFit, Pages!Ops
  <2>2. LeftBehind'
    <3> SUFFICES ASSUME mounted, NEW b \in 1..Count, attempts'[b].st \in {"answered", "over"}, ~Quiet(b)'
                 PROVE  b \in overlapped
      BY <1>0, <1>a DEF LeftBehind
    <3>1. attempts[b].st \in {"answered", "over"} /\ ~Quiet(b)
      BY <1>0, <1>q
    <3> QED
      BY <3>1 DEF PagesInv, LeftBehind
  <2> QED
    BY <2>1, <2>2
<1>5. RefHolds'
  <2> SUFFICES ASSUME overlapped = {}, mounted, NEW b \in 1..Count, attempts'[b].st = "active", attempts'[b].op = "run"
               PROVE  pollRef' = b
    BY <1>0, <1>a DEF RefHolds
  <2>1. CASE b = a
    BY <1>0, <2>1
  <2>2. CASE b # a
    <3>1. ~Quiet(b)
      BY <1>0, <2>2 DEF Quiet
    <3> QED
      BY <2>2, <3>1, TheAttempts
  <2> QED
    BY <2>1, <2>2
<1>6. ForShown'
  <2> SUFFICES ASSUME ~crossed
               PROVE  /\ \A x \in fetches : x[2] = shown
                      /\ \A b \in 1..Count : ~Quiet(b)' => attempts'[b].for = shown
    BY <1>0 DEF ForShown
  <2> QED
    BY <1>0, <1>q DEF PagesInv, ForShown
<1>7. Followed'
  BY DEF PagesInv, Followed
<1> QED
  BY <1>1, <1>2, <1>3, <1>4, <1>5, <1>6, <1>7, <1>8, <1>9 DEF PagesInv

\* A step with which an attempt ends.
LEMMA Ends ==
  ASSUME PagesInv, NEW a \in 1..Count, NEW r \in Attempt, r.op = attempts[a].op, r.for = attempts[a].for,
         attempts' = [attempts EXCEPT ![a] = r], ~Quiet(a), r.st \in {"answered", "over"},
         UNCHANGED <<kind, mounted, shown, visits, home, lists, hung, crossed>>,
         running' = FALSE, pollRef' \in 0..Count,
         overlapped' = overlapped \cup {a} \/ (overlapped' = overlapped /\ r.pending = 0 /\ r.done = 0),
         \/ r.st = "answered" /\ result' = IF mounted THEN [result EXCEPT ![r.op] = a] ELSE result
         \/ r.st = "over" /\ result' = Pages!NoOutcome,
         fetches' = fetches \/ fetches' = fetches \cup {<<"submissions", r.for>>}
  PROVE  PagesInv'
<1>0. /\ Count' = Count /\ attempts' \in [1..Count -> Attempt] /\ attempts'[a] = r
      /\ \A b \in 1..Count : b # a => attempts'[b] = attempts[b]
      /\ \A b \in 1..Count : attempts'[b].op = attempts[b].op /\ attempts'[b].for = attempts[b].for
  BY OneAttempt
<1>a. Count \in Nat /\ mounted' = mounted /\ overlapped \subseteq 1..Count /\ overlapped \subseteq overlapped'
  BY TheAttempts
<1>q. \A b \in 1..Count : b # a => Quiet(b)' = Quiet(b)
  BY <1>0 DEF Quiet
<1>p. \A b \in 1..Count : Apart(b)' => Apart(b)
  BY <1>a DEF Apart
<1>r. r.op \in Kinds /\ r.for \in Problems
  BY RowsAre
<1>1. PagesTyped'
  <2>1. result' \in [Kinds -> 0..Count]
    <3>1. result \in [Kinds -> 0..Count] /\ a \in 0..Count
      BY <1>a DEF PagesInv, PagesTyped
    <3>2. [result EXCEPT ![r.op] = a] \in [Kinds -> 0..Count]
      BY <3>1
    <3> QED
      BY <3>1, <3>2, NoOutcomes
  <2>2. fetches' \subseteq Lists \X Problems
    BY <1>r DEF PagesInv, PagesTyped, Lists
  <2>3. overlapped' \subseteq 1..Count /\ running' \in BOOLEAN
    BY <1>a
  <2> QED
    BY <1>0, <2>1, <2>2, <2>3 DEF PagesInv, PagesTyped
<1>2. OthersAreQuiet'
  <2> SUFFICES ASSUME mounted, NEW b \in 1..Count, Apart(b)' PROVE Quiet(b)'
    BY <1>0, <1>a DEF OthersAreQuiet
  <2>1. CASE b = a
    <3>1. a \notin overlapped'
      BY <2>1 DEF Apart
    <3> QED
      BY <1>0, <2>1, <3>1 DEF Quiet
  <2>2. CASE b # a
    <3>1. Apart(b)
      BY <1>p
    <3>2. CASE b < Count
      BY <1>q, <2>2, <3>1, <3>2 DEF PagesInv, OthersAreQuiet
    <3>3. CASE b = Count
      <4>1. a < Count /\ a < b
        BY <1>a, <2>2, <3>3
      <4>2. ~Apart(a)
        BY <4>1 DEF PagesInv, OthersAreQuiet
      <4>3. Apart(a)
        BY <1>a, <3>1, <4>1 DEF Apart
      <4> QED
        BY <4>2, <4>3
    <3> QED
      BY <1>a, <3>2, <3>3
  <2> QED
    BY <2>1, <2>2
<1>3. PostedIsNew'
  BY <1>0 DEF PagesInv, PostedIsNew
<1>4. ResultsFit'
  <2> SUFFICES ASSUME NEW op \in Kinds, result'[op] # 0
               PROVE  /\ attempts'[result'[op]].op = op
                      /\ \A b \in 1..Count : b > result'[op] /\ attempts'[b].op = op => ~Apart(result[op])'
    BY <1>0 DEF ResultsFit
  <2>0. result \in [Kinds -> 0..Count]
    BY DEF PagesInv, PagesTyped
  <2>1. CASE result'[op] = result[op]
    <3>1. result[op] \in 1..Count
      BY <1>a, <2>0, <2>1
    <3>2. Apart(result[op])' => Apart(result'[op])
      BY <1>a, <2>1 DEF Apart
    <3>3. Apart(result'[op]) = Apart(result[op])
      BY <2>1 DEF Apart
    <3> QED
      BY <1>0, <2>1, <3>1, <3>2, <3>3 DEF PagesInv, ResultsFit
  <2>2. CASE result'[op] # result[op]
    <3>1. mounted /\ result'[op] = a /\ op = r.op
      BY <1>r, <2>0, <2>2, NoOutcomes
    <3>2. ASSUME NEW b \in 1..Count, b > a PROVE ~Apart(a)
      <4>1. a < Count
        BY <1>a, <3>2
      <4> QED
        BY <3>1, <4>1 DEF PagesInv, OthersAreQuiet
    <3>3. Apart(result[op])' => Apart(a)
      BY <1>a, <3>1 DEF Apart
    <3> QED
      BY <1>0, <3>1, <3>2, <3>3
  <2> QED
    BY <2>1, <2>2
<1>8. Told'
  <2> SUFFICES ASSUME mounted, NEW b \in 1..Count, attempts'[b].st = "answered", Apart(b)',
                      \A c \in 1..Count : c > b => attempts'[c].op # attempts'[b].op
               PROVE  result'[attempts'[b].op] = b
    BY <1>0, <1>a DEF Told
  <2>0. result \in [Kinds -> 0..Count] /\ Apart(b)
    BY <1>p DEF PagesInv, PagesTyped
  <2>1. CASE b = a
    BY <1>0, <1>r, <2>0, <2>1
  <2>2. CASE b # a
    <3>1. attempts[b].st = "answered" /\ \A c \in 1..Count : c > b => attempts[c].op # attempts[b].op
      BY <1>0, <2>2
    <3>2. result[attempts[b].op] = b
      BY <2>0, <3>1 DEF PagesInv, Told
    <3>3. kind # "contest" /\ attempts[b].op # r.op
      BY <2>0, <2>2, <3>1, DueIsOver
    <3>4. attempts[b].op \in Kinds
      BY TheAttempts, RowsAre
    <3> QED
      BY <1>0, <1>r, <2>0, <3>2, <3>3, <3>4, NoOutcomes
  <2> QED
    BY <2>1, <2>2
<1>9. OpsFit' /\ LeftBehind'
  <2>1. OpsFit'
    BY <1>0 DEF PagesInv, OpsFit, Pages!Ops
  <2>2. LeftBehind'
    <3> SUFFICES ASSUME mounted, NEW b \in 1..Count, attempts'[b].st \in {"answered", "over"}, ~Quiet(b)'
                 PROVE  b \in overlapped'
      BY <1>0, <1>a DEF LeftBehind
    <3>1. CASE b = a
      BY <1>0, <3>1 DEF Quiet
    <3>2. CASE b # a
      <4>1. attempts[b].st \in {"answered", "over"} /\ ~Quiet(b)
        BY <1>0, <1>q, <3>2
      <4> QED
        BY <1>a, <4>1 DEF PagesInv, LeftBehind
    <3> QED
      BY <3>1, <3>2
  <2> QED
    BY <2>1, <2>2
<1>5. RefHolds'
  <2> SUFFICES ASSUME overlapped' = {}, mounted, NEW b \in 1..Count, attempts'[b].st = "active" PROVE FALSE
    BY <1>0, <1>a DEF RefHolds
  <2>1. b # a /\ ~Quiet(b) /\ overlapped = {}
    BY <1>0, <1>a DEF Quiet
  <2> QED
    BY <2>1, TheAttempts
<1>6. ForShown'
  <2> SUFFICES ASSUME ~crossed
               PROVE  /\ \A x \in fetches' : x[2] = shown
                      /\ \A b \in 1..Count : ~Quiet(b)' => attempts'[b].for = shown
    BY <1>0 DEF ForShown
  <2>1. r.for = shown
    BY DEF PagesInv, ForShown
  <2> QED
    BY <1>0, <1>q, <2>1 DEF PagesInv, ForShown
<1>7. Followed'
  BY DEF PagesInv, Followed
<1> QED
  BY <1>1, <1>2, <1>3, <1>4, <1>5, <1>6, <1>7, <1>8, <1>9 DEF PagesInv

\* A step with which an attempt starts.
LEMMA Begins ==
  ASSUME PagesInv, NEW op \in Kinds, NEW p \in Problems, Pages!Begin(op, p),
         \/ ~running /\ overlapped' = overlapped
         \/ overlapped' = overlapped \cup Pages!UnderWay,
         crossed' = crossed \/ crossed' = TRUE, crossed' \/ p = shown
  PROVE  PagesInv'
<1>t. /\ Count \in Nat /\ attempts \in [1..Count -> Attempt] /\ overlapped \subseteq 1..Count
      /\ DOMAIN attempts = 1..Count /\ pollRef \in 0..Count /\ crossed \in BOOLEAN
  BY TheAttempts DEF PagesInv, PagesTyped
<1>u. Pages!UnderWay \subseteq 1..Count /\ overlapped \subseteq overlapped'
  BY DEF Pages!UnderWay, Count
<1>w. ASSUME mounted, NEW b \in 1..Count, Apart(b)' PROVE Quiet(b)
  <2>1. Apart(b)
    BY <1>t, <1>u, <1>w DEF Apart
  <2>2. CASE ~running
    BY <1>w, <2>1, <2>2 DEF PagesInv, OthersAreQuiet
  <2>3. CASE overlapped' = overlapped \cup Pages!UnderWay
    <3>1. b \notin Pages!UnderWay
      BY <1>w, <2>3 DEF Apart
    <3>2. /\ attempts[b].pending \in 0..MaxPolls /\ attempts[b].done \in 0..MaxPolls
          /\ attempts[b].st \in {"posting", "active", "answered", "over"}
      BY <1>t, RowsAre
    <3>3. attempts[b].st \notin {"posting", "active"} /\ ~(attempts[b].pending + attempts[b].done > 0)
      BY <3>1 DEF Pages!UnderWay, Count
    <3> QED
      BY <3>2, <3>3, WebAssumption DEF Quiet
  <2> QED
    BY <2>2, <2>3
<1>1. QED
  <2>0. /\ mounted /\ Count < MaxAttempts /\ running' = TRUE
        /\ result' = [result EXCEPT ![op] = 0] /\ op \in Pages!Ops
        /\ UNCHANGED <<kind, mounted, shown, visits, home, pollRef, fetches, lists, hung>>
    BY DEF Pages!Begin, Pages!user, Count
  <2>1. PICK r \in Attempt : r.op = op /\ r.for = p /\ r.st = "posting" /\ r.pending = 0 /\ r.done = 0
                           /\ attempts' = [a \in 1..Count + 1 |-> IF a <= Count THEN attempts[a] ELSE r]
    <3>1. [op |-> op, for |-> p, st |-> "posting", settled |-> FALSE, pending |-> 0, done |-> 0] \in Attempt
      <4>1. 0 \in 0..MaxPolls
        BY WebAssumption
      <4> QED
        BY <4>1 DEF Attempt, Pages!Attempts, Kinds
    <3>2. attempts' = [a \in 1..Count + 1 |-> IF a <= Count THEN attempts[a] ELSE
             [op |-> op, for |-> p, st |-> "posting", settled |-> FALSE, pending |-> 0, done |-> 0]]
      BY DEF Pages!Begin, Count
    <3> QED
      BY <3>1, <3>2
  <2>2. PICK n \in Nat : n = Count
    BY <1>t
  <2>3. /\ DOMAIN attempts' = 1..(n + 1) /\ attempts'[n + 1] = r
        /\ \A b \in 1..n : attempts'[b] = attempts[b]
        /\ attempts' \in [1..(n + 1) -> Attempt]
    BY <1>t, <2>1, <2>2
  <2>4. Count' = n + 1
    BY <2>3, CountOf DEF Count, Pages!N
  <2>5. PagesTyped'
    <3>1. result' \in [Kinds -> 0..(n + 1)] /\ pollRef \in 0..(n + 1) /\ overlapped' \subseteq 1..(n + 1)
      BY <1>t, <1>u, <2>0, <2>2 DEF PagesInv, PagesTyped
    <3>2. n + 1 \in 0..MaxAttempts
      BY <2>0, <2>2, WebAssumption
    <3>3. attempts' \in [1..Count' -> Attempt] /\ result' \in [Kinds -> 0..Count']
          /\ pollRef \in 0..Count' /\ overlapped' \subseteq 1..Count' /\ Count' \in 0..MaxAttempts
      BY <2>3, <2>4, <3>1, <3>2
    <3> QED
      BY <1>t, <2>0, <3>3 DEF PagesInv, PagesTyped
  <2>6. \A b \in 1..n : /\ Quiet(b)' = Quiet(b) /\ (Apart(b)' => Apart(b))
    BY <1>t, <1>u, <2>2, <2>3 DEF Quiet, Apart
  <2>7. OthersAreQuiet'
    <3> SUFFICES ASSUME NEW b \in 1..(n + 1), Apart(b)', b < n + 1 PROVE Quiet(b)'
      BY <2>0, <2>4 DEF OthersAreQuiet
    <3>1. b \in 1..n
      OBVIOUS
    <3> QED
      BY <1>w, <2>0, <2>2, <2>6, <3>1
  <2>8. PostedIsNew'
    <3>1. \A b \in 1..(n + 1) : b \in 1..n \/ b = n + 1
      OBVIOUS
    <3> QED
      BY <2>1, <2>2, <2>3, <2>4, <3>1 DEF PagesInv, PostedIsNew
  <2>9. ResultsFit'
    <3> SUFFICES ASSUME NEW o \in Kinds, result'[o] # 0
                 PROVE  /\ attempts'[result'[o]].op = o
                        /\ \A b \in 1..(n + 1) : b > result'[o] /\ attempts'[b].op = o => ~Apart(result[o])'
      BY <2>4 DEF ResultsFit
    <3>1. o # op /\ result'[o] = result[o] /\ result[o] \in 1..n
      BY <2>0, <2>2 DEF PagesInv, PagesTyped
    <3>2. /\ attempts[result[o]].op = o
          /\ \A b \in 1..n : b > result[o] /\ attempts[b].op = o => ~Apart(result[o])
      BY <2>2, <3>1 DEF PagesInv, ResultsFit
    <3>3. Apart(result[o])' => Apart(result[o])
      BY <1>t, <1>u, <2>0, <2>2, <3>1 DEF Apart
    <3>4. attempts'[n + 1].op # o
      BY <2>1, <2>3, <3>1
    <3> QED
      <4>1. result[o] \in 1..(n + 1) /\ attempts'[result'[o]].op = o /\ (result[o])' = result[o]
        BY <2>3, <3>1, <3>2
      <4>2. ASSUME NEW b \in 1..(n + 1), b > result[o], attempts'[b].op = o PROVE ~Apart(result[o])
        <5>1. b \in 1..n
          BY <3>4, <4>2
        <5> QED
          BY <2>3, <3>2, <4>2, <5>1
      <4> QED
        BY <3>1, <3>3, <4>1, <4>2
  <2>10. RefHolds'
    <3> SUFFICES ASSUME overlapped' = {}, mounted, NEW b \in 1..(n + 1), attempts'[b].st = "active"
                 PROVE FALSE
      BY <2>0, <2>4 DEF RefHolds
    <3>1. b \in 1..n
      BY <2>1, <2>3
    <3>2. ~Quiet(b) /\ Apart(b)'
      BY <2>3, <3>1 DEF Quiet, Apart
    <3> QED
      BY <1>w, <2>0, <2>2, <3>1, <3>2
  <2>11. ForShown'
    <3> SUFFICES ASSUME ~crossed'
                 PROVE  /\ \A x \in fetches : x[2] = shown
                        /\ \A b \in 1..(n + 1) : ~Quiet(b)' => attempts'[b].for = shown
      BY <2>0, <2>4 DEF ForShown
    <3>1. \A b \in 1..(n + 1) : b \in 1..n \/ b = n + 1
      OBVIOUS
    <3> QED
      BY <1>t, <2>1, <2>2, <2>3, <2>6, <3>1 DEF PagesInv, ForShown
  <2>12. Followed'
    BY <1>t, <2>0 DEF PagesInv, Followed
  <2>13. Told'
    <3> SUFFICES ASSUME NEW b \in 1..(n + 1), attempts'[b].st = "answered", Apart(b)',
                        \A c \in 1..(n + 1) : c > b => attempts'[c].op # attempts'[b].op
                 PROVE  result'[attempts'[b].op] = b
      BY <2>4 DEF Told
    <3>1. b \in 1..n /\ n + 1 \in 1..(n + 1) /\ \A c \in 1..n : c \in 1..(n + 1)
      BY <2>1, <2>3
    <3>2. attempts'[n + 1].op # attempts'[b].op /\ \A c \in 1..n : c > b => attempts[c].op # attempts[b].op
      BY <2>3, <3>1
    <3>3. attempts[b].op # op /\ attempts[b].op \in Kinds
      BY <1>t, <2>1, <2>2, <2>3, <3>1, <3>2, RowsAre
    <3>4. result[attempts[b].op] = b
      BY <2>0, <2>2, <2>3, <2>6, <3>1, <3>2 DEF PagesInv, Told
    <3> QED
      BY <2>0, <2>3, <3>1, <3>3, <3>4 DEF PagesInv, PagesTyped
  <2>14. OpsFit'
    <3>1. \A b \in 1..(n + 1) : b \in 1..n \/ b = n + 1
      OBVIOUS
    <3> QED
      BY <2>0, <2>1, <2>2, <2>3, <2>4, <3>1 DEF PagesInv, OpsFit, Pages!Ops
  <2>15. LeftBehind'
    <3>1. \A b \in 1..(n + 1) : b \in 1..n \/ b = n + 1
      OBVIOUS
    <3> QED
      BY <1>u, <2>0, <2>1, <2>2, <2>3, <2>4, <2>6, <3>1 DEF PagesInv, LeftBehind
  <2> QED
    BY <2>5, <2>7, <2>8, <2>9, <2>10, <2>11, <2>12, <2>13, <2>14, <2>15 DEF PagesInv

\* Every step of a page keeps the invariant.
LEMMA PagesNext == PagesInv /\ [Pages!Next]_pages => PagesInv'
<1> SUFFICES ASSUME PagesInv, [Pages!Next]_pages PROVE PagesInv'
  OBVIOUS
<1>t. /\ Count \in Nat /\ attempts \in [1..Count -> Attempt] /\ overlapped \subseteq 1..Count
      /\ DOMAIN attempts = 1..Count /\ pollRef \in 0..Count
  BY TheAttempts DEF PagesInv, PagesTyped
<1>1. ASSUME NEW op \in Kinds, Pages!Start(op) PROVE PagesInv'
  <2>1. shown \in Problems
    BY DEF PagesInv, PagesTyped
  <2>2. Pages!Begin(op, shown) /\ ~running /\ overlapped' = overlapped /\ crossed' = crossed
    BY <1>1 DEF Pages!Start
  <2> QED
    BY <2>1, <2>2, Begins
<1>s. ASSUME NEW op \in Kinds, Pages!Shortcut(op) PROVE PagesInv'
  <2>1. home \in Problems
    BY DEF PagesInv, PagesTyped
  <2>2. Pages!Begin(op, home) /\ overlapped' = overlapped \cup Pages!UnderWay
    BY <1>s DEF Pages!Shortcut
  <2>3. (crossed' = crossed \/ crossed' = TRUE) /\ (crossed' \/ home = shown)
    BY <1>s, Zenon DEF Pages!Shortcut, PagesInv, PagesTyped
  <2> QED
    BY <2>1, <2>2, <2>3, Begins
<1>2. ASSUME NEW a \in DOMAIN attempts, Pages!Posted(a) PROVE PagesInv'
  <2>0. /\ attempts[a] \in Attempt /\ attempts[a].st = "posting" /\ a \in 1..Count
        /\ UNCHANGED <<kind, mounted, shown, visits, home, running, result, fetches, lists, hung, overlapped, crossed>>
    BY <1>2, <1>t DEF Pages!Posted, Pages!user
  <2>1. PICK r \in Attempt : r = [attempts[a] EXCEPT !.st = "active"]
    <3>1. [attempts[a] EXCEPT !.st = "active"] \in Attempt
      BY <2>0 DEF Attempt, Pages!Attempts
    <3> QED
      BY <3>1
  <2>2. r.op = attempts[a].op /\ r.for = attempts[a].for /\ r.st = "active"
    BY <2>0, <2>1 DEF Attempt, Pages!Attempts
  <2>3. attempts' = [attempts EXCEPT ![a] = r] /\ pollRef' = IF attempts[a].op = "run" THEN a ELSE pollRef
    BY <1>2, <2>1 DEF Pages!Posted
  <2>4. pollRef' \in 0..Count /\ (r.op = "run" => pollRef' = a)
    BY <1>t, <2>0, <2>2, <2>3
  <2>5. ~Quiet(a)
    BY <2>0 DEF Quiet
  <2> QED
    BY <2>0, <2>2, <2>3, <2>4, <2>5, GoesOn
<1>3. ASSUME NEW a \in DOMAIN attempts, Pages!PostFails(a) PROVE PagesInv'
  <2>0. /\ attempts[a] \in Attempt /\ attempts[a].st = "posting" /\ a \in 1..Count /\ running' = FALSE
        /\ UNCHANGED <<kind, mounted, shown, visits, home, pollRef, fetches, lists, hung, overlapped, crossed>>
        /\ result' = Pages!NoOutcome
    BY <1>3, <1>t DEF Pages!PostFails, Pages!user
  <2>1. PICK r \in Attempt : r = [attempts[a] EXCEPT !.st = "over"]
    <3>1. [attempts[a] EXCEPT !.st = "over"] \in Attempt
      BY <2>0 DEF Attempt, Pages!Attempts
    <3> QED
      BY <3>1
  <2>2. /\ r.op = attempts[a].op /\ r.for = attempts[a].for /\ r.st = "over"
        /\ r.pending = attempts[a].pending /\ r.done = attempts[a].done
    BY <2>0, <2>1 DEF Attempt, Pages!Attempts
  <2>3. attempts' = [attempts EXCEPT ![a] = r]
    BY <1>3, <2>1 DEF Pages!PostFails
  <2>4. r.pending = 0 /\ r.done = 0
    BY <2>0, <2>2 DEF PagesInv, PostedIsNew
  <2>5. ~Quiet(a)
    BY <2>0 DEF Quiet
  <2>6. /\ UNCHANGED <<kind, mounted, shown, visits, home, lists, hung, crossed>> /\ pollRef' \in 0..Count
        /\ overlapped' = overlapped /\ result' = Pages!NoOutcome /\ fetches' = fetches
    BY <1>t, <2>0
  <2>7. /\ overlapped' = overlapped \cup {a} \/ (overlapped' = overlapped /\ r.pending = 0 /\ r.done = 0)
        /\ fetches' = fetches \/ fetches' = fetches \cup {<<"submissions", r.for>>}
    BY <2>4, <2>6
  <2>8. a \in 1..Count /\ running' = FALSE /\ r.st = "over" /\ r.op = attempts[a].op /\ r.for = attempts[a].for
    BY <2>0, <2>2
  <2> QED
    BY <2>3, <2>5, <2>6, <2>7, <2>8, Ends
<1>4. ASSUME NEW a \in DOMAIN attempts, Pages!Settle(a) PROVE PagesInv'
  <2>0. /\ attempts[a] \in Attempt /\ attempts[a].st = "active" /\ a \in 1..Count
        /\ UNCHANGED <<kind, mounted, shown, visits, home, running, pollRef, result, fetches, lists, hung, overlapped, crossed>>
    BY <1>4, <1>t DEF Pages!Settle, Pages!user
  <2>1. PICK r \in Attempt : r = [attempts[a] EXCEPT !.settled = TRUE]
    <3>1. [attempts[a] EXCEPT !.settled = TRUE] \in Attempt
      BY <2>0 DEF Attempt, Pages!Attempts
    <3> QED
      BY <3>1
  <2>2. r.op = attempts[a].op /\ r.for = attempts[a].for /\ r.st = "active"
    BY <2>0, <2>1 DEF Attempt, Pages!Attempts
  <2>3. attempts' = [attempts EXCEPT ![a] = r]
    BY <1>4, <2>1 DEF Pages!Settle
  <2>4. overlapped = {} /\ mounted /\ r.op = "run" => pollRef' = a
    BY <2>0, <2>2 DEF PagesInv, RefHolds
  <2>5. ~Quiet(a)
    BY <2>0 DEF Quiet
  <2> QED
    BY <1>t, <2>0, <2>2, <2>3, <2>4, <2>5, GoesOn
<1>5. ASSUME NEW a \in DOMAIN attempts, Pages!Poll(a) PROVE PagesInv'
  <2>0. /\ attempts[a] \in Attempt /\ attempts[a].st = "active" /\ a \in 1..Count
        /\ attempts[a].pending + attempts[a].done < MaxPolls
        /\ UNCHANGED <<kind, mounted, shown, visits, home, running, pollRef, result, fetches, lists, hung, overlapped, crossed>>
    BY <1>5, <1>t DEF Pages!Poll, Pages!user
  <2>n. /\ attempts[a].pending \in 0..MaxPolls /\ attempts[a].done \in 0..MaxPolls
        /\ attempts[a].pending + 1 \in 0..MaxPolls /\ attempts[a].done + 1 \in 0..MaxPolls
    <3>1. attempts[a].pending \in 0..MaxPolls /\ attempts[a].done \in 0..MaxPolls
      BY <2>0, RowsAre
    <3> QED
      BY <2>0, <3>1, WebAssumption
  <2>1. PICK r \in Attempt : /\ r = IF attempts[a].settled THEN [attempts[a] EXCEPT !.done = @ + 1]
                                                           ELSE [attempts[a] EXCEPT !.pending = @ + 1]
                             /\ r.op = attempts[a].op /\ r.for = attempts[a].for /\ r.st = "active"
    <3>1. /\ [attempts[a] EXCEPT !.done = @ + 1] \in Attempt
          /\ [attempts[a] EXCEPT !.done = @ + 1].op = attempts[a].op
          /\ [attempts[a] EXCEPT !.done = @ + 1].for = attempts[a].for
          /\ [attempts[a] EXCEPT !.done = @ + 1].st = "active"
      BY <2>0, <2>n DEF Attempt, Pages!Attempts
    <3>2. /\ [attempts[a] EXCEPT !.pending = @ + 1] \in Attempt
          /\ [attempts[a] EXCEPT !.pending = @ + 1].op = attempts[a].op
          /\ [attempts[a] EXCEPT !.pending = @ + 1].for = attempts[a].for
          /\ [attempts[a] EXCEPT !.pending = @ + 1].st = "active"
      BY <2>0, <2>n DEF Attempt, Pages!Attempts
    <3> QED
      BY <3>1, <3>2
  <2>3. attempts' = [attempts EXCEPT ![a] = r]
    BY <1>5, <2>1 DEF Pages!Poll
  <2>4. overlapped = {} /\ mounted /\ r.op = "run" => pollRef' = a
    BY <2>0, <2>1 DEF PagesInv, RefHolds
  <2>5. ~Quiet(a)
    BY <2>0 DEF Quiet
  <2> QED
    BY <1>t, <2>0, <2>1, <2>3, <2>4, <2>5, GoesOn
<1>6. ASSUME NEW a \in DOMAIN attempts, Pages!AnswerPending(a) PROVE PagesInv'
  <2>0. /\ attempts[a] \in Attempt /\ attempts[a].pending > 0 /\ a \in 1..Count
        /\ UNCHANGED <<kind, mounted, shown, visits, home, running, pollRef, fetches, lists, hung, overlapped, crossed>>
        /\ result' = Pages!NoOutcome
    BY <1>6, <1>t DEF Pages!AnswerPending, Pages!user
  <2>n. attempts[a].pending - 1 \in 0..MaxPolls /\ attempts[a].pending # 0
    <3>1. attempts[a].pending \in 0..MaxPolls
      BY <2>0, RowsAre
    <3> QED
      BY <2>0, <3>1, WebAssumption
  <2>1. PICK r \in Attempt : /\ r = [attempts[a] EXCEPT !.pending = @ - 1]
                             /\ r.op = attempts[a].op /\ r.for = attempts[a].for /\ r.st = attempts[a].st
    <3>2. /\ [attempts[a] EXCEPT !.pending = @ - 1] \in Attempt
          /\ [attempts[a] EXCEPT !.pending = @ - 1].op = attempts[a].op
          /\ [attempts[a] EXCEPT !.pending = @ - 1].for = attempts[a].for
          /\ [attempts[a] EXCEPT !.pending = @ - 1].st = attempts[a].st
      BY <2>0, <2>n DEF Attempt, Pages!Attempts
    <3> QED
      BY <3>2
  <2>3. attempts' = [attempts EXCEPT ![a] = r]
    BY <1>6, <2>1 DEF Pages!AnswerPending
  <2>4. overlapped = {} /\ mounted /\ r.st = "active" /\ r.op = "run" => pollRef' = a
    BY <2>0, <2>1 DEF PagesInv, RefHolds
  <2>5. ~Quiet(a) /\ r.st # "posting"
    BY <2>0, <2>1, <2>n DEF Quiet, PagesInv, PostedIsNew
  <2> QED
    BY <1>t, <2>0, <2>1, <2>3, <2>4, <2>5, GoesOn
<1>7. ASSUME NEW a \in DOMAIN attempts, Pages!AnswerDone(a) \/ Pages!PollFails(a, "pending") \/ Pages!PollFails(a, "done") PROVE PagesInv'
  <2>0. /\ attempts[a] \in Attempt /\ a \in 1..Count /\ attempts[a].pending \in 0..MaxPolls
        /\ attempts[a].done \in 0..MaxPolls
    BY <1>t, RowsAre
  <2>1. PICK rest, st :
                    /\ \/ attempts[a].done > 0 /\ rest = [attempts[a] EXCEPT !.done = @ - 1]
                       \/ attempts[a].pending > 0 /\ rest = [attempts[a] EXCEPT !.pending = @ - 1]
                    /\ Pages!End(a, rest, st)
                    /\ UNCHANGED <<kind, mounted, shown, visits, home, lists, hung, crossed>>
                    /\ \/ st = "answered" /\ result' = IF mounted THEN [result EXCEPT ![attempts[a].op] = a] ELSE result
                       \/ st = "over" /\ result' = Pages!NoOutcome
                    /\ \/ fetches' = fetches \cup {<<"submissions", attempts[a].for>>}
                       \/ fetches' = fetches
    <3>1. CASE Pages!AnswerDone(a)
      BY <3>1 DEF Pages!AnswerDone, Pages!user
    <3>2. CASE Pages!PollFails(a, "pending")
      BY <3>2 DEF Pages!PollFails, Pages!user
    <3>3. CASE Pages!PollFails(a, "done")
      BY <3>3 DEF Pages!PollFails, Pages!user
    <3> QED
      BY <1>7, <3>1, <3>2, <3>3
  <2>2. rest \in Attempt /\ rest.op = attempts[a].op /\ rest.for = attempts[a].for
    <3>1. attempts[a].done > 0 => attempts[a].done - 1 \in 0..MaxPolls
      BY <2>0, WebAssumption
    <3>2. attempts[a].pending > 0 => attempts[a].pending - 1 \in 0..MaxPolls
      BY <2>0, WebAssumption
    <3> QED
      BY <2>0, <2>1, <3>1, <3>2 DEF Attempt, Pages!Attempts
  <2>3. PICK r \in Attempt : /\ r = [rest EXCEPT !.st = st]
                             /\ r.op = attempts[a].op /\ r.for = attempts[a].for /\ r.st = st
                             /\ r.pending = rest.pending /\ r.done = rest.done
    <3>0. st \in {"answered", "over"}
      BY <2>1
    <3>1. /\ [rest EXCEPT !.st = st] \in Attempt
          /\ [rest EXCEPT !.st = st].op = attempts[a].op
          /\ [rest EXCEPT !.st = st].for = attempts[a].for
          /\ [rest EXCEPT !.st = st].st = st
          /\ [rest EXCEPT !.st = st].pending = rest.pending
          /\ [rest EXCEPT !.st = st].done = rest.done
      BY <2>2, <3>0 DEF Attempt, Pages!Attempts
    <3> QED
      BY <3>1
  <2>4. /\ attempts' = [attempts EXCEPT ![a] = r] /\ running' = FALSE
        /\ pollRef' = IF rest.op = "run" THEN 0 ELSE pollRef
        /\ overlapped' = IF rest.pending + rest.done > 0 THEN overlapped \cup {a} ELSE overlapped
    BY <2>1, <2>3 DEF Pages!End
  <2>5. overlapped' = overlapped \cup {a} \/ (overlapped' = overlapped /\ r.pending = 0 /\ r.done = 0)
    <3>1. rest.pending \in 0..MaxPolls /\ rest.done \in 0..MaxPolls
      BY <2>2, RowsAre
    <3> QED
      <4>1. rest.pending \in Nat /\ rest.done \in Nat
        BY <3>1, WebAssumption
      <4>2. CASE rest.pending + rest.done > 0
        BY <2>4, <4>2
      <4>3. CASE ~(rest.pending + rest.done > 0)
        <5>1. rest.pending = 0 /\ rest.done = 0
          BY <4>1, <4>3
        <5> QED
          BY <2>3, <2>4, <4>3, <5>1
      <4> QED
        BY <4>2, <4>3
  <2>6. pollRef' \in 0..Count
    BY <1>t, <2>4
  <2>7. ~Quiet(a)
    BY <2>1 DEF Quiet
  <2>8. /\ \/ r.st = "answered" /\ result' = IF mounted THEN [result EXCEPT ![r.op] = a] ELSE result
           \/ r.st = "over" /\ result' = Pages!NoOutcome
        /\ fetches' = fetches \/ fetches' = fetches \cup {<<"submissions", r.for>>}
        /\ r.st \in {"answered", "over"}
    <3>1. r.op = attempts[a].op /\ r.for = attempts[a].for /\ r.st = st
      BY <2>3
    <3>2. \/ r.st = "answered" /\ result' = IF mounted THEN [result EXCEPT ![r.op] = a] ELSE result
          \/ r.st = "over" /\ result' = Pages!NoOutcome
      BY <2>1, <3>1
    <3>3. fetches' = fetches \/ fetches' = fetches \cup {<<"submissions", r.for>>}
      BY <2>1, <3>1
    <3> QED
      BY <3>2, <3>3
  <2>9. UNCHANGED <<kind, mounted, shown, visits, home, lists, hung, crossed>>
    BY <2>1
  <2> QED
    BY <2>0, <2>3, <2>4, <2>5, <2>6, <2>7, <2>8, <2>9, Ends
<1>8. ASSUME NEW f \in Lists, NEW p \in Problems, Pages!FetchEnds(f, p) PROVE PagesInv'
  <2>0. /\ <<f, p>> \in fetches /\ fetches' = fetches \ {<<f, p>>}
        /\ \/ mounted /\ lists' = [lists EXCEPT ![f] = {p}] /\ crossed' = crossed
           \/ ~mounted /\ UNCHANGED <<lists, crossed>>
           \/ crossed' = TRUE /\ lists' = lists
        /\ UNCHANGED <<kind, mounted, shown, visits, home, running, attempts, pollRef, result, hung, overlapped>>
    BY <1>8 DEF Pages!FetchEnds, Pages!user
  <2>1. Count' = Count /\ \A a : Quiet(a)' = Quiet(a) /\ Apart(a)' = Apart(a)
    BY <2>0 DEF Count, Pages!N, Quiet, Apart
  <2>2. PagesTyped'
    <3>1. lists' \in [Lists -> SUBSET Problems] /\ crossed' \in BOOLEAN
      BY <2>0 DEF PagesInv, PagesTyped
    <3> QED
      BY <2>0, <2>1, <3>1 DEF PagesInv, PagesTyped
  <2>3. OthersAreQuiet' /\ PostedIsNew' /\ RefHolds'
    BY <2>0, <2>1 DEF PagesInv, OthersAreQuiet, PostedIsNew, RefHolds
  <2>4. ResultsFit' /\ Told' /\ OpsFit' /\ LeftBehind'
    <3>1. ResultsFit'
      BY <2>0, <2>1 DEF PagesInv, ResultsFit, Apart
    <3> QED
      BY <2>0, <2>1, <3>1 DEF PagesInv, Told, OpsFit, LeftBehind, Pages!Ops
  <2>5. ForShown'
    BY <2>0, <2>1 DEF PagesInv, ForShown
  <2>6. Followed'
    <3> SUFFICES ASSUME ~crossed', mounted, NEW g \in Lists
                 PROVE  lists'[g] = {shown} \/ <<g, shown>> \in fetches'
      BY <2>0 DEF Followed
    <3>1. lists' = [lists EXCEPT ![f] = {p}] /\ crossed' = crossed /\ p = shown
      <4>1. lists' = [lists EXCEPT ![f] = {p}] /\ crossed' = crossed
        BY <2>0
      <4> QED
        BY <2>0, <4>1 DEF PagesInv, ForShown
    <3>2. lists \in [Lists -> SUBSET Problems]
      BY DEF PagesInv, PagesTyped
    <3>3. CASE g = f
      BY <3>1, <3>2, <3>3
    <3>4. CASE g # f
      <4>1. lists[g] = {shown} \/ <<g, shown>> \in fetches
        BY <3>1 DEF PagesInv, Followed
      <4> QED
        BY <2>0, <3>1, <3>2, <3>4, <4>1
    <3> QED
      BY <3>3, <3>4
  <2> QED
    BY <2>2, <2>3, <2>4, <2>5, <2>6 DEF PagesInv
<1>9. ASSUME NEW p \in Problems, Pages!GoTo(p) PROVE PagesInv'
  <2>0. /\ mounted /\ visits < MaxVisits /\ visits' = visits + 1 /\ shown' = p
        /\ fetches' = fetches \cup (Lists \X {p})
        /\ crossed' = (crossed \/ fetches # {} \/ Pages!UnderWay # {})
        /\ UNCHANGED <<kind, mounted, home, running, attempts, pollRef, result, lists, hung, overlapped>>
    BY <1>9 DEF Pages!GoTo, Lists
  <2>1. Count' = Count /\ \A a : Quiet(a)' = Quiet(a) /\ Apart(a)' = Apart(a)
    BY <2>0 DEF Count, Pages!N, Quiet, Apart
  <2>2. PagesTyped'
    <3>1. visits' \in 0..MaxVisits
      BY <2>0, WebAssumption DEF PagesInv, PagesTyped
    <3>2. crossed' \in BOOLEAN
      BY <2>0, Zenon
    <3>3. fetches' \subseteq Lists \X Problems
      BY <2>0 DEF PagesInv, PagesTyped
    <3> QED
      BY <2>0, <2>1, <3>1, <3>2, <3>3 DEF PagesInv, PagesTyped
  <2>3. OthersAreQuiet' /\ PostedIsNew' /\ RefHolds'
    BY <2>0, <2>1 DEF PagesInv, OthersAreQuiet, PostedIsNew, RefHolds
  <2>4. ResultsFit' /\ Told' /\ OpsFit' /\ LeftBehind'
    <3>1. ResultsFit'
      BY <2>0, <2>1 DEF PagesInv, ResultsFit, Apart
    <3> QED
      BY <2>0, <2>1, <3>1 DEF PagesInv, Told, OpsFit, LeftBehind, Pages!Ops
  <2>5. ForShown'
    <3> SUFFICES ASSUME ~crossed'
                 PROVE  /\ \A x \in fetches' : x[2] = p
                        /\ \A b \in 1..Count : Quiet(b)
      BY <2>0, <2>1 DEF ForShown
    <3>1. fetches = {} /\ Pages!UnderWay = {}
      BY <2>0
    <3>2. ASSUME NEW b \in 1..Count PROVE Quiet(b)
      <4>1. /\ attempts[b].pending \in 0..MaxPolls /\ attempts[b].done \in 0..MaxPolls
            /\ attempts[b].st \in {"posting", "active", "answered", "over"}
        BY <1>t, RowsAre
      <4>2. attempts[b].st \notin {"posting", "active"} /\ ~(attempts[b].pending + attempts[b].done > 0)
        BY <3>1 DEF Pages!UnderWay, Count
      <4> QED
        BY <4>1, <4>2, WebAssumption DEF Quiet
    <3> QED
      BY <2>0, <3>1, <3>2
  <2>6. Followed'
    BY <2>0 DEF Followed
  <2> QED
    BY <2>2, <2>3, <2>4, <2>5, <2>6 DEF PagesInv
<1>10. CASE Pages!Unmount
  <2>0. /\ mounted' = FALSE /\ pollRef' = 0
        /\ attempts' = [a \in 1..Count |-> IF a = pollRef THEN [attempts[a] EXCEPT !.st = "over"] ELSE attempts[a]]
        /\ UNCHANGED <<kind, shown, visits, home, running, result, fetches, lists, hung, overlapped, crossed>>
    BY <1>10 DEF Pages!Unmount, Count
  <2>1. Count' = Count
    <3>1. DOMAIN attempts' = DOMAIN attempts
      BY <1>t, <2>0
    <3> QED
      BY <3>1 DEF Count, Pages!N
  <2>2. \A b \in 1..Count : /\ attempts'[b] \in Attempt
                            /\ attempts'[b].op = attempts[b].op /\ attempts'[b].for = attempts[b].for
                            /\ attempts'[b].pending = attempts[b].pending /\ attempts'[b].done = attempts[b].done
                            /\ attempts'[b].st = "over" \/ attempts'[b] = attempts[b]
    <3> SUFFICES ASSUME NEW b \in 1..Count
                 PROVE  /\ attempts'[b] \in Attempt
                        /\ attempts'[b].op = attempts[b].op /\ attempts'[b].for = attempts[b].for
                        /\ attempts'[b].pending = attempts[b].pending /\ attempts'[b].done = attempts[b].done
                        /\ attempts'[b].st = "over" \/ attempts'[b] = attempts[b]
      OBVIOUS
    <3>1. attempts[b] \in Attempt
      BY <1>t
    <3>2. attempts'[b] = [attempts[b] EXCEPT !.st = "over"] \/ attempts'[b] = attempts[b]
      BY <2>0
    <3> QED
      BY <3>1, <3>2 DEF Attempt, Pages!Attempts
  <2>3. PagesTyped'
    <3>1. attempts' \in [1..Count -> Attempt]
      <4>1. attempts' = [a \in 1..Count |-> attempts'[a]]
        BY <2>0
      <4> QED
        BY <2>2, <4>1
    <3>2. 0 \in 0..Count
      BY <1>t
    <3> QED
      BY <2>0, <2>1, <3>1, <3>2 DEF PagesInv, PagesTyped
  <2>4. OthersAreQuiet' /\ RefHolds' /\ Told' /\ LeftBehind'
    BY <2>0 DEF OthersAreQuiet, RefHolds, Told, LeftBehind
  <2>9. OpsFit'
    BY <2>0, <2>1, <2>2 DEF PagesInv, OpsFit, Pages!Ops
  <2>5. PostedIsNew'
    BY <2>1, <2>2 DEF PagesInv, PostedIsNew
  <2>6. ResultsFit'
    <3> SUFFICES ASSUME NEW op \in Kinds, result[op] # 0
                 PROVE  /\ attempts'[result[op]].op = op
                        /\ \A b \in 1..Count : b > result[op] /\ attempts'[b].op = op => ~Apart(result[op])'
      BY <2>0, <2>1 DEF ResultsFit
    <3>1. result[op] \in 1..Count
      BY <1>t DEF PagesInv, PagesTyped
    <3>2. Apart(result[op])' = Apart(result[op])
      BY <2>0 DEF Apart
    <3> QED
      BY <2>2, <3>1, <3>2 DEF PagesInv, ResultsFit
  <2>7. ForShown'
    <3>1. \A b \in 1..Count : ~Quiet(b)' => ~Quiet(b)
      BY <2>2 DEF Quiet
    <3> QED
      BY <2>0, <2>1, <2>2, <3>1 DEF PagesInv, ForShown
  <2>8. Followed'
    BY <2>0 DEF Followed
  <2> QED
    BY <2>3, <2>4, <2>5, <2>6, <2>7, <2>8, <2>9 DEF PagesInv
<1>11. CASE UNCHANGED pages \/ Pages!Hang
  <2>1. /\ Count' = Count /\ \A a : Quiet(a)' = Quiet(a) /\ Apart(a)' = Apart(a)
        /\ UNCHANGED <<kind, mounted, shown, visits, home, running, attempts, pollRef, result, fetches,
                       lists, overlapped, crossed>>
        /\ hung' \in BOOLEAN
    BY <1>11 DEF pages, Pages!Hang, Pages!user, Count, Pages!N, Quiet, Apart, PagesInv, PagesTyped
  <2>2. PagesTyped' /\ OthersAreQuiet' /\ PostedIsNew'
    BY <2>1 DEF PagesInv, PagesTyped, OthersAreQuiet, PostedIsNew
  <2>3. ResultsFit' /\ RefHolds' /\ ForShown' /\ Followed'
    BY <2>1 DEF PagesInv, ResultsFit, RefHolds, ForShown, Followed, Apart
  <2>4. Told' /\ OpsFit' /\ LeftBehind'
    BY <2>1 DEF PagesInv, Told, OpsFit, LeftBehind, Pages!Ops
  <2> QED
    BY <2>2, <2>3, <2>4 DEF PagesInv
<1>12. CASE Pages!Next
  BY <1>1, <1>s, <1>2, <1>3, <1>4, <1>5, <1>6, <1>7, <1>8, <1>9, <1>10, <1>11, <1>12
  DEF Pages!Next, Pages!Attend, Pages!Reply, Pages!ReplyPending, Pages!ReplyDone, Kinds, Lists
<1> QED
  BY <1>11, <1>12

-----------------------------------------------------------------------------
(* The theorems.                                                            *)

(* Whenever a request waits for a refresh, the tab has one under way that    *)
(* another of its requests owns: handling a failed refresh, a logout or a    *)
(* second 401 never leaves a request in failedQueue for good.                *)
THEOREM WaitersAreServed == Spec => []WaitersHaveARefresh
<1>1. SessionInv => WaitersHaveARefresh
  BY SessionProperties DEF WaitersHaveARefresh
<1>2. Init => SessionInv
  BY SessionInit DEF Init
<1>3. SessionInv /\ [Session!Next]_session => SessionInv'
  BY SessionNext
<1>4. [Next]_<<part, session, pages, drafts>> => [Session!Next]_session
  BY SessionSteps
<1> QED
  BY <1>1, <1>2, <1>3, <1>4, PTL DEF Spec

(* The page of a problem shows the outcome of the last run or submission,    *)
(* its own lists, and keeps its buttons disabled while it polls, but for the *)
(* races that the property names; and the storage has the last draft of     *)
(* every code unless a tab wrote it that was behind.                         *)
THEOREM PagesStayUpToDate == Spec => []PageIsUpToDate
<1>1. PagesInv /\ DraftsInv => PageIsUpToDate
  BY PagesProperties DEF DraftsInv, PageIsUpToDate
<1>2. Init => PagesInv /\ DraftsInv
  BY PagesInit, DraftsInit DEF Init
<1>3. PagesInv /\ [Pages!Next]_pages => PagesInv'
  BY PagesNext
<1>4. DraftsInv /\ [Drafts!Next]_drafts => DraftsInv'
  BY DraftsNext
<1>5. [Next]_<<part, session, pages, drafts>> => [Pages!Next]_pages /\ [Drafts!Next]_drafts
  BY PageSteps, DraftSteps
<1> QED
  BY <1>1, <1>2, <1>3, <1>4, <1>5, PTL DEF Spec

(* Every variable of the client keeps its type: no attempt has an answer     *)
(* under way that was never asked for, and no count passes its bound.        *)
THEOREM WebIsTyped == Spec => []TypeOK
<1>1. SessionInv /\ PagesInv /\ DraftsInv => TypeOK
  BY SessionProperties, PagesProperties DEF DraftsInv, TypeOK
<1>2. Init => SessionInv /\ PagesInv /\ DraftsInv
  BY SessionInit, PagesInit, DraftsInit DEF Init
<1>3. SessionInv /\ [Session!Next]_session => SessionInv'
  BY SessionNext
<1>4. PagesInv /\ [Pages!Next]_pages => PagesInv'
  BY PagesNext
<1>5. DraftsInv /\ [Drafts!Next]_drafts => DraftsInv'
  BY DraftsNext
<1>6. /\ [Next]_<<part, session, pages, drafts>> => [Session!Next]_session
      /\ [Next]_<<part, session, pages, drafts>> => [Pages!Next]_pages /\ [Drafts!Next]_drafts
  BY SessionSteps, PageSteps, DraftSteps
<1> QED
  BY <1>1, <1>2, <1>3, <1>4, <1>5, <1>6, PTL DEF Spec

(* The same of each component by itself, with the paths that a behaviour of  *)
(* MCWeb does not take: other requests than /me in every tab (api.ts), many  *)
(* attempts before and after a change of problem, and more than two on the   *)
(* page of a problem (Problem.tsx, ContestProblem.tsx).                      *)
THEOREM EachPartAlone ==
  /\ Session!Spec => [](Session!TypeOK /\ Session!WaitersHaveARefresh)
  /\ Pages!Spec => [](Pages!TypeOK /\ Pages!PageIsUpToDate)
  /\ Drafts!Spec => [](Drafts!TypeOK /\ Drafts!DraftsAreLatest)
<1>1. Session!Spec => [](Session!TypeOK /\ Session!WaitersHaveARefresh)
  <2>1. [Session!Next]_(Session!vars) => [Session!Next]_session
    BY DEF Session!vars, session
  <2> QED
    BY <2>1, SessionInit, SessionNext, SessionProperties, PTL DEF Session!Spec
<1>2. Pages!Spec => [](Pages!TypeOK /\ Pages!PageIsUpToDate)
  <2>1. [Pages!Next]_(Pages!vars) => [Pages!Next]_pages
    BY DEF Pages!vars, pages
  <2> QED
    BY <2>1, PagesInit, PagesNext, PagesProperties, PTL DEF Pages!Spec
<1>3. Drafts!Spec => [](Drafts!TypeOK /\ Drafts!DraftsAreLatest)
  <2>1. [Drafts!Next]_(Drafts!vars) => [Drafts!Next]_drafts
    BY DEF Drafts!vars, drafts
  <2>2. DraftsInv => Drafts!TypeOK /\ Drafts!DraftsAreLatest
    BY DEF DraftsInv
  <2> QED
    BY <2>1, <2>2, DraftsInit, DraftsNext, PTL DEF Drafts!Spec
<1> QED
  BY <1>1, <1>2, <1>3
=============================================================================
