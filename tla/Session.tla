------------------------------ MODULE Session ------------------------------
(***************************************************************************)
(* A user's session: the tabs of one browser, which share its cookies, the *)
(* axios interceptors of each tab, and the auth endpoints of the core with *)
(* the one refresh token that a user's row holds.  Another device signs in *)
(* to the same account.                                                    *)
(*                                                                         *)
(* A request is answered at the server in one step and delivered to the    *)
(* tab in another; whatever is delivered runs to its next await.  All that *)
(* matters of a refresh token is whether it is the one in the row.         *)
(***************************************************************************)
EXTENDS Naturals, FiniteSets

CONSTANTS
  Tabs,
  Calls, Me,   \* the GETs of protected data a tab has under way; /auth/me
  Deployments, \* whether the pages can read the csrf cookie, see PostPasses
  MaxTurns     \* bound on how often the access token expires or the user signs in

VARIABLES
  readable,  \* the deployment
  access,    \* cookie accessToken is there; it and its JWT last 15 minutes
  jar,       \* cookie refreshToken: none, the row's users.refreshToken, or an old one
  page,      \* of each tab: /auth, or any other
  refreshing, queue,  \* isRefreshing, failedQueue
  call,      \* each GET
  refresh,   \* the tab's request to /auth/refresh
  turns
vars == <<readable, access, jar, page, refreshing, queue, call, refresh, turns>>
cookies == <<access, jar>>

Refresh == "refresh"
Idle == [st |-> "idle", retried |-> FALSE]
NoRefresh == [st |-> "none", token |-> "none"]
Tokens == {"none", "row", "old"}

TypeOK ==
  /\ readable \in Deployments /\ access \in BOOLEAN
  /\ jar \in Tokens
  /\ page \in [Tabs -> {"auth", "app"}]
  /\ refreshing \in [Tabs -> BOOLEAN]
  /\ queue \in [Tabs -> SUBSET (Calls \cup {Refresh})]
  /\ call \in [Tabs -> [Calls -> [retried : BOOLEAN,
       st : {"idle", "out", "ok", "unauthorized", "queued", "owner", "leaving"}]]]
  /\ refresh \in [Tabs -> [st : {"none", "out", "ok", "unauthorized", "failed", "waits"},
                           token : Tokens]]
  /\ turns \in 0..MaxTurns

Init ==
  /\ readable \in Deployments
  /\ jar \in {"none", "row"} /\ access = (jar = "row")
  /\ page = [t \in Tabs |-> "app"]
  /\ refreshing = [t \in Tabs |-> FALSE]
  /\ queue = [t \in Tabs |-> {}]
  /\ call = [t \in Tabs |-> [c \in Calls |-> Idle]]
  /\ refresh = [t \in Tabs |-> NoRefresh]
  /\ turns = 0
-----------------------------------------------------------------------------
(* The core.  csrfProtection sees the whole path, /api/v1/auth/..., which   *)
(* does not start with /auth/, so no POST is exempt: it passes with the     *)
(* token of the csrf cookie.  That cookie has the path /api, so pages that  *)
(* live elsewhere, as the repository's do, cannot read it.                  *)
PostPasses == readable

\* updateRefreshToken: a new token in the row makes every other one old.
Aged(token) == IF token = "row" THEN "old" ELSE token
AgedRefresh == [t \in Tabs |-> [refresh[t] EXCEPT !.token = Aged(@)]]

\* signIn: tokens for the row and the cookies, and the dashboard.
SignIn(t) ==
  /\ page[t] = "auth" /\ PostPasses
  /\ turns < MaxTurns /\ turns' = turns + 1
  /\ jar' = "row" /\ access' = TRUE /\ refresh' = AgedRefresh
  /\ page' = [page EXCEPT ![t] = "app"]
  /\ UNCHANGED <<readable, refreshing, queue, call>>

SignInElsewhere ==
  /\ jar' = Aged(jar) /\ refresh' = AgedRefresh
  /\ UNCHANGED <<readable, access, page, refreshing, queue, call, turns>>

\* The cookie and the token in it expire together.
AccessExpires ==
  /\ access /\ access' = FALSE
  /\ turns < MaxTurns /\ turns' = turns + 1
  /\ UNCHANGED <<readable, jar, page, refreshing, queue, call, refresh>>

\* verifyToken, in front of every protected GET.
Answer(t, c) ==
  /\ call[t][c].st = "out"
  /\ call' = [call EXCEPT ![t][c].st = IF access THEN "ok" ELSE "unauthorized"]
  /\ UNCHANGED <<readable, cookies, page, refreshing, queue, refresh, turns>>

\* /auth/refresh: without the cookie a plain error, 401 for a token that is in
\* no row, and the right one is exchanged.
AnswerRefresh(t) ==
  LET answer == CASE ~PostPasses \/ refresh[t].token = "none" -> "failed"
                  [] PostPasses /\ refresh[t].token = "old" -> "unauthorized"
                  [] OTHER -> "ok" IN
  /\ refresh[t].st = "out"
  /\ IF answer = "ok"
     THEN jar' = Aged(jar) /\ refresh' = [AgedRefresh EXCEPT ![t] = [st |-> "ok", token |-> "row"]]
     ELSE refresh' = [refresh EXCEPT ![t].st = answer] /\ UNCHANGED jar
  /\ UNCHANGED <<readable, access, page, refreshing, queue, call, turns>>
-----------------------------------------------------------------------------
(* A tab.  AuthInitializer and the guards ask for /auth/me on every page,   *)
(* the pages behind a guard for the rest.                                   *)
Send(t, c) ==
  /\ call[t][c] = Idle /\ (c = Me \/ page[t] = "app")
  /\ call' = [call EXCEPT ![t][c].st = "out"]
  /\ UNCHANGED <<readable, cookies, page, refreshing, queue, refresh, turns>>

Settle(t, c) == call' = [call EXCEPT ![t][c] = Idle]

\* checkAuth puts the user into the store, and /auth gives way to the dashboard.
DeliverOk(t, c) ==
  /\ call[t][c].st = "ok"
  /\ Settle(t, c)
  /\ page' = [page EXCEPT ![t] = IF c = Me THEN "app" ELSE @]
  /\ UNCHANGED <<readable, cookies, refreshing, queue, refresh, turns>>

\* No answer within 15 seconds, or a second 401: the page gets the error, and
\* the guard whose check failed goes to /auth.
Reject(t, c) ==
  /\ call[t][c].st = "out" \/ call[t][c] = [st |-> "unauthorized", retried |-> TRUE]
  /\ Settle(t, c)
  /\ page' = [page EXCEPT ![t] = IF c = Me THEN "auth" ELSE @]
  /\ UNCHANGED <<readable, cookies, refreshing, queue, refresh, turns>>

\* The first 401 refreshes, the ones that follow it wait.
DeliverUnauthorized(t, c) ==
  /\ call[t][c] = [st |-> "unauthorized", retried |-> FALSE]
  /\ IF refreshing[t]
     THEN /\ call' = [call EXCEPT ![t][c].st = "queued"]
          /\ queue' = [queue EXCEPT ![t] = @ \cup {c}]
          /\ UNCHANGED <<refreshing, refresh>>
     ELSE /\ call' = [call EXCEPT ![t][c] = [st |-> "owner", retried |-> TRUE]]
          /\ refreshing' = [refreshing EXCEPT ![t] = TRUE]
          /\ refresh' = [refresh EXCEPT ![t] = [st |-> "out", token |-> jar]]
          /\ UNCHANGED queue
  /\ UNCHANGED <<readable, cookies, page, turns>>

\* The new cookies, then processQueue(null): all who waited are sent again.
DeliverRefresh(t) ==
  /\ refresh[t].st = "ok"
  /\ jar' = refresh[t].token /\ access' = TRUE
  /\ refresh' = [refresh EXCEPT ![t] = NoRefresh]
  /\ refreshing' = [refreshing EXCEPT ![t] = FALSE]
  /\ queue' = [queue EXCEPT ![t] = {}]
  /\ call' = [call EXCEPT ![t] = [c \in Calls |->
       IF c \in queue[t] \/ @[c].st = "owner" THEN [@[c] EXCEPT !.st = "out"] ELSE @[c]]]
  /\ UNCHANGED <<readable, page, turns>>

\* The refresh goes through the same interceptor: its own 401 waits for it.
QueueRefresh(t) ==
  /\ refresh[t].st = "unauthorized"
  /\ refresh' = [refresh EXCEPT ![t].st = "waits"]
  /\ queue' = [queue EXCEPT ![t] = @ \cup {Refresh}]
  /\ UNCHANGED <<readable, cookies, page, refreshing, call, turns>>

\* Any other error, or no answer though the core may have exchanged the token:
\* processQueue(error), then the owner logs out.
ForgetTheQueue(t) ==   \* Mutant: the failure is not passed on to those who wait.
  /\ refresh[t].st \in {"failed", "out", "ok"}
  /\ refresh' = [refresh EXCEPT ![t] = NoRefresh]
  /\ refreshing' = [refreshing EXCEPT ![t] = FALSE]
  /\ call' = [call EXCEPT ![t] = [c \in Calls |->
       IF @[c].st = "owner" THEN [@[c] EXCEPT !.st = "leaving"] ELSE @[c]]]
  /\ UNCHANGED <<readable, cookies, page, queue, turns>>
RefreshFails(t) ==
  /\ refresh[t].st \in {"failed", "out", "ok"}
  /\ refresh' = [refresh EXCEPT ![t] = NoRefresh]
  /\ refreshing' = [refreshing EXCEPT ![t] = FALSE]
  /\ queue' = [queue EXCEPT ![t] = {}]
  /\ call' = [call EXCEPT ![t] = [c \in Calls |->
       CASE c \in queue[t] -> Idle
         [] @[c].st = "owner" -> [@[c] EXCEPT !.st = "leaving"]
         [] OTHER -> @[c]]]
  /\ UNCHANGED <<readable, cookies, page, turns>>

\* /auth/logout answered or not: on any other page the browser loads /auth,
\* which ends every script of the tab.
Logout(t, c) ==
  /\ call[t][c].st = "leaving"
  /\ IF PostPasses THEN jar' = "none" /\ access' = FALSE ELSE UNCHANGED cookies
  /\ IF page[t] = "auth" THEN Settle(t, c) /\ UNCHANGED <<page, refreshing, queue, refresh>>
     ELSE /\ page' = [page EXCEPT ![t] = "auth"]
          /\ refreshing' = [refreshing EXCEPT ![t] = FALSE]
          /\ queue' = [queue EXCEPT ![t] = {}]
          /\ call' = [call EXCEPT ![t] = [d \in Calls |-> Idle]]
          /\ refresh' = [refresh EXCEPT ![t] = NoRefresh]
  /\ UNCHANGED <<readable, turns>>

Deliver(t, c) == DeliverOk(t, c) \/ Reject(t, c) \/ DeliverUnauthorized(t, c) \/ Logout(t, c)
DeliverAny(t) == DeliverRefresh(t) \/ QueueRefresh(t) \/ RefreshFails(t)

Next ==
  \/ SignInElsewhere \/ AccessExpires
  \/ \E t \in Tabs :
       \/ SignIn(t) \/ AnswerRefresh(t) \/ DeliverAny(t)
       \/ \E c \in Calls : Send(t, c) \/ Answer(t, c) \/ Deliver(t, c)

\* Answers and timeouts come; nobody has to send or sign in.
Fairness ==
  \A t \in Tabs :
    /\ WF_vars(DeliverAny(t))
    /\ \A c \in Calls : WF_vars(Deliver(t, c))

Spec == Init /\ [][Next]_vars
FairSpec == Spec /\ Fairness
-----------------------------------------------------------------------------
(* Nobody waits for a refresh that is over: whenever a request is queued,   *)
(* the tab is refreshing, the refresh has an owner, and its answer is still *)
(* to come or is itself in the queue.                                       *)
WaitersHaveARefresh ==
  \A t \in Tabs :
    /\ refreshing[t] <=> refresh[t].st # "none"
    /\ refreshing[t] <=> \E c \in Calls : call[t][c].st = "owner"
    /\ queue[t] \cap Calls = {c \in Calls : call[t][c].st = "queued"}
    /\ queue[t] # {} => refreshing[t]

(* Every request of a page ends, unless the refresh that it is behind got a *)
(* 401 of its own and waits for itself.                                     *)
RequestsEnd ==
  \A t \in Tabs, c \in Calls :
    call[t][c].st # "idle" ~> call[t][c].st = "idle" \/ Refresh \in queue[t]
=============================================================================
