------------------------------ MODULE Accounts ------------------------------
(***************************************************************************)
(* Accounts in the core service: signing up, signing in with a password or *)
(* with Google, and the exchange of refresh tokens, each a read of the     *)
(* users table and a later write to it.  A row holds one refresh token, a  *)
(* browser one refresh cookie.  Session has the tabs around this, and the  *)
(* deployments whose pages can POST at all.                                *)
(*                                                                         *)
(* A token is a JWT whose only varying claims count seconds: two that are  *)
(* made for one user in one second are the same string.                    *)
(***************************************************************************)
EXTENDS Naturals

CONSTANTS
  Emails,
  Browsers, Requests, BrowserOf,  \* BrowserOf[r]: where a request comes from
  MaxTime                         \* bound of the clock, in seconds

VARIABLES
  now,
  users,    \* refreshToken of each user, by email; NoUser if there is none
  jar,      \* the refresh cookie of each browser
  req,
  excused,  \* ghost: browsers whose cookie may not be the one of the row
  spent,    \* ghost: tokens that were replaced in their row
  late      \* ghost: rows that changed between the read and the write of a request
vars == <<now, users, jar, req, excused, spent, late>>

NoUser == [email |-> "none", at |-> 0]
NoToken == [email |-> "none", at |-> 1]   \* NULL, and no cookie
Token(e) == [email |-> e, at |-> now]
Tokens == [email : Emails, at : 0..MaxTime]

Ops == {"signUp", "signIn", "google", "refresh"}
Idle == [at |-> "idle"]
Rows == Tokens \cup {NoUser, NoToken}
Request ==
  [at : {"find"}, op : Ops, email : Emails, token : Tokens \cup {NoToken}]
  \cup [at : {"insert"}, op : Ops, email : Emails]
  \cup [at : {"sign"}, email : Emails, seen : Rows]
  \cup [at : {"update"}, email : Emails, token : Tokens, seen : Rows]
  \cup [at : {"answer"}, email : Emails, token : Tokens]

TypeOK ==
  /\ now \in 0..MaxTime
  /\ users \in [Emails -> Rows]
  /\ jar \in [Browsers -> Tokens \cup {NoToken}]
  /\ req \in [Requests -> Request \cup {Idle}]
  /\ excused \subseteq Browsers
  /\ spent \in [Emails -> SUBSET Tokens] /\ late \subseteq Emails

Init ==
  /\ now = 0
  /\ users = [e \in Emails |-> NoUser]
  /\ jar = [b \in Browsers |-> NoToken]
  /\ req = [r \in Requests |-> Idle]
  /\ spent = [e \in Emails |-> {}] /\ late = {} /\ excused = {}
-----------------------------------------------------------------------------
Ours(b) == {r \in Requests : BrowserOf[r] = b}
Finish(r) == req' = [req EXCEPT ![r] = Idle]

\* The forms, the way back from Google, and the interceptor with its cookie.
Send(r, op, e) ==
  /\ req[r] = Idle
  /\ op = "refresh" => jar[BrowserOf[r]].email = e
  /\ req' = [req EXCEPT ![r] = [at |-> "find", op |-> op, email |-> e,
       token |-> IF op = "refresh" THEN jar[BrowserOf[r]] ELSE NoToken]]
  /\ UNCHANGED <<now, users, jar, excused, spent, late>>

\* What a request does next when it has found the row of its email, or of its
\* token.  A refresh, and a Google sign-in of somebody known, make tokens at once.
Sealed(e, row) == [at |-> "update", email |-> e, token |-> Token(e), seen |-> row]
Create(q) == [at |-> "insert", op |-> q.op, email |-> q.email]
SignUp(q, row) == IF row = NoUser THEN Create(q) ELSE Idle
SignIn(q, row) == IF row = NoUser THEN Idle ELSE [at |-> "sign", email |-> q.email, seen |-> row]
GoogleCallBack(q, row) == IF row = NoUser THEN Create(q) ELSE Sealed(q.email, row)
RefreshToken(q, row) == IF row = q.token THEN Sealed(q.email, row) ELSE Idle
Find(r) ==
  LET q == req[r]
      row == users[q.email] IN
  /\ q.at = "find"
  /\ req' = [req EXCEPT ![r] =
       CASE q.op = "signUp" -> SignUp(q, row) [] q.op = "signIn" -> SignIn(q, row)
         [] q.op = "google" -> GoogleCallBack(q, row) [] OTHER -> RefreshToken(q, row)]
  /\ UNCHANGED <<now, users, jar, excused, spent, late>>

\* createUser after the hash; the unique email turns a race into an error.
\* Google's sign-in goes on to tokens, the form asks to sign in.
Insert(r) ==
  LET q == req[r]
      created == users[q.email] = NoUser IN
  /\ q.at = "insert"
  /\ users' = IF created THEN [users EXCEPT ![q.email] = NoToken] ELSE users
  /\ req' = [req EXCEPT ![r] = IF created /\ q.op = "google" THEN Sealed(q.email, NoToken) ELSE Idle]
  /\ UNCHANGED <<now, jar, excused, spent, late>>

\* bcrypt.compare, then generateTokens.
Sign(r) ==
  /\ req[r].at = "sign"
  /\ req' = [req EXCEPT ![r] = Sealed(req[r].email, req[r].seen)]
  /\ UNCHANGED <<now, users, jar, excused, spent, late>>

\* updateRefreshToken, by id.
Update(r) ==
  LET q == req[r]
      e == q.email
      ours == BrowserOf[r]
      changed == users[e] # q.token
      overlaps == \E p \in Ours(ours) : req[p].at = "answer" /\ req[p].token # q.token IN
  /\ q.at = "update"
  /\ users' = [users EXCEPT ![e] = q.token]
  /\ req' = [req EXCEPT ![r] = [at |-> "answer", email |-> e, token |-> q.token]]
  /\ excused' = excused \cup (IF changed THEN Browsers \ {ours} ELSE {})
                        \cup (IF overlaps THEN {ours} ELSE {})
  /\ spent' = [spent EXCEPT ![e] = IF changed /\ users[e] # NoToken THEN @ \cup {users[e]} ELSE @]
  /\ late' = IF users[e] # q.seen THEN late \cup {e} ELSE late
  /\ UNCHANGED <<now, jar>>

\* setAuthCookies arrives.  A browser with the row's token has nothing to excuse
\* unless more of its own requests are under way.
Deliver(r) ==
  LET b == BrowserOf[r] IN
  /\ req[r].at = "answer"
  /\ jar' = [jar EXCEPT ![b] = req[r].token]
  /\ Finish(r)
  /\ excused' = IF users[req[r].email] = req[r].token /\ \A p \in Ours(b) \ {r} : req[p] = Idle
                THEN excused \ {b} ELSE excused
  /\ UNCHANGED <<now, users, spent, late>>

\* The browser goes away or times out, the database or a check of Google fails.
Fail(r) ==
  /\ req[r] # Idle /\ Finish(r)
  /\ excused' = excused \cup (IF req[r].at = "answer" THEN {BrowserOf[r]} ELSE {})
  /\ UNCHANGED <<now, users, jar, spent, late>>

\* clearAuthCookies; the row keeps its token.
Logout(b) ==
  /\ jar[b] # NoToken /\ jar' = [jar EXCEPT ![b] = NoToken]
  /\ UNCHANGED <<now, users, req, excused, spent, late>>

Tick == now < MaxTime /\ now' = now + 1 /\ UNCHANGED <<users, jar, req, excused, spent, late>>

Next ==
  \/ Tick
  \/ \E b \in Browsers : Logout(b)
  \/ \E r \in Requests :
       \/ \E op \in Ops, e \in Emails : Send(r, op, e)
       \/ Find(r) \/ Insert(r) \/ Sign(r) \/ Update(r) \/ Deliver(r) \/ Fail(r)
Spec == Init /\ [][Next]_vars
-----------------------------------------------------------------------------
(* A browser with nothing under way can exchange its cookie, unless the     *)
(* account was used in another browser, an answer was lost, or two of its   *)
(* own requests overlapped with tokens of different seconds.  Two tabs that *)
(* exchange one token in the same second get the same new one.              *)
CookieIsCurrent ==
  \A b \in Browsers :
    (\A r \in Ours(b) : req[r] = Idle) /\ jar[b] # NoToken /\ b \notin excused =>
      users[jar[b].email] = jar[b]

(* A token that was replaced does not come back into its row, where it     *)
(* could be exchanged again, unless a request that had read the row before *)
(* another one wrote it puts back its own, older token: nothing else can,  *)
(* not even a second that makes the same token twice.                      *)
SpentStaysSpent ==
  \A e \in Emails : users[e] \in spent[e] => e \in late
=============================================================================
