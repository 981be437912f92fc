--------------------------- MODULE EdgeCacheProofs ---------------------------
(* Proofs about EdgeCache for any number of gateways and requests, any TTL *)
(* and any bounds.                                                         *)
EXTENDS EdgeCache, TLAPS

\* When the setex of an entry was applied.
Applied(e) == e.body + e.waited

\* What bounds the age of an entry: an L2 entry expires one TTL after its setex was
\* applied, an L1 entry at most two, a request that was told of an L2 entry arrived
\* before that entry expired, and no body is of a later time than now.
Ages ==
  /\ l2.until <= Applied(l2) + TTL
  /\ \A g \in Gateways : l1[g].until <= Applied(l1[g]) + 2 * TTL
  /\ \A r \in Requests : since[r] <= clock
  /\ \A r \in Requests : got[r] # None => since[r] <= Applied(got[r]) + TTL
  /\ \A w \in writes : w.body <= clock

\* Only a request that has been told holds what Redis answered.
GotIsTold == \A r \in Requests : got[r] # None => at[r] = "told"

\* The table holds requests of its own process that lead or threw.
FlightHoldsLeaders ==
  \A g \in Gateways : flight[g] # Nobody =>
    GatewayOf[flight[g]] = g /\ at[flight[g]] \in {"leading", "threw"}

\* The inductive invariant.
IInv ==
  TypeOK /\ Ages /\ GotIsTold /\ OneLeader /\ FlightHoldsLeaders /\ FollowersAreHeard

USE EdgeCacheAssumption

\* An entry written now or from the arrival of a request is an entry.
LEMMA NewEntry ==
  ASSUME NEW b \in Clock, NEW t \in Clock
  PROVE  [body |-> b, until |-> t + TTL, waited |-> 0] \in Entries
BY DEF Clock, Entries

LEMMA NoneIsAnEntry == None \in Entries
BY DEF None, Entries, Clock

LEMMA InitHolds == Init => IInv
<1> SUFFICES ASSUME Init PROVE IInv
  OBVIOUS
<1>1. TypeOK
  BY NoneIsAnEntry DEF Init, TypeOK, Clock, Places
<1>2. Ages /\ GotIsTold
  BY DEF Init, Ages, Applied, GotIsTold, None
<1>3. OneLeader /\ FlightHoldsLeaders /\ FollowersAreHeard
  BY DEF Init, OneLeader, FlightHoldsLeaders, FollowersAreHeard
<1> QED
  BY <1>1, <1>2, <1>3 DEF IInv

-----------------------------------------------------------------------------
\* Forgetting the variables of some requests keeps their types and ages.
LEMMA ForgetKeeps ==
  ASSUME TypeOK, Ages, NEW over \in SUBSET Requests, Forget(over), clock' = clock
  PROVE  /\ since' \in [Requests -> Clock] /\ got' \in [Requests -> Entries]
         /\ \A r \in Requests : since'[r] <= clock'
         /\ \A r \in Requests : got'[r] # None => since'[r] <= Applied(got'[r]) + TTL
<1>1. /\ since \in [Requests -> Clock] /\ got \in [Requests -> Entries] /\ clock \in Clock
      /\ \A r \in Requests : since[r] <= clock
      /\ \A r \in Requests : got[r] # None => since[r] <= Applied(got[r]) + TTL
  BY DEF TypeOK, Ages
<1>2. 0 \in Clock /\ 0 <= clock
  BY <1>1 DEF Clock
<1> QED
  BY <1>1, <1>2, NoneIsAnEntry DEF Forget

\* Every step keeps the types.
LEMMA TypeStep ==
  ASSUME IInv, [Next]_vars
  PROVE  TypeOK'
<1> USE DEF IInv, TypeOK
<1>1. ASSUME NEW r \in Requests, L1Hit(r) PROVE TypeOK'
  BY <1>1 DEF L1Hit, Goto, caches, locals, Places, Ended
<1>2. ASSUME NEW r \in Requests, L1Miss(r) PROVE TypeOK'
  BY <1>2 DEF L1Miss, Goto, caches, Places, Waiting
<1>3. ASSUME NEW r \in Requests, RedisGet(r) PROVE TypeOK'
  BY <1>3, NoneIsAnEntry DEF RedisGet, Goto, caches, Places, Waiting
<1>4. ASSUME NEW r \in Requests, RedisFails(r) PROVE TypeOK'
  BY <1>4, ForgetKeeps DEF RedisFails, Goto, caches, Places, Waiting
<1>5. ASSUME NEW r \in Requests, L2Hit(r) PROVE TypeOK'
  <2>1. [got[r] EXCEPT !.until = since[r] + TTL] \in Entries
    BY DEF Entries, Clock
  <2> QED
    BY <1>5, <2>1, ForgetKeeps DEF L2Hit, Goto, Places, Ended
<1>6. ASSUME NEW r \in Requests, Coalesce(r) PROVE TypeOK'
  BY <1>6, ForgetKeeps DEF Coalesce, Goto, caches, Places, Waiting
<1>7. ASSUME NEW r \in Requests, Lead(r) PROVE TypeOK'
  BY <1>7, ForgetKeeps DEF Lead, Goto, caches, Places, Waiting
<1>8. ASSUME NEW r \in Requests, SendBody(r) PROVE TypeOK'
  <2>1. [body |-> clock, until |-> clock + TTL, waited |-> 0] \in Entries
    BY NewEntry
  <2>2. [by |-> GatewayOf[r], body |-> clock] \in Writes
    BY DEF Writes
  <2> QED
    BY <1>8, <2>1, <2>2 DEF SendBody, Emit, Land, locals, Places, Ended
<1>9. ASSUME NEW r \in Requests, SendError(r) PROVE TypeOK'
  BY <1>9 DEF SendError, Emit, Land, caches, locals, Places, Ended
<1>10. ASSUME NEW r \in Requests, SendErrorUnheard(r) PROVE TypeOK'
  BY <1>10 DEF SendErrorUnheard, Goto, caches, locals, Places
<1>11. ASSUME NEW r \in Requests, AnswerDirect(r) PROVE TypeOK'
  BY <1>11 DEF AnswerDirect, Goto, caches, locals, Places, Ended
<1>12. ASSUME NEW g \in Gateways, Purge(g) PROVE TypeOK'
  BY <1>12, NoneIsAnEntry DEF Purge, Upset, locals
<1>13. ASSUME NEW g \in Gateways, Stop(g), upsets' \in 0..MaxUpsets PROVE TypeOK'
  <2>1. writes' \subseteq Writes
    BY <1>13 DEF Stop, Writes
  <2> QED
    BY <1>13, <2>1, ForgetKeeps, NoneIsAnEntry DEF Stop, Places, Ended
<1>14. ASSUME NEW g \in Gateways, Restart(g) PROVE TypeOK'
  BY <1>13, <1>14 DEF Restart, Upset
<1>15. ASSUME NEW g \in Gateways, ExitAfterThrow(g) PROVE TypeOK'
  BY <1>13, <1>15 DEF ExitAfterThrow
<1>16. ASSUME Tick PROVE TypeOK'
  BY <1>16 DEF Tick, caches, locals, Clock
<1>17. CASE UNCHANGED vars
  BY <1>17 DEF vars, caches, locals
<1>18. ASSUME NEW w \in writes, ApplySetex(w) PROVE TypeOK'
  <2>1. w.body \in Clock /\ clock \in Clock /\ w.body <= clock
    BY DEF Writes, Ages
  <2>2. [body |-> w.body, until |-> clock + TTL, waited |-> clock - w.body] \in Entries
    BY <2>1 DEF Clock, Entries
  <2> QED
    BY <1>18, <2>2 DEF ApplySetex, locals
<1>19. ASSUME NEW w \in writes, SetexFails(w) PROVE TypeOK'
  BY <1>19 DEF SetexFails, locals
<1> QED
  BY <1>1, <1>2, <1>3, <1>4, <1>5, <1>6, <1>7, <1>8, <1>9, <1>10, <1>11, <1>12,
     <1>14, <1>15, <1>16, <1>17, <1>18, <1>19 DEF Next, Serve, OnReply, OnOrigin

-----------------------------------------------------------------------------
\* Every step keeps the bounds on ages.
LEMMA AgesStep ==
  ASSUME IInv, [Next]_vars
  PROVE  Ages'
<1>0. /\ clock \in Nat /\ TTL \in Nat /\ TTL > 0
      /\ Applied(l2) \in Nat /\ l2.until \in Nat
      /\ \A r \in Requests : since[r] \in Nat /\ Applied(got[r]) \in Nat
      /\ \A g \in Gateways : Applied(l1[g]) \in Nat /\ l1[g].until \in Nat
      /\ \A w \in writes : w.body \in Nat
  BY DEF IInv, TypeOK, Clock, Entries, Writes, Applied
<1>t. /\ TypeOK /\ Ages /\ since \in [Requests -> Clock] /\ got \in [Requests -> Entries]
      /\ l1 \in [Gateways -> Entries]
  BY DEF IInv, TypeOK
<1>n. Applied(None) = 0 /\ None.until = 0
  BY DEF None, Applied
<1>1. ASSUME NEW r \in Requests, L1Hit(r) PROVE Ages'
  BY <1>1, <1>t DEF L1Hit, Ages, caches, locals
<1>2. ASSUME NEW r \in Requests, L1Miss(r) PROVE Ages'
  <2>1. \A q \in Requests : since'[q] = IF q = r THEN clock ELSE since[q]
    BY <1>2, <1>t DEF L1Miss
  <2>2. got[r] = None
    BY <1>2 DEF L1Miss, IInv, GotIsTold
  <2> QED
    BY <1>0, <1>2, <1>t, <2>1, <2>2 DEF L1Miss, Ages, caches
<1>3. ASSUME NEW r \in Requests, RedisGet(r) PROVE Ages'
  <2>1. \A q \in Requests : got'[q] = IF q = r THEN (IF Live(l2) THEN l2 ELSE None) ELSE got[q]
    BY <1>3, <1>t DEF RedisGet
  <2>2. Live(l2) => since[r] <= Applied(l2) + TTL
    BY <1>0, <1>t DEF Live, Ages
  <2> QED
    BY <1>3, <1>t, <2>1, <2>2 DEF RedisGet, Ages, caches
<1>4. ASSUME NEW r \in Requests, RedisFails(r) PROVE Ages'
  BY <1>4, <1>t, ForgetKeeps DEF RedisFails, Ages, caches
<1>5. ASSUME NEW r \in Requests, L2Hit(r) PROVE Ages'
  <2>1. \A g \in Gateways : l1'[g] = IF g = GatewayOf[r]
          THEN [got[r] EXCEPT !.until = since[r] + TTL] ELSE l1[g]
    BY <1>5, <1>t DEF L2Hit
  <2>2. since[r] + TTL <= Applied(got[r]) + 2 * TTL
    BY <1>0, <1>5, <1>t DEF L2Hit, Ages
  <2>4. /\ Applied([got[r] EXCEPT !.until = since[r] + TTL]) = Applied(got[r])
        /\ [got[r] EXCEPT !.until = since[r] + TTL].until = since[r] + TTL
    BY <1>t DEF Applied, Entries
  <2>3. \A g \in Gateways : l1'[g].until <= Applied(l1'[g]) + 2 * TTL
    BY <1>t, <2>1, <2>2, <2>4 DEF Ages
  <2> QED
    BY <1>5, <1>t, <2>3, ForgetKeeps DEF L2Hit, Ages
<1>6. ASSUME NEW r \in Requests, Coalesce(r) PROVE Ages'
  BY <1>6, <1>t, ForgetKeeps DEF Coalesce, Ages, caches
<1>7. ASSUME NEW r \in Requests, Lead(r) PROVE Ages'
  BY <1>7, <1>t, ForgetKeeps DEF Lead, Ages, caches
<1>8. ASSUME NEW r \in Requests, SendBody(r) PROVE Ages'
  <2> DEFINE entry == [body |-> clock, until |-> clock + TTL, waited |-> 0]
  <2>1. \A g \in Gateways : l1'[g] = IF g = GatewayOf[r] THEN entry ELSE l1[g]
    BY <1>8, <1>t DEF SendBody
  <2>2. Applied(entry) = clock /\ entry.until = clock + TTL
    BY <1>0 DEF Applied
  <2>3. \A g \in Gateways : l1'[g].until <= Applied(l1'[g]) + 2 * TTL
    <3> HIDE DEF entry
    <3> QED
      BY <1>0, <1>t, <2>1, <2>2 DEF Ages
  <2>4. \A w \in writes' : w.body <= clock
    BY <1>0, <1>8, <1>t DEF SendBody, Ages
  <2> QED
    BY <1>8, <1>t, <2>3, <2>4 DEF SendBody, Ages, locals
<1>9. ASSUME NEW r \in Requests, SendError(r) PROVE Ages'
  BY <1>9, <1>t DEF SendError, Ages, caches, locals
<1>10. ASSUME NEW r \in Requests, SendErrorUnheard(r) PROVE Ages'
  BY <1>10, <1>t DEF SendErrorUnheard, Ages, caches, locals
<1>11. ASSUME NEW r \in Requests, AnswerDirect(r) PROVE Ages'
  BY <1>11, <1>t DEF AnswerDirect, Ages, caches, locals
<1>12. ASSUME NEW g \in Gateways, Purge(g) PROVE Ages'
  BY <1>0, <1>12, <1>n, <1>t DEF Purge, Ages, locals
<1>13. ASSUME NEW g \in Gateways, Stop(g) PROVE Ages'
  <2>1. \A h \in Gateways : l1'[h].until <= Applied(l1'[h]) + 2 * TTL
    BY <1>0, <1>13, <1>n, <1>t DEF Stop, Ages
  <2>2. \A w \in writes' : w.body <= clock
    BY <1>13, <1>t DEF Stop, Ages, IInv, TypeOK, Writes
  <2> QED
    BY <1>13, <1>t, <2>1, <2>2, ForgetKeeps DEF Stop, Ages
<1>14. ASSUME Tick PROVE Ages'
  BY <1>0, <1>14, <1>t DEF Tick, Ages, caches, locals
<1>15. CASE UNCHANGED vars
  BY <1>15, <1>t DEF vars, caches, locals, Ages
<1>16. ASSUME NEW w \in writes, ApplySetex(w) PROVE Ages'
  <2>1. Applied(l2') = clock /\ l2'.until = clock + TTL
    BY <1>0, <1>16 DEF ApplySetex, Applied
  <2>2. writes' \subseteq writes
    BY <1>16 DEF ApplySetex
  <2> QED
    BY <1>0, <1>16, <1>t, <2>1, <2>2 DEF ApplySetex, Ages, locals
<1>17. ASSUME NEW w \in writes, SetexFails(w) PROVE Ages'
  BY <1>17, <1>t DEF SetexFails, Ages, locals
<1> QED
  BY <1>1, <1>2, <1>3, <1>4, <1>5, <1>6, <1>7, <1>8, <1>9, <1>10, <1>11, <1>12,
     <1>13, <1>14, <1>15, <1>16, <1>17 DEF Next, Serve, OnReply, OnOrigin, Restart, ExitAfterThrow

\* Every step keeps the reply with the request that was told.
LEMMA GotStep ==
  ASSUME IInv, [Next]_vars
  PROVE  GotIsTold'
<1> USE DEF GotIsTold
<1>t. TypeOK /\ GotIsTold /\ at \in [Requests -> Places] /\ got \in [Requests -> Entries]
  BY DEF IInv, TypeOK
\* A request moves and its reply is forgotten, or was not there.
<1>m. ASSUME NEW r \in Requests, NEW place, Goto(r, place), got' = got, at[r] # "told"
      PROVE  GotIsTold'
  BY <1>m, <1>t DEF Goto
<1>f. ASSUME NEW r \in Requests, NEW place, Goto(r, place), Forget({r})
      PROVE  GotIsTold'
  BY <1>f, <1>t DEF Goto, Forget
<1>e. ASSUME NEW r \in Requests, NEW place, Emit(r, place), got' = got, at[r] # "told"
      PROVE  GotIsTold'
  BY <1>e, <1>t DEF Emit, Followers
<1>1. ASSUME NEW r \in Requests, L1Hit(r) \/ L1Miss(r) PROVE GotIsTold'
  BY <1>1, <1>m DEF L1Hit, L1Miss, locals
<1>2. ASSUME NEW r \in Requests, RedisGet(r) PROVE GotIsTold'
  BY <1>2, <1>t DEF RedisGet, Goto
<1>3. ASSUME NEW r \in Requests, RedisFails(r) \/ OnReply(r) PROVE GotIsTold'
  BY <1>3, <1>f DEF RedisFails, OnReply, L2Hit, Coalesce, Lead
<1>4. ASSUME NEW r \in Requests, SendBody(r) \/ SendError(r) PROVE GotIsTold'
  BY <1>4, <1>e DEF SendBody, SendError, locals
<1>5. ASSUME NEW r \in Requests, SendErrorUnheard(r) \/ AnswerDirect(r) PROVE GotIsTold'
  BY <1>5, <1>m DEF SendErrorUnheard, AnswerDirect, locals
<1>6. ASSUME NEW g \in Gateways, Stop(g) PROVE GotIsTold'
  BY <1>6, <1>t DEF Stop, Forget
<1>7. CASE Tick \/ UNCHANGED vars \/ \E g \in Gateways : Purge(g)
  BY <1>7, <1>t DEF Tick, Purge, vars, locals
<1>8. CASE \E w \in writes : ApplySetex(w) \/ SetexFails(w)
  BY <1>8, <1>t DEF ApplySetex, SetexFails, locals
<1> QED
  BY <1>1, <1>2, <1>3, <1>4, <1>5, <1>6, <1>7, <1>8
  DEF Next, Serve, OnOrigin, Restart, ExitAfterThrow

-----------------------------------------------------------------------------
\* What the table, the leaders and the listeners know of each other.
Table == OneLeader /\ FlightHoldsLeaders /\ FollowersAreHeard

\* A step of r outside the table: it neither leads nor listens, before or after.
LEMMA OutsideStep ==
  ASSUME IInv, NEW r \in Requests, NEW place \in {"answered", "asking", "told", "direct"},
         Goto(r, place), at[r] \notin {"leading", "threw", "coalesced"},
         flight' = flight, leader' = leader
  PROVE  Table'
<1>1. at \in [Requests -> Places] /\ flight \in [Gateways -> Requests \cup {Nobody}]
  BY DEF IInv, TypeOK
<1> QED
  BY <1>1 DEF Table, Goto, IInv, OneLeader, FlightHoldsLeaders, FollowersAreHeard

\* The leader r emits, its listeners leave with it and the table is emptied.
LEMMA EmitStep ==
  ASSUME IInv, NEW r \in Requests, NEW place \in {"answered", "refused"},
         at[r] = "leading", Emit(r, place), Land(r)
  PROVE  Table'
<1>1. /\ at \in [Requests -> Places] /\ flight \in [Gateways -> Requests \cup {Nobody}]
      /\ leader \in [Requests -> Requests \cup {Nobody}]
  BY DEF IInv, TypeOK
<1>2. flight[GatewayOf[r]] = r
  BY DEF IInv, OneLeader
<1>3. \A g \in Gateways : flight'[g] = IF g = GatewayOf[r] THEN Nobody ELSE flight[g]
  BY <1>1 DEF Land
\* Whoever leads or threw, and is not r, is where it was.
<1>4. \A q \in Requests : q # r /\ at[q] \in {"leading", "threw"} => at'[q] = at[q]
  BY <1>1 DEF Emit, Followers
<1>5. OneLeader'
  <2>1. SUFFICES ASSUME NEW q \in Requests, at'[q] = "leading" PROVE flight'[GatewayOf[q]] = q
    BY DEF OneLeader
  <2>2. q # r /\ at[q] = "leading"
    BY <1>1, <2>1 DEF Emit
  <2>3. flight[GatewayOf[q]] = q
    BY <2>2 DEF IInv, OneLeader
  <2> QED
    BY <1>2, <1>3, <2>2, <2>3
<1>6. FlightHoldsLeaders'
  BY <1>1, <1>2, <1>3, <1>4 DEF FlightHoldsLeaders, IInv
<1>7. FollowersAreHeard'
  <2>1. SUFFICES ASSUME NEW f \in Requests, at'[f] = "coalesced"
        PROVE  /\ leader'[f] \in Requests /\ at'[leader'[f]] \in {"leading", "threw"}
               /\ flight'[GatewayOf[f]] = leader'[f]
    BY DEF FollowersAreHeard
  <2>2. f # r /\ f \notin Followers(r) /\ at[f] = "coalesced" /\ leader'[f] = leader[f]
    BY <1>1, <2>1 DEF Emit
  <2>3. /\ leader[f] \in Requests /\ at[leader[f]] \in {"leading", "threw"}
        /\ flight[GatewayOf[f]] = leader[f] /\ leader[f] # r
    BY <2>2 DEF IInv, FollowersAreHeard, Followers
  <2> QED
    BY <1>2, <1>3, <1>4, <2>2, <2>3
<1> QED
  BY <1>5, <1>6, <1>7 DEF Table

\* Every step keeps the table, the leaders and the listeners together.
LEMMA TableStep ==
  ASSUME IInv, [Next]_vars
  PROVE  Table'
<1>t. /\ at \in [Requests -> Places] /\ flight \in [Gateways -> Requests \cup {Nobody}]
      /\ leader \in [Requests -> Requests \cup {Nobody}]
      /\ OneLeader /\ FlightHoldsLeaders /\ FollowersAreHeard
  BY DEF IInv, TypeOK
<1>1. ASSUME NEW r \in Requests, L1Hit(r) \/ L1Miss(r) PROVE Table'
  BY <1>1, OutsideStep DEF L1Hit, L1Miss
<1>2. ASSUME NEW r \in Requests, RedisGet(r) \/ RedisFails(r) \/ L2Hit(r) \/ AnswerDirect(r)
      PROVE Table'
  BY <1>2, OutsideStep DEF RedisGet, RedisFails, L2Hit, AnswerDirect
<1>3. ASSUME NEW r \in Requests, Coalesce(r) PROVE Table'
  <2>1. flight[GatewayOf[r]] \in Requests /\ at[flight[GatewayOf[r]]] \in {"leading", "threw"}
    BY <1>3, <1>t DEF Coalesce, FlightHoldsLeaders
  <2> QED
    BY <1>3, <1>t, <2>1 DEF Coalesce, Goto, Table, OneLeader, FlightHoldsLeaders, FollowersAreHeard
<1>4. ASSUME NEW r \in Requests, Lead(r) PROVE Table'
  <2>1. \A f \in Requests : at[f] = "coalesced" => GatewayOf[f] # GatewayOf[r]
    BY <1>4, <1>t DEF Lead, FollowersAreHeard
  <2>2. \A g \in Gateways : flight'[g] = IF g = GatewayOf[r] THEN r ELSE flight[g]
    BY <1>4, <1>t DEF Lead
  <2>3. \A q \in Requests : at'[q] = IF q = r THEN "leading" ELSE at[q]
    BY <1>4, <1>t DEF Lead, Goto
  <2>4. OneLeader'
    BY <1>4, <1>t, <2>2, <2>3 DEF Lead, OneLeader
  <2>5. FlightHoldsLeaders'
    BY <1>4, <1>t, <2>2, <2>3 DEF FlightHoldsLeaders
  <2>6. FollowersAreHeard'
    BY <1>4, <1>t, <2>1, <2>2, <2>3 DEF Lead, FollowersAreHeard
  <2> QED
    BY <2>4, <2>5, <2>6 DEF Table
<1>5. ASSUME NEW r \in Requests, SendBody(r) \/ SendError(r) PROVE Table'
  BY <1>5, EmitStep DEF SendBody, SendError
<1>6. ASSUME NEW r \in Requests, SendErrorUnheard(r) PROVE Table'
  BY <1>6, <1>t
  DEF SendErrorUnheard, Goto, Table, OneLeader, FlightHoldsLeaders, FollowersAreHeard
<1>7. ASSUME NEW g \in Gateways, Stop(g) PROVE Table'
  <2>1. \A h \in Gateways : flight'[h] = IF h = g THEN Nobody ELSE flight[h]
    BY <1>7, <1>t DEF Stop
  <2>2. \A q \in Requests : GatewayOf[q] # g => at'[q] = at[q] /\ leader'[q] = leader[q]
    BY <1>7, <1>t DEF Stop
  <2>3. \A q \in Requests : GatewayOf[q] = g => at'[q] \notin {"leading", "coalesced"}
    BY <1>7, <1>t DEF Stop, Waiting
  <2>4. OneLeader'
    BY <1>t, <2>1, <2>2, <2>3 DEF OneLeader
  <2>5. FlightHoldsLeaders'
    BY <1>t, <2>1, <2>2 DEF FlightHoldsLeaders
  <2>6. FollowersAreHeard'
    BY <1>t, <2>1, <2>2, <2>3 DEF FollowersAreHeard, FlightHoldsLeaders
  <2> QED
    BY <2>4, <2>5, <2>6 DEF Table
<1>8. CASE Tick \/ UNCHANGED vars \/ \E g \in Gateways : Purge(g)
  BY <1>8, <1>t DEF Tick, Purge, vars, Table, OneLeader, FlightHoldsLeaders, FollowersAreHeard
<1>9. CASE \E w \in writes : ApplySetex(w) \/ SetexFails(w)
  BY <1>9, <1>t DEF ApplySetex, SetexFails, Table, OneLeader, FlightHoldsLeaders, FollowersAreHeard
<1> QED
  BY <1>1, <1>2, <1>3, <1>4, <1>5, <1>6, <1>7, <1>8, <1>9
  DEF Next, Serve, OnReply, OnOrigin, Restart, ExitAfterThrow

-----------------------------------------------------------------------------
\* The inductive invariant holds: what each entry's expiry says of its body, and
\* how the table, the leaders and the listeners belong together (cache.ts:44-125).
THEOREM EdgeCacheInvariant == Spec => []IInv
<1>1. Init => IInv
  BY InitHolds
<1>2. IInv /\ [Next]_vars => IInv'
  BY TypeStep, AgesStep, GotStep, TableStep DEF IInv, Table
<1> QED
  BY <1>1, <1>2, PTL DEF Spec

\* Type correctness of the gateway cache (cache.ts:8-125).
THEOREM EdgeCacheTypeCorrect == Spec => []TypeOK
<1>1. IInv => TypeOK
  BY DEF IInv
<1> QED
  BY <1>1, EdgeCacheInvariant, PTL

\* An L2 entry is served for less than one TTL after its setex was applied and an L1
\* entry for less than two, on any gateway, however late that was and whatever the
\* purges and delays do (cache.ts:56, 67, 103, 108).
THEOREM EdgeCacheAgesAreBounded == Spec => []NoEntryOutlives
<1>1. IInv => NoEntryOutlives
  <2>1. ASSUME IInv
        PROVE  /\ clock \in Nat /\ TTL \in Nat
               /\ l2.body \in Nat /\ l2.until \in Nat /\ l2.waited \in Nat
               /\ \A g \in Gateways :
                    l1[g].body \in Nat /\ l1[g].until \in Nat /\ l1[g].waited \in Nat
    BY <2>1 DEF IInv, TypeOK, Clock, Entries
  <2> QED
    BY <2>1 DEF IInv, Ages, Applied, NoEntryOutlives, Live
<1> QED
  BY <1>1, EdgeCacheInvariant, PTL

\* At most one request per process is at the origin for the key (cache.ts:75-95).
THEOREM EdgeCacheHasOneLeader == Spec => []OneLeader
<1>1. IInv => OneLeader
  BY DEF IInv
<1> QED
  BY <1>1, EdgeCacheInvariant, PTL

\* Every coalesced request listens to a leader of its own process that will
\* still emit, or to one that threw (cache.ts:79-91, 110-115).
THEOREM EdgeCacheFollowersAreHeard == Spec => []FollowersAreHeard
<1>1. IInv => FollowersAreHeard
  BY DEF IInv
<1> QED
  BY <1>1, EdgeCacheInvariant, PTL
=============================================================================
