------------------------------ MODULE EdgeCache ------------------------------
(* The two-level cache of the API gateway for one URL of the live          *)
(* leaderboard: an L1 entry in the memory of each gateway process, an L2   *)
(* entry in the shared Redis, and the coalescing of concurrent misses.     *)
(* A handler runs without interruption between two awaits, so each action  *)
(* is one such stretch.  A body is represented by the time it was sent.    *)
EXTENDS Naturals, FiniteSets

CONSTANTS
  Gateways,      \* gateway processes
  Requests,      \* GET requests for the URL
  Nobody,        \* no request
  GatewayOf,     \* the process each request reaches
  TTL,           \* ttlSeconds of cacheMiddleware, in ticks
  MaxClock,      \* bound: ticks of the clock
  MaxUpsets      \* bound: invalidations taken by gateways, and their restarts

ASSUME EdgeCacheAssumption ==
  /\ GatewayOf \in [Requests -> Gateways]
  /\ Nobody \notin Requests \cup Gateways
  /\ TTL \in Nat \ {0} /\ MaxClock \in Nat /\ MaxUpsets \in Nat

VARIABLES
  clock,   \* Date.now()
  l1,      \* l1Cache of each process: the entry of the URL, or None
  l2,      \* the same key in Redis
  flight,  \* inFlightRequests: the request that made the emitter, or Nobody
  at,      \* where each request is
  since,   \* now: the clock when the request arrived
  got,     \* what redis.get answered
  writes,  \* the setex commands under way: of which process, and of which body
  leader,  \* the request whose emitter a coalesced request listens to
  upsets   \* how often a gateway was purged or restarted

vars == <<clock, l1, l2, flight, at, since, got, writes, leader, upsets>>
caches == <<l1, l2, writes>>
locals == <<since, got>>

\* waited: how long after its body the entry's setex was applied (a history).
None == [body |-> 0, until |-> 0, waited |-> 0]
Clock == 0..MaxClock
Entries == [body : Clock, until : 0..(MaxClock + TTL), waited : Clock]
\* A command whose process is gone is nobody's.
Writes == [by : Gateways \cup {Nobody}, body : Clock]

\* An entry is live strictly before its expiry; None never is.
Live(e) == e.until > clock

Waiting == {"asking", "told", "coalesced", "leading", "direct"}
Ended == {"answered", "refused", "dropped"}
\* "threw": a leader whose origin failed while nobody listened.
Places == {"new", "threw"} \cup Waiting \cup Ended

Followers(r) == {f \in Requests : at[f] = "coalesced" /\ leader[f] = r}
\* The emitter in the table belongs to a leader that will not emit again.
Orphaned(g) == flight[g] # Nobody /\ at[flight[g]] = "threw"

TypeOK ==
  /\ clock \in Clock
  /\ l1 \in [Gateways -> Entries] /\ l2 \in Entries
  /\ flight \in [Gateways -> Requests \cup {Nobody}]
  /\ at \in [Requests -> Places]
  /\ since \in [Requests -> Clock]
  /\ got \in [Requests -> Entries]
  /\ writes \subseteq Writes
  /\ leader \in [Requests -> Requests \cup {Nobody}]
  /\ upsets \in 0..MaxUpsets

Init ==
  /\ clock = 0
  /\ l1 = [g \in Gateways |-> None] /\ l2 = None
  /\ flight = [g \in Gateways |-> Nobody]
  /\ at = [r \in Requests |-> "new"]
  /\ since = [r \in Requests |-> 0]
  /\ got = [r \in Requests |-> None]
  /\ writes = {}
  /\ leader = [r \in Requests |-> Nobody]
  /\ upsets = 0

-----------------------------------------------------------------------------
Goto(r, place) == at' = [at EXCEPT ![r] = place]

\* The variables of a middleware call that is over.
Forget(over) ==
  /\ since' = [r \in Requests |-> IF r \in over THEN 0 ELSE since[r]]
  /\ got' = [r \in Requests |-> IF r \in over THEN None ELSE got[r]]

\* The L1 check; a miss sends redis.get.
L1Hit(r) ==
  /\ at[r] = "new" /\ Live(l1[GatewayOf[r]])
  /\ Goto(r, "answered")
  /\ UNCHANGED <<clock, caches, flight, locals, leader, upsets>>

L1Miss(r) ==
  /\ at[r] = "new" /\ ~Live(l1[GatewayOf[r]])
  /\ since' = [since EXCEPT ![r] = clock]
  /\ Goto(r, "asking")
  /\ UNCHANGED <<clock, caches, flight, got, leader, upsets>>

\* Redis evaluates the get; the reply is on its way (one that the connection loses
\* is asked for again, as if it had not been evaluated).  It evaluates the commands
\* of a process in their order, and while it is away it evaluates none.
RedisGet(r) ==
  /\ at[r] = "asking"
  /\ \A w \in writes : w.by = GatewayOf[r] => w.body >= since[r]
  /\ got' = [got EXCEPT ![r] = IF Live(l2) THEN l2 ELSE None]
  /\ Goto(r, "told")
  /\ UNCHANGED <<clock, caches, flight, since, leader, upsets>>

\* The await rejects: the catch block passes the request on, uncached.
RedisFails(r) ==
  /\ at[r] = "asking"
  /\ Goto(r, "direct") /\ Forget({r})
  /\ UNCHANGED <<clock, caches, flight, leader, upsets>>

\* Mutant: the new expiry counts from the reply instead of the arrival.
L2HitExtends(r) ==
  /\ at[r] = "told" /\ got[r] # None
  /\ l1' = [l1 EXCEPT ![GatewayOf[r]] = [got[r] EXCEPT !.until = clock + TTL]]
  /\ Goto(r, "answered") /\ Forget({r})
  /\ UNCHANGED <<clock, l2, writes, flight, leader, upsets>>

\* Mutant: the TTL is added to the expiry of the L2 entry.
L2HitAdds(r) ==
  /\ at[r] = "told" /\ got[r] # None
  /\ l1' = [l1 EXCEPT ![GatewayOf[r]] = [got[r] EXCEPT !.until = @ + TTL]]
  /\ Goto(r, "answered") /\ Forget({r})
  /\ UNCHANGED <<clock, l2, writes, flight, leader, upsets>>

\* An L2 hit fills L1 for ttlSeconds from the arrival of the request.
L2Hit(r) ==
  /\ at[r] = "told" /\ got[r] # None
  /\ l1' = [l1 EXCEPT ![GatewayOf[r]] = [got[r] EXCEPT !.until = since[r] + TTL]]
  /\ Goto(r, "answered") /\ Forget({r})
  /\ UNCHANGED <<clock, l2, writes, flight, leader, upsets>>

\* A miss while a leader is in the table listens to its emitter.
Coalesce(r) ==
  /\ at[r] = "told" /\ got[r] = None /\ flight[GatewayOf[r]] # Nobody
  /\ leader' = [leader EXCEPT ![r] = flight[GatewayOf[r]]]
  /\ Goto(r, "coalesced") /\ Forget({r})
  /\ UNCHANGED <<clock, caches, flight, upsets>>

\* Mutant: every miss goes to the origin.
LeadAlways(r) ==
  /\ at[r] = "told" /\ got[r] = None
  /\ flight' = [flight EXCEPT ![GatewayOf[r]] = r]
  /\ Goto(r, "leading") /\ Forget({r})
  /\ UNCHANGED <<clock, caches, leader, upsets>>

\* The first miss registers its emitter and calls next().
Lead(r) ==
  /\ at[r] = "told" /\ got[r] = None /\ flight[GatewayOf[r]] = Nobody
  /\ flight' = [flight EXCEPT ![GatewayOf[r]] = r]
  /\ Goto(r, "leading") /\ Forget({r})
  /\ UNCHANGED <<clock, caches, leader, upsets>>

\* Mutant: nobody hears the leader.
EmitToNobody(r, place) == Goto(r, place) /\ UNCHANGED leader

\* emit: r and the listeners of its emitter, which are then gone, move to place.
Emit(r, place) ==
  /\ at' = [f \in Requests |-> IF f = r \/ f \in Followers(r) THEN place ELSE at[f]]
  /\ leader' = [f \in Requests |-> IF f \in Followers(r) THEN Nobody ELSE leader[f]]

\* Mutant: the delete is forgotten.
StayInFlight(r) == UNCHANGED flight

\* inFlightRequests.delete(cacheKey).
Land(r) == flight' = [flight EXCEPT ![GatewayOf[r]] = Nobody]

\* A 2xx body goes to L1 and the listeners; its setex is sent and not awaited.
SendBody(r) ==
  /\ at[r] = "leading"
  /\ writes' = writes \cup {[by |-> GatewayOf[r], body |-> clock]}
  /\ l1' = [l1 EXCEPT ![GatewayOf[r]] = [body |-> clock, until |-> clock + TTL, waited |-> 0]]
  /\ Emit(r, "answered")
  /\ Land(r)
  /\ UNCHANGED <<clock, l2, locals, upsets>>

\* Redis applies a setex, at once or when it is back: the client queues it for as
\* long (maxRetriesPerRequest: null), in order, and the TTL counts from then.  If
\* the reply is lost, the client sends it again.
ApplySetex(w) ==
  /\ w \in writes
  /\ \A v \in writes : v.by = w.by /\ v.by # Nobody => v.body >= w.body
  /\ l2' = [body |-> w.body, until |-> clock + TTL, waited |-> clock - w.body]
  /\ writes' \in {writes, writes \ {w}}
  /\ UNCHANGED <<clock, l1, flight, at, locals, leader, upsets>>

\* The setex is refused, which is logged, or lost with its process.
SetexFails(w) ==
  /\ w \in writes
  /\ writes' = writes \ {w}
  /\ UNCHANGED <<clock, l1, l2, flight, at, locals, leader, upsets>>

\* Any other status is emitted as "error", which its listeners turn into 503.
SendError(r) ==
  /\ at[r] = "leading" /\ Followers(r) # {}
  /\ Emit(r, "refused")
  /\ Land(r)
  /\ UNCHANGED <<clock, caches, locals, upsets>>

\* emit("error") throws when nobody listens: the delete and the original send
\* that follow it are never reached.
SendErrorUnheard(r) ==
  /\ at[r] = "leading" /\ Followers(r) = {}
  /\ Goto(r, "threw")
  /\ UNCHANGED <<clock, caches, flight, locals, leader, upsets>>

\* The answer of the origin to a request that bypassed the cache.
AnswerDirect(r) ==
  /\ at[r] = "direct"
  /\ Goto(r, "answered")
  /\ UNCHANGED <<clock, caches, flight, locals, leader, upsets>>

-----------------------------------------------------------------------------
Upset == upsets < MaxUpsets /\ upsets' = upsets + 1

\* leaderboard:invalidate purges L1 and nothing else.  The gateway's listener
\* takes messages at any time; one that pub/sub loses is a purge that is not
\* taken, and an eviction by the LRU has the same effect.
Purge(g) ==
  /\ Upset
  /\ l1' = [l1 EXCEPT ![g] = None]
  /\ UNCHANGED <<clock, l2, writes, flight, at, locals, leader>>

\* A process that ends drops its connections and its tables; a setex that it had
\* sent may still be applied.
Stop(g) ==
  /\ writes' = {IF w.by = g THEN [w EXCEPT !.by = Nobody] ELSE w : w \in writes}
  /\ l1' = [l1 EXCEPT ![g] = None]
  /\ flight' = [flight EXCEPT ![g] = Nobody]
  /\ at' = [r \in Requests |->
       IF GatewayOf[r] = g /\ at[r] \in Waiting \cup {"threw"} THEN "dropped" ELSE at[r]]
  /\ leader' = [r \in Requests |-> IF GatewayOf[r] = g THEN Nobody ELSE leader[r]]
  /\ Forget({r \in Requests : GatewayOf[r] = g})
  /\ UNCHANGED <<clock, l2>>

Restart(g) ==
  /\ Upset
  /\ Stop(g)

\* What SendErrorUnheard threw may surface as an unhandled rejection, for which
\* the safety net ends the process; a proxy that catches it leaves it running.
ExitAfterThrow(g) ==
  /\ \E r \in Requests : GatewayOf[r] = g /\ at[r] = "threw"
  /\ Stop(g)
  /\ UNCHANGED upsets

\* Time passes; Redis and the L1 check treat what has expired as absent.
Tick ==
  /\ clock < MaxClock
  /\ clock' = clock + 1
  /\ UNCHANGED <<caches, flight, at, locals, leader, upsets>>

OnReply(r) == L2Hit(r) \/ Coalesce(r) \/ Lead(r)
OnOrigin(r) == SendBody(r) \/ SendError(r) \/ SendErrorUnheard(r) \/ AnswerDirect(r)
Serve(r) == RedisGet(r) \/ RedisFails(r) \/ OnReply(r) \/ OnOrigin(r)

Next ==
  \/ \E r \in Requests : L1Hit(r) \/ L1Miss(r) \/ Serve(r)
  \/ \E w \in writes : ApplySetex(w) \/ SetexFails(w)
  \/ \E g \in Gateways : Purge(g) \/ Restart(g) \/ ExitAfterThrow(g)
  \/ Tick

Spec == Init /\ [][Next]_vars

\* A reply of Redis is handled.  That Redis comes back is not assumed, nor that a
\* proxied call ends: neither has a limit (redis.config.ts:15, server.ts:93).
FairSpec == Spec /\ \A r \in Requests : WF_vars(OnReply(r))

-----------------------------------------------------------------------------
\* However long a setex waited for Redis, what it wrote is served for less than one
\* TTL more from L2, and for less than two from the L1 of a gateway that read L2
\* just before it expired; purges and slow replies do not change that, and a body
\* whose setex was applied at once is never two TTLs old (cache.ts:56, 67, 103, 108).
NoEntryOutlives ==
  /\ Live(l2) => clock < l2.body + l2.waited + TTL
  /\ \A g \in Gateways : Live(l1[g]) => clock < l1[g].body + l1[g].waited + 2 * TTL

\* Request coalescing: however the replies of Redis interleave, at most one request
\* per process is at the origin for the key, and it is the one in the table
\* (cache.ts:75-95).
OneLeader ==
  \A r \in Requests : at[r] = "leading" => flight[GatewayOf[r]] = r

\* A coalesced request listens to an emitter of its own process that will still
\* emit, or to one whose leader threw (cache.ts:80-90, 110-115).
FollowersAreHeard ==
  \A f \in Requests : at[f] = "coalesced" =>
    /\ leader[f] \in Requests /\ at[leader[f]] \in {"leading", "threw"}
    /\ flight[GatewayOf[f]] = leader[f]

\* The origin has not ended the request's own call, or that of its leader.
WaitsOnOrigin(r) ==
  \/ at[r] \in {"leading", "direct"}
  \/ at[r] = "coalesced" /\ at[leader[r]] = "leading"

\* Every request that Redis has answered or refused is answered, refused or
\* dropped, unless it waits for the origin for ever, or its process is left with
\* the emitter of a leader that threw (cache.ts:44-125).
EveryRequestEnds ==
  \A r \in Requests :
    at[r] \in Waiting \ {"asking"} ~>
      \/ at[r] \in Ended \cup {"threw"} \/ Orphaned(GatewayOf[r])
      \/ []WaitsOnOrigin(r)
=============================================================================
