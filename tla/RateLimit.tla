----------------------------- MODULE RateLimit -----------------------------
(***************************************************************************)
(* The two token buckets: distributedRateLimiter of the core, which keeps  *)
(* a hash and updates it on every request, and the gateway's rateLimiter,  *)
(* which stores a bucket only when it takes a token.  The script runs      *)
(* inside Redis, but the time it gets is that of the host that asks, when  *)
(* it asks: clocks differ, and a request that waits for Redis brings a     *)
(* time of before.  When the script fails, both let the request through.   *)
(* One unit is the time in which a token is refilled.                      *)
(***************************************************************************)
EXTENDS Integers

CONSTANTS
  Hosts, Skew,       \* how far the time of a host's requests is ahead of the slowest
  maxTokens,
  CoreTtl, GatewayTtl,
  MaxTime,           \* bound of the clock
  MaxErrors          \* bound: scripts that fail

VARIABLES
  now,               \* Redis's own time, by which keys expire
  bucket,            \* of each limiter; exp is 0 when there is no key
  admitted,          \* ghost: requests of one client each limiter let through
  unchecked          \* ghost: how many of them because the script failed
vars == <<now, bucket, admitted, unchecked>>

Limiters == {"core", "gateway"}
NoBucket == [tokens |-> 0, lastRefill |-> 0, exp |-> 0]
MinOf(a, b) == IF a < b THEN a ELSE b
MaxSkew == CHOOSE d \in {Skew[h] : h \in Hosts} : \A h \in Hosts : Skew[h] <= d

TypeOK ==
  /\ now \in 0..MaxTime
  /\ bucket \in [Limiters -> [tokens : -MaxSkew..maxTokens, lastRefill : 0..MaxTime + MaxSkew,
                              exp : 0..MaxTime + CoreTtl + GatewayTtl]]
  /\ admitted \in [Limiters -> Nat] /\ unchecked \in [Limiters -> 0..MaxErrors]

Init ==
  /\ now = 0
  /\ bucket = [l \in Limiters |-> NoBucket] /\ admitted = [l \in Limiters |-> 0]
  /\ unchecked = [l \in Limiters |-> 0]
-----------------------------------------------------------------------------
Exists(l) == now < bucket[l].exp
Clock(h) == now + Skew[h]

\* TOKEN_BUCKET_SCRIPT: what has elapsed may be negative, and takes tokens away.
CoreTokens(h) ==
  IF Exists("core")
  THEN MinOf(maxTokens, bucket["core"].tokens + Clock(h) - bucket["core"].lastRefill)
  ELSE maxTokens
CoreBucket(h) ==
  LET t == CoreTokens(h) IN
  [tokens |-> IF t >= 1 THEN t - 1 ELSE t, lastRefill |-> Clock(h), exp |-> now + CoreTtl]
CoreRequest(h) ==
  /\ bucket' = [bucket EXCEPT !["core"] = CoreBucket(h)]
  /\ admitted' = [admitted EXCEPT !["core"] = IF CoreTokens(h) >= 1 THEN @ + 1 ELSE @]
  /\ UNCHANGED <<now, unchecked>>

\* RATE_LIMIT_SCRIPT: time never runs backwards, and a denial stores nothing.
LastRefill(h) ==
  IF Exists("gateway") /\ Clock(h) <= bucket["gateway"].lastRefill
  THEN bucket["gateway"].lastRefill ELSE Clock(h)
GatewayTokens(h) ==
  IF ~Exists("gateway") THEN maxTokens
  ELSE IF Clock(h) > bucket["gateway"].lastRefill
       THEN MinOf(maxTokens, bucket["gateway"].tokens + Clock(h) - bucket["gateway"].lastRefill)
       ELSE bucket["gateway"].tokens
GatewayBucket(h) ==
  [tokens |-> GatewayTokens(h) - 1, lastRefill |-> LastRefill(h), exp |-> now + GatewayTtl]
GatewayRequest(h) ==
  /\ IF GatewayTokens(h) >= 1
     THEN /\ bucket' = [bucket EXCEPT !["gateway"] = GatewayBucket(h)]
          /\ admitted' = [admitted EXCEPT !["gateway"] = @ + 1]
     ELSE UNCHANGED <<bucket, admitted>>
  /\ UNCHANGED <<now, unchecked>>

\* redis.eval throws: the catch of either limiter calls next().
FailOpen(l) ==
  /\ unchecked[l] < MaxErrors
  /\ unchecked' = [unchecked EXCEPT ![l] = @ + 1]
  /\ admitted' = [admitted EXCEPT ![l] = @ + 1]
  /\ UNCHANGED <<now, bucket>>

\* The reply is lost, and the client runs the script once more: this time it may
\* have taken a token for nothing.
RunsUnheard(h) ==
  /\ \/ bucket' = [bucket EXCEPT !["core"] = CoreBucket(h)]
     \/ GatewayTokens(h) >= 1 /\ bucket' = [bucket EXCEPT !["gateway"] = GatewayBucket(h)]
  /\ UNCHANGED <<now, admitted, unchecked>>

Tick ==
  /\ now < MaxTime /\ now' = now + 1
  /\ UNCHANGED <<bucket, admitted, unchecked>>

Next ==
  \/ Tick
  \/ \E h \in Hosts : CoreRequest(h) \/ GatewayRequest(h) \/ RunsUnheard(h)
  \/ \E l \in Limiters : FailOpen(l)
Spec == Init /\ [][Next]_vars
-----------------------------------------------------------------------------
(* Whatever the hosts' clocks say and whenever the keys expire, a client    *)
(* gets through a limiter at most as often as the bucket holds tokens plus  *)
(* what is refilled up to the fastest clock, not counting the requests that *)
(* were let through unchecked because Redis refused the script.             *)
AdmittedWithinRate ==
  \A l \in Limiters : admitted[l] - unchecked[l] <= maxTokens + now + MaxSkew
=============================================================================
