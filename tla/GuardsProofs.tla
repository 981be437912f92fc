---------------------------- MODULE GuardsProofs ----------------------------
(* Proofs about the components that keep their own counts, for every value  *)
(* of their constants that MCServices' assumptions admit: those that guard  *)
(* calls (Connection, Breaker, RateLimit, Idempotency, Saga, GrpcClient)    *)
(* and the workers that judge and compare code (Judge, Plagiarism).  A      *)
(* component's variables change in its own steps only; so each has an       *)
(* inductive invariant of its own: its type, what the run checks, and what  *)
(* that needs.                                                              *)
EXTENDS MCServices, Integers, FiniteSetTheorems, SequenceTheorems, WellFoundedInduction, TLAPS

\* Every part starts as its component does.
LEMMA PartsStart ==
  MCInit => /\ Rabbit!Init /\ Circuit!Init /\ Limiter!Init /\ Once!Init /\ Undo!Init /\ Client!Init
            /\ Sandbox!Init /\ Checks!Init /\ Filter!Init /\ Init /\ Entry!Init /\ Table!Init /\ Board!Init
BY DEF MCInit

-----------------------------------------------------------------------------
(* Connection.                                                              *)

\* A step of the parts is one of the connection or leaves it as it is.
LEMMA ConnectionSteps == [MCNext]_allVars => [Rabbit!Next]_connectionVars
BY DEF allVars, MCNext, Rest, Still, connectionVars

\* What ConnectionIsMinded needs: an open connection is one to a live broker, a
\* live channel has its connection, and a loop under way has an attempt left.
ConnectionInv ==
  /\ up \in BOOLEAN /\ timer \in BOOLEAN /\ shuttingDown \in BOOLEAN /\ gaveUp \in BOOLEAN
  /\ Rabbit!TypeOK
  /\ connection = "open" => up
  /\ channel = "live" => connection = "open"
  /\ phase # "none" => retries < MAX_RETRIES
  /\ Rabbit!ConnectionIsMinded

\* A process starts without a connection.
LEMMA ConnectionInit == Rabbit!Init => ConnectionInv
<1> SUFFICES ASSUME Rabbit!Init PROVE ConnectionInv
  OBVIOUS
<1>1. up \in BOOLEAN /\ timer = FALSE /\ shuttingDown = FALSE /\ gaveUp = FALSE
  BY Zenon DEF Rabbit!Init
<1>2. {up, timer, shuttingDown, gaveUp} \subseteq BOOLEAN
  BY <1>1, Zenon
<1>3. /\ connection = "none" /\ channel = "none" /\ phase = "none" /\ retries = 0
      /\ drops = 0 /\ consuming = "none"
  BY DEF Rabbit!Init
<1> QED
  BY <1>1, <1>2, <1>3, ConnectionAssumption DEF ConnectionInv, Rabbit!TypeOK, Rabbit!ConnectionIsMinded

\* Every step of the connection.
LEMMA ConnectionNext == ConnectionInv /\ [Rabbit!Next]_connectionVars => ConnectionInv'
<1> SUFFICES ASSUME ConnectionInv, [Rabbit!Next]_connectionVars PROVE ConnectionInv'
  OBVIOUS
<1> USE ConnectionAssumption DEF ConnectionInv, Rabbit!TypeOK
<1>1. up' \in BOOLEAN /\ timer' \in BOOLEAN /\ shuttingDown' \in BOOLEAN /\ gaveUp' \in BOOLEAN
  BY Zenon DEF connectionVars, Rabbit!Next, Rabbit!GetChannel, Rabbit!TimerFires, Rabbit!Dial,
     Rabbit!CreateConfirmChannel, Rabbit!Listen, Rabbit!AttemptFails, Rabbit!Retry, Rabbit!RegisterConsumers,
     Rabbit!BrokerFails, Rabbit!BrokerReturns, Rabbit!Close, Rabbit!Connect, Rabbit!ScheduleReconnect
<1>2. {up', timer', shuttingDown', gaveUp'} \subseteq BOOLEAN
  BY <1>1, Zenon
<1>3. CASE Rabbit!GetChannel \/ Rabbit!TimerFires
  BY <1>1, <1>2, <1>3 DEF Rabbit!GetChannel, Rabbit!TimerFires, Rabbit!Connect, Rabbit!ConnectionIsMinded
<1>4. CASE Rabbit!Dial \/ Rabbit!CreateConfirmChannel \/ Rabbit!Listen \/ Rabbit!Retry
  BY <1>1, <1>2, <1>4 DEF Rabbit!Dial, Rabbit!CreateConfirmChannel, Rabbit!Listen, Rabbit!Retry, Rabbit!ConnectionIsMinded
<1>5. CASE Rabbit!AttemptFails
  BY <1>1, <1>2, <1>5 DEF Rabbit!AttemptFails, Rabbit!ConnectionIsMinded
<1>6. CASE Rabbit!RegisterConsumers \/ Rabbit!BrokerReturns \/ Rabbit!Close
  BY <1>1, <1>2, <1>6 DEF Rabbit!RegisterConsumers, Rabbit!BrokerReturns, Rabbit!Close, Rabbit!ConnectionIsMinded
<1>7. CASE Rabbit!BrokerFails
  BY <1>1, <1>2, <1>7 DEF Rabbit!BrokerFails, Rabbit!ScheduleReconnect, Rabbit!ConnectionIsMinded
<1>8. CASE UNCHANGED connectionVars
  BY <1>1, <1>2, <1>8 DEF connectionVars, Rabbit!ConnectionIsMinded
<1> QED
  BY <1>3, <1>4, <1>5, <1>6, <1>7, <1>8 DEF Rabbit!Next

-----------------------------------------------------------------------------
(* Breaker.                                                                 *)

\* A step of the parts is one of the breaker or leaves it as it is.
LEMMA BreakerSteps == [MCNext]_allVars => [Circuit!Next]_breakerVars
BY DEF allVars, MCNext, Rest, Still, breakerVars

\* A half-open breaker still lacks a success.
BreakerInv ==
  /\ Circuit!TypeOK /\ Circuit!BreakerIsConsistent
  /\ \A n \in Nodes : state[n] = "HALF_OPEN" => successCount[n] < halfOpenMaxAttempts

\* The breaker starts closed.
LEMMA BreakerInit == Circuit!Init => BreakerInv
BY BreakerAssumption DEF Circuit!Init, BreakerInv, Circuit!TypeOK, Circuit!BreakerIsConsistent

\* Every step of the breaker, late outcomes of calls too.
LEMMA BreakerNext == BreakerInv /\ [Circuit!Next]_breakerVars => BreakerInv'
<1> SUFFICES ASSUME BreakerInv, [Circuit!Next]_breakerVars PROVE BreakerInv'
  OBVIOUS
<1> USE BreakerAssumption DEF BreakerInv, Circuit!TypeOK, Circuit!BreakerIsConsistent, Circuit!counts
<1>1. CASE Circuit!Tick
  BY <1>1 DEF Circuit!Tick
<1>2. ASSUME NEW n \in Nodes, Circuit!GetState(n) PROVE BreakerInv'
  BY <1>2 DEF Circuit!GetState, Circuit!HalfOpens
<1>3. ASSUME NEW n \in Nodes, Circuit!Call(n) PROVE BreakerInv'
  BY <1>3 DEF Circuit!Call
<1>4. ASSUME NEW n \in Nodes, Circuit!OnSuccess(n) PROVE BreakerInv'
  BY <1>4 DEF Circuit!OnSuccess, Circuit!Ends
<1>5. ASSUME NEW n \in Nodes, Circuit!OnFailure(n) PROVE BreakerInv'
  <2>1. failureCount' = [failureCount EXCEPT ![n] = @ + 1] /\ failureCount'[n] = failureCount[n] + 1
    BY <1>5 DEF Circuit!OnFailure
  <2>2. CASE failureCount'[n] >= failureThreshold /\ state[n] # "OPEN"
    <3>1. /\ calls' \in [Nodes -> 0..MaxCalls] /\ failureCount' \in [Nodes -> Nat]
          /\ lastFailureTime' \in [Nodes -> 0..MaxTime] /\ inbox' \in [Nodes -> Nat]
      BY <1>5, <2>2 DEF Circuit!OnFailure, Circuit!Ends
    <3>2. outcomes' \in [Nodes -> BOOLEAN] /\ outcomes' = [outcomes EXCEPT ![n] = FALSE]
      BY <1>5, <2>2 DEF Circuit!OnFailure
    <3>3. state' = [state EXCEPT ![n] = "OPEN"] /\ UNCHANGED <<time, successCount, probes>>
      BY <1>5, <2>2 DEF Circuit!OnFailure
    <3> QED
      BY <2>1, <2>2, <3>1, <3>2, <3>3
  <2>3. CASE ~(failureCount'[n] >= failureThreshold /\ state[n] # "OPEN")
    BY <1>5, <2>1, <2>3 DEF Circuit!OnFailure, Circuit!Ends
  <2> QED
    BY <2>2, <2>3
<1>6. ASSUME NEW n \in Nodes, Circuit!Hear(n) PROVE BreakerInv'
  <2>1. inbox' \in [Nodes -> Nat]
    BY <1>6 DEF Circuit!Hear
  <2>2. CASE state[n] = "OPEN"
    BY <1>6, <2>1, <2>2 DEF Circuit!Hear
  <2>3. CASE state[n] # "OPEN"
    <3>1. /\ failureCount' \in [Nodes -> Nat] /\ failureCount'[n] = failureThreshold
          /\ \A m \in Nodes \ {n} : failureCount'[m] = failureCount[m]
          /\ lastFailureTime' \in [Nodes -> 0..MaxTime]
      BY <1>6, <2>3 DEF Circuit!Hear
    <3>2. outcomes' \in [Nodes -> BOOLEAN] /\ outcomes' = [outcomes EXCEPT ![n] = FALSE]
      BY <1>6, <2>3 DEF Circuit!Hear
    <3>3. state' = [state EXCEPT ![n] = "OPEN"] /\ UNCHANGED <<time, successCount, calls, probes>>
      BY <1>6, <2>3 DEF Circuit!Hear
    <3> QED
      BY <2>1, <3>1, <3>2, <3>3
  <2> QED
    BY <2>2, <2>3
<1>7. ASSUME NEW n \in Nodes, Circuit!LoseMessage(n) PROVE BreakerInv'
  BY <1>7 DEF Circuit!LoseMessage
<1>8. CASE UNCHANGED breakerVars
  BY <1>8 DEF breakerVars
<1> QED
  BY <1>1, <1>2, <1>3, <1>4, <1>5, <1>6, <1>7, <1>8 DEF Circuit!Next

-----------------------------------------------------------------------------
(* RateLimit.                                                               *)

\* A step of the parts is one of the limiters or leaves them as they are.
LEMMA LimitSteps == [MCNext]_allVars => [Limiter!Next]_limitVars
BY DEF allVars, MCNext, Rest, Still, limitVars

TtlOf(l) == IF l = "core" THEN CoreTtl ELSE GatewayTtl

\* The clocks are at most MaxSkew ahead.
LEMMA SkewIsBounded ==
  /\ Limiter!MaxSkew \in Nat /\ \A h \in Hosts : Skew[h] \in Nat /\ Skew[h] <= Limiter!MaxSkew
  /\ maxTokens + Limiter!MaxSkew <= CoreTtl /\ maxTokens + Limiter!MaxSkew <= GatewayTtl
<1>1. \E d \in {Skew[h] : h \in Hosts} : \A h \in Hosts : Skew[h] <= d
  BY RateLimitAssumption
<1>2. Limiter!MaxSkew \in {Skew[h] : h \in Hosts} /\ \A h \in Hosts : Skew[h] <= Limiter!MaxSkew
  BY <1>1 DEF Limiter!MaxSkew
<1> QED
  BY <1>2, RateLimitAssumption

\* What a limiter has admitted and taken, or could have taken, a token for.
Charged(l) == admitted[l] - unchecked[l]

\* What has been charged is what the tokens that are gone paid for: a bucket
\* holds what is refilled up to its last refill and was not admitted, and when
\* its key expires, more than that has been refilled.
Paid(l) ==
  LET b == bucket[l] written == b.exp - TtlOf(l) IN
  \/ b = Limiter!NoBucket /\ Charged(l) = 0
  \/ /\ Charged(l) <= maxTokens + b.lastRefill - b.tokens
     /\ b.lastRefill - b.tokens <= written + Limiter!MaxSkew
     /\ b.lastRefill <= written + Limiter!MaxSkew
     /\ written \in 0..clock
     /\ l = "gateway" => b.tokens >= 0

LimitInv == Limiter!TypeOK /\ \A l \in Limiter!Limiters : Paid(l)

\* The buckets do not exist at first.
LEMMA LimitInit == Limiter!Init => LimitInv
BY SkewIsBounded, RateLimitAssumption
DEF Limiter!Init, LimitInv, Limiter!TypeOK, Limiter!Limiters, Limiter!NoBucket, Paid, Charged, TtlOf

\* The script of the core runs, and the request is let through or not heard of.
LEMMA CoreRuns ==
  ASSUME LimitInv, NEW h \in Hosts, bucket' = [bucket EXCEPT !["core"] = Limiter!CoreBucket(h)],
         admitted' \in [Limiter!Limiters -> Nat], UNCHANGED <<clock, unchecked>>,
         admitted'["gateway"] = admitted["gateway"],
         \/ admitted'["core"] = admitted["core"]
         \/ Limiter!CoreTokens(h) >= 1 /\ admitted'["core"] = admitted["core"] + 1
  PROVE  LimitInv'
<1> USE RateLimitAssumption, SkewIsBounded DEF LimitInv, Limiter!TypeOK, Limiter!Limiters
<1> DEFINE b == bucket["core"]
           t == Limiter!CoreTokens(h)
           c == Limiter!Clock(h)
<1>1. /\ b.tokens \in Int /\ b.lastRefill \in Nat /\ b.exp \in Nat /\ Charged("core") \in Int
      /\ clock \in Nat /\ c \in Nat /\ c <= clock + Limiter!MaxSkew /\ clock <= c
  BY DEF Limiter!Clock, Charged
<1>2. /\ t \in Int /\ t <= maxTokens /\ -Limiter!MaxSkew <= t
      /\ Charged("core") <= maxTokens + c - t /\ c - t <= clock + Limiter!MaxSkew
  <2>1. CASE Limiter!Exists("core")
    BY <1>1, <2>1 DEF Limiter!CoreTokens, Limiter!MinOf, Limiter!Exists, Limiter!NoBucket, Paid, TtlOf
  <2>2. CASE ~Limiter!Exists("core")
    BY <1>1, <2>2 DEF Limiter!CoreTokens, Limiter!Exists, Limiter!NoBucket, Paid, TtlOf
  <2> QED
    BY <2>1, <2>2
<1>3. bucket' = [bucket EXCEPT !["core"] = [tokens |-> IF t >= 1 THEN t - 1 ELSE t,
                                             lastRefill |-> c, exp |-> clock + CoreTtl]]
  BY DEF Limiter!CoreBucket
<1>4. \/ Charged("core")' = Charged("core")
      \/ t >= 1 /\ Charged("core")' = Charged("core") + 1
  BY DEF Charged
<1>5. Charged("gateway")' = Charged("gateway")
  BY DEF Charged
<1>6. Paid("core")' /\ Paid("gateway")'
  <2> HIDE DEF t, c, b
  <2> QED
    BY <1>1, <1>2, <1>3, <1>4, <1>5 DEF Paid, TtlOf
<1>7. Limiter!TypeOK'
  <2> HIDE DEF t, c, b
  <2>1. [tokens |-> IF t >= 1 THEN t - 1 ELSE t, lastRefill |-> c, exp |-> clock + CoreTtl] \in
          [tokens : -Limiter!MaxSkew..maxTokens, lastRefill : 0..LimitTime + Limiter!MaxSkew,
           exp : 0..LimitTime + CoreTtl + GatewayTtl]
    BY <1>1, <1>2
  <2> QED
    BY <1>1, <1>3, <2>1
<1> QED
  BY <1>6, <1>7

\* That of the gateway takes a token, and the request is let through or not heard of.
LEMMA GatewayRuns ==
  ASSUME LimitInv, NEW h \in Hosts, Limiter!GatewayTokens(h) >= 1,
         bucket' = [bucket EXCEPT !["gateway"] = Limiter!GatewayBucket(h)],
         admitted' \in [Limiter!Limiters -> Nat], UNCHANGED <<clock, unchecked>>,
         admitted'["core"] = admitted["core"],
         admitted'["gateway"] \in {admitted["gateway"], admitted["gateway"] + 1}
  PROVE  LimitInv'
<1> USE RateLimitAssumption, SkewIsBounded DEF LimitInv, Limiter!TypeOK, Limiter!Limiters
<1> DEFINE b == bucket["gateway"]
           t == Limiter!GatewayTokens(h)
           c == Limiter!Clock(h)
           last == Limiter!LastRefill(h)
<1>1. /\ b.tokens \in Int /\ b.lastRefill \in Nat /\ b.exp \in Nat /\ Charged("gateway") \in Int
      /\ clock \in Nat /\ c \in Nat /\ c <= clock + Limiter!MaxSkew /\ clock <= c
  BY DEF Limiter!Clock, Charged
<1>2. /\ t \in Int /\ t <= maxTokens /\ last \in Nat /\ last <= clock + Limiter!MaxSkew
      /\ Charged("gateway") <= maxTokens + last - t
  <2>1. CASE Limiter!Exists("gateway")
    BY <1>1, <2>1 DEF Limiter!GatewayTokens, Limiter!LastRefill, Limiter!MinOf, Limiter!Exists, Limiter!NoBucket, Paid, TtlOf
  <2>2. CASE ~Limiter!Exists("gateway")
    BY <1>1, <2>2 DEF Limiter!GatewayTokens, Limiter!LastRefill, Limiter!Exists, Limiter!NoBucket, Paid, TtlOf
  <2> QED
    BY <2>1, <2>2
<1>3. bucket' = [bucket EXCEPT !["gateway"] = [tokens |-> t - 1, lastRefill |-> last, exp |-> clock + GatewayTtl]]
  BY DEF Limiter!GatewayBucket
<1>4. Charged("gateway")' \in {Charged("gateway"), Charged("gateway") + 1} /\ Charged("core")' = Charged("core")
  BY DEF Charged
<1> HIDE DEF t, c, b, last
<1>5. t >= 1
  BY DEF t
<1>6. Paid("core")' /\ Paid("gateway")'
  BY <1>1, <1>2, <1>3, <1>4, <1>5 DEF Paid, TtlOf, b
<1>7. [tokens |-> t - 1, lastRefill |-> last, exp |-> clock + GatewayTtl] \in
        [tokens : -Limiter!MaxSkew..maxTokens, lastRefill : 0..LimitTime + Limiter!MaxSkew,
         exp : 0..LimitTime + CoreTtl + GatewayTtl]
  BY <1>1, <1>2, <1>5
<1>8. Limiter!TypeOK'
  BY <1>1, <1>3, <1>7
<1> QED
  BY <1>6, <1>8

\* A second passes, a key expires, a host takes a token, or a script fails.
LEMMA LimitNext == LimitInv /\ [Limiter!Next]_limitVars => LimitInv'
<1> SUFFICES ASSUME LimitInv, [Limiter!Next]_limitVars PROVE LimitInv'
  OBVIOUS
<1>t. /\ Limiter!TypeOK /\ admitted \in [Limiter!Limiters -> Nat] /\ Limiter!Limiters = {"core", "gateway"}
      /\ unchecked \in [Limiter!Limiters -> 0..MaxErrors] /\ MaxErrors \in Nat
      /\ \A l \in Limiter!Limiters : Paid(l)
  BY RateLimitAssumption DEF LimitInv, Limiter!TypeOK, Limiter!Limiters
<1>1. CASE Limiter!Tick
  BY <1>1, RateLimitAssumption, SkewIsBounded
  DEF Limiter!Tick, Paid, Charged, TtlOf, LimitInv, Limiter!TypeOK, Limiter!Limiters
<1>2. ASSUME NEW h \in Hosts, Limiter!CoreRequest(h) PROVE LimitInv'
  <2>1. /\ admitted'["gateway"] = admitted["gateway"] /\ admitted' \in [Limiter!Limiters -> Nat]
        /\ admitted'["core"] = IF Limiter!CoreTokens(h) >= 1 THEN admitted["core"] + 1 ELSE admitted["core"]
    BY <1>2, <1>t DEF Limiter!CoreRequest
  <2> QED
    BY <1>2, <2>1, CoreRuns DEF Limiter!CoreRequest
<1>3. ASSUME NEW h \in Hosts, Limiter!GatewayRequest(h) PROVE LimitInv'
  <2>1. CASE Limiter!GatewayTokens(h) >= 1
    <3>1. /\ admitted'["core"] = admitted["core"] /\ admitted' \in [Limiter!Limiters -> Nat]
          /\ admitted'["gateway"] = admitted["gateway"] + 1
      BY <1>3, <1>t, <2>1 DEF Limiter!GatewayRequest
    <3> QED
      BY <1>3, <2>1, <3>1, GatewayRuns DEF Limiter!GatewayRequest
  <2>2. CASE ~(Limiter!GatewayTokens(h) >= 1)
    BY <1>3, <2>2 DEF Limiter!GatewayRequest, LimitInv, Limiter!TypeOK, Paid, Charged
  <2> QED
    BY <2>1, <2>2
<1>4. ASSUME NEW h \in Hosts, Limiter!RunsUnheard(h) PROVE LimitInv'
  <2>1. UNCHANGED <<clock, unchecked, admitted>>
    BY <1>4 DEF Limiter!RunsUnheard
  <2>2. CASE bucket' = [bucket EXCEPT !["core"] = Limiter!CoreBucket(h)]
    BY <1>t, <2>1, <2>2, CoreRuns
  <2>3. CASE /\ Limiter!GatewayTokens(h) >= 1
             /\ bucket' = [bucket EXCEPT !["gateway"] = Limiter!GatewayBucket(h)]
    BY <1>t, <2>1, <2>3, GatewayRuns
  <2> QED
    BY <1>4, <2>2, <2>3 DEF Limiter!RunsUnheard
<1>5. ASSUME NEW l \in Limiter!Limiters, Limiter!FailOpen(l) PROVE LimitInv'
  <2>1. \A k \in Limiter!Limiters : Charged(k)' = Charged(k)
    BY <1>5, <1>t DEF Limiter!FailOpen, Charged
  <2>2. UNCHANGED <<clock, bucket>>
    BY <1>5 DEF Limiter!FailOpen
  <2>3. /\ admitted' \in [Limiter!Limiters -> Nat]
        /\ unchecked' \in [Limiter!Limiters -> 0..MaxErrors]
    BY <1>5, <1>t DEF Limiter!FailOpen
  <2>4. \A k \in Limiter!Limiters : Paid(k)'
    BY <1>t, <2>1, <2>2 DEF Paid
  <2> QED
    BY <1>t, <2>2, <2>3, <2>4 DEF LimitInv, Limiter!TypeOK
<1>6. CASE UNCHANGED limitVars
  BY <1>6 DEF limitVars, LimitInv, Limiter!TypeOK, Paid, Charged
<1> QED
  BY <1>1, <1>2, <1>3, <1>4, <1>5, <1>6 DEF Limiter!Next

-----------------------------------------------------------------------------
(* Idempotency.                                                             *)

\* A step of the parts is one of the wrapper or leaves it as it is.
LEMMA IdempotencySteps == [MCNext]_allVars => [Once!Next]_idempotencyVars
BY DEF allVars, MCNext, Rest, Still, idempotencyVars

\* Callers that may still run fn or take the key away from somebody.
MayRun == {c \in Callers : caller[c] \in {"run", "release"}}
KeyIsFree == IF slot = None0 THEN 1 ELSE 0
AtWork(c) == caller[c] \in {"run", "store", "release"}

\* Runs that happened, may happen, or may be made possible.
RunsAreCounted == ran + Cardinality(MayRun) + KeyIsFree <= 1 + excuses
\* Without an excuse the key is that of the one caller at work, and a result that
\* was returned stays in it.
OneHolder ==
  excuses = 0 =>
    /\ \A c \in Callers : AtWork(c) => slot = Pending /\ \A d \in Callers : AtWork(d) => c = d
    /\ \A c \in Callers : got[c] # None0 => slot = got[c]

OnceInv == Once!TypeOK /\ excuses <= trouble /\ RunsAreCounted /\ OneHolder

\* Cardinality is the same operator inside the instance.
LEMMA OnceCardinality == \A S : Once!Cardinality(S) = Cardinality(S)
BY DEF Once!Cardinality, Cardinality

\* Nobody holds the key.
LEMMA OnceInit == Once!Init => OnceInv
<1> SUFFICES ASSUME Once!Init PROVE OnceInv
  OBVIOUS
<1>1. Once!Init
  OBVIOUS
<1>2. MayRun = {}
  BY <1>1 DEF Once!Init, MayRun
<1>3. RunsAreCounted
  BY <1>1, <1>2, FS_EmptySet DEF Once!Init, RunsAreCounted, KeyIsFree
<1> QED
  BY <1>1, <1>3, IdempotencyAssumption DEF Once!Init, OnceInv, OneHolder, AtWork, Once!TypeOK

\* As many callers as there are may run fn.
LEMMA MayRunIsFinite == IsFiniteSet(MayRun) /\ Cardinality(MayRun) \in Nat
BY IdempotencyAssumption, FS_Subset, FS_CardinalityType DEF MayRun

\* Every step of the wrapper, its callers and of redis.
LEMMA OnceNext == OnceInv /\ [Once!Next]_idempotencyVars => OnceInv'
<1> SUFFICES ASSUME OnceInv, [Once!Next]_idempotencyVars PROVE OnceInv'
  OBVIOUS
<1> USE IdempotencyAssumption DEF OnceInv, Once!TypeOK
<1>0. /\ ran \in Nat /\ excuses \in Nat /\ Cardinality(MayRun) \in Nat /\ KeyIsFree \in {0, 1} /\ KeyIsFree' \in {0, 1}
      /\ MayRun \subseteq Callers
  BY MayRunIsFinite DEF KeyIsFree, MayRun
\* A caller moves.
<1>m. ASSUME NEW c \in Callers, NEW to, caller' = [caller EXCEPT ![c] = to]
      PROVE  /\ MayRun' = IF to \in {"run", "release"} THEN MayRun \cup {c} ELSE MayRun \ {c}
             /\ to \in {"run", "release"} => 
                  Cardinality(MayRun') = IF c \in MayRun THEN Cardinality(MayRun) ELSE Cardinality(MayRun) + 1
             /\ to \notin {"run", "release"} =>
                  Cardinality(MayRun') = IF c \in MayRun THEN Cardinality(MayRun) - 1 ELSE Cardinality(MayRun)
  <2>1. MayRun' = IF to \in {"run", "release"} THEN MayRun \cup {c} ELSE MayRun \ {c}
    BY <1>m DEF MayRun
  <2> QED
    BY <2>1, MayRunIsFinite, FS_AddElement, FS_RemoveElement
<1>1. ASSUME NEW c \in Callers, Once!Claim(c) PROVE OnceInv'
  <2>1. CASE slot = None0
    <3>1. caller[c] = "claim" /\ caller' = [caller EXCEPT ![c] = "run"] /\ slot' = Pending
          /\ UNCHANGED <<got, retried, ran, excuses, trouble>>
      BY <1>1, <2>1 DEF Once!Claim, Once!Move
    <3>2. Cardinality(MayRun') = Cardinality(MayRun) + 1
      BY <1>m, <3>1 DEF MayRun
    <3>3. RunsAreCounted'
      BY <1>0, <2>1, <3>1, <3>2 DEF RunsAreCounted, KeyIsFree
    <3>4. OneHolder'
      BY <2>1, <3>1 DEF OneHolder, AtWork
    <3> QED
      BY <3>1, <3>3, <3>4
  <2>2. CASE slot # None0
    <3>1. caller[c] = "claim" /\ caller' = [caller EXCEPT ![c] = "wait"]
          /\ UNCHANGED <<slot, got, retried, ran, excuses, trouble>>
      BY <1>1, <2>2 DEF Once!Claim, Once!Move
    <3>2. Cardinality(MayRun') = Cardinality(MayRun)
      BY <1>m, <3>1 DEF MayRun
    <3>3. RunsAreCounted'
      BY <1>0, <3>1, <3>2 DEF RunsAreCounted, KeyIsFree
    <3>4. OneHolder'
      BY <3>1 DEF OneHolder, AtWork
    <3> QED
      BY <3>1, <3>3, <3>4
  <2> QED
    BY <2>1, <2>2
<1>2. ASSUME NEW c \in Callers, Once!SeeResult(c) \/ Once!StartOver(c) \/ Once!CallAgain(c) PROVE OnceInv'
  <2>1. RunsAreCounted'
    BY <1>0, <1>m, <1>2 DEF RunsAreCounted, KeyIsFree, MayRun, Once!SeeResult, Once!StartOver, Once!CallAgain, Once!Move
  <2>2. OneHolder'
    BY <1>2 DEF OneHolder, AtWork, Once!SeeResult, Once!StartOver, Once!CallAgain, Once!Move
  <2> QED
    BY <1>2, <2>1, <2>2 DEF Once!SeeResult, Once!StartOver, Once!CallAgain, Once!Move
<1>3. ASSUME NEW c \in Callers, Once!FnSucceeds(c) \/ Once!FnFails(c) PROVE OnceInv'
  <2>1. RunsAreCounted'
    BY <1>0, <1>m, <1>3 DEF RunsAreCounted, KeyIsFree, MayRun, Once!FnSucceeds, Once!FnFails, Once!Move
  <2>2. OneHolder'
    BY <1>3 DEF OneHolder, AtWork, Once!FnSucceeds, Once!FnFails, Once!Move
  <2> QED
    BY <1>3, <2>1, <2>2 DEF Once!FnSucceeds, Once!FnFails, Once!Move
<1>4. ASSUME NEW c \in Callers, Once!Store(c) \/ Once!StoreFails(c) PROVE OnceInv'
  <2>1. RunsAreCounted'
    BY <1>0, <1>m, <1>4 DEF RunsAreCounted, KeyIsFree, MayRun, Once!Store, Once!StoreFails, Once!Move
  <2>2. OneHolder'
    BY <1>4 DEF OneHolder, AtWork, Once!Store, Once!StoreFails, Once!Move
  <2> QED
    BY <1>4, <2>1, <2>2 DEF Once!Store, Once!StoreFails, Once!Move
<1>5. ASSUME NEW c \in Callers, Once!Release(c) \/ Once!Abandon(c) PROVE OnceInv'
  <2>1. RunsAreCounted'
    BY <1>0, <1>m, <1>5 DEF RunsAreCounted, KeyIsFree, MayRun, Once!Release, Once!Abandon, Once!Move
  <2>2. OneHolder'
    BY <1>5 DEF OneHolder, AtWork, Once!Release, Once!Abandon, Once!Move
  <2> QED
    BY <1>5, <2>1, <2>2 DEF Once!Release, Once!Abandon, Once!Move
<1>6. CASE Once!Expire
  BY <1>0, <1>6 DEF Once!Expire, RunsAreCounted, KeyIsFree, MayRun, OneHolder, AtWork
<1>7. CASE UNCHANGED idempotencyVars
  BY <1>7 DEF idempotencyVars, RunsAreCounted, KeyIsFree, MayRun, OneHolder, AtWork
<1> QED
  BY <1>1, <1>2, <1>3, <1>4, <1>5, <1>6, <1>7 DEF Once!Next

\* A run more than one is excused.
LEMMA OnceHolds == OnceInv => Once!RunsAreExcused
<1> SUFFICES ASSUME OnceInv PROVE Once!RunsAreExcused
  OBVIOUS
<1>1. ran <= 1 + excuses
  BY MayRunIsFinite DEF OnceInv, RunsAreCounted, KeyIsFree, Once!TypeOK
<1>2. ASSUME excuses = 0 PROVE Cardinality({got[c] : c \in Callers} \ {None0}) <= 1
  <2>1. {got[c] : c \in Callers} \ {None0} \subseteq {slot}
    BY <1>2 DEF OnceInv, OneHolder
  <2>2. CASE {got[c] : c \in Callers} \ {None0} = {}
    BY <2>2, FS_EmptySet
  <2>3. CASE {got[c] : c \in Callers} \ {None0} = {slot}
    <3>1. Cardinality({slot}) = 1
      BY FS_Singleton
    <3> QED
      BY <2>3, <3>1
  <2> QED
    BY <2>1, <2>2, <2>3
<1> QED
  BY <1>1, <1>2, OnceCardinality DEF Once!RunsAreExcused

-----------------------------------------------------------------------------
(* Saga.                                                                    *)

\* A step of the parts is one of the saga or leaves it as it is.
LEMMA SagaMoves == [MCNext]_allVars => [Undo!Next]_sagaVars
BY DEF allVars, MCNext, Rest, Still, sagaVars

\* What the loop under way knows of the statuses.
SagaProgress ==
  /\ doing = "new" => runs = 0
  /\ doing = "execute" => step >= 1 /\ \A s \in 1..SagaSteps :
                            status[s] = IF s < step THEN "COMPLETED" ELSE "PENDING"
  /\ doing = "done" => \A s \in 1..SagaSteps : status[s] = "COMPLETED"
  /\ doing = "compensate" => step <= SagaSteps /\ \A s \in 1..SagaSteps :
                               IF s <= step THEN status[s] \in {"COMPLETED", "FAILED"}
                                            ELSE status[s] # "COMPLETED"
  /\ doing \in {"new", "failed"} => \A s \in 1..SagaSteps : status[s] # "COMPLETED"

StillDone(s) == IF status[s] = "COMPLETED" THEN 1 ELSE 0
\* Executions that succeeded before this one, and what each step has left.
EffectsAreAccounted(won) ==
  /\ won \in Nat /\ (doing = "new" => won = 0) /\ (doing # "new" => won < runs)
  /\ \A s \in 1..SagaSteps : effects[s] = won + halfway[s] + stuck[s] + StillDone(s)
\* A step takes effect once in an execution.
OncePerRun ==
  \A s \in 1..SagaSteps :
    /\ effects[s] <= runs
    /\ doing = "execute" /\ step <= s => effects[s] < runs

SagaTypes ==
  /\ effects \in [1..SagaSteps -> Nat] /\ halfway \in [1..SagaSteps -> Nat]
  /\ stuck \in [1..SagaSteps -> Nat]
  /\ status \in [1..SagaSteps -> {"PENDING", "COMPLETED", "FAILED", "COMPENSATED", "COMPENSATION_FAILED"}]
  /\ step \in 0..SagaSteps + 1 /\ doing \in {"new", "execute", "compensate", "done", "failed"}
  /\ runs \in 0..MaxRuns

SagaInv == SagaTypes /\ SagaProgress /\ OncePerRun /\ \E won \in Nat : EffectsAreAccounted(won)

\* No step has been made.
LEMMA SagaInit == Undo!Init => SagaInv
<1> SUFFICES ASSUME Undo!Init PROVE SagaInv
  OBVIOUS
<1>1. Undo!Init
  OBVIOUS
<1>2. EffectsAreAccounted(0) /\ 0 \in Nat
  BY <1>1 DEF Undo!Init, Undo!Steps, EffectsAreAccounted, StillDone
<1>3. SagaTypes /\ SagaProgress /\ OncePerRun
  BY <1>1, SagaAssumption DEF Undo!Init, Undo!Steps, SagaTypes, SagaProgress, OncePerRun
<1> QED
  BY <1>2, <1>3 DEF SagaInv

\* A step is made or fails, is compensated or not, or the saga runs again.
LEMMA SagaNext == SagaInv /\ [Undo!Next]_sagaVars => SagaInv'
<1> SUFFICES ASSUME SagaInv, [Undo!Next]_sagaVars PROVE SagaInv'
  OBVIOUS
<1> USE SagaAssumption DEF Undo!Steps
<1>0. SagaTypes /\ SagaProgress /\ OncePerRun
  BY DEF SagaInv
<1>w. PICK won \in Nat : EffectsAreAccounted(won)
  BY DEF SagaInv
<1>1. CASE Undo!Execute
  \* The execution before this one succeeded, or not.
  <2>1. PICK before \in Nat : before = IF doing = "done" THEN won + 1 ELSE won
    OBVIOUS
  <2>2. SagaTypes'
    BY <1>0, <1>1 DEF Undo!Execute, SagaTypes
  <2>3. SagaProgress' /\ OncePerRun'
    BY <1>0, <1>1, <2>2 DEF Undo!Execute, SagaTypes, SagaProgress, OncePerRun
  <2>4. \A s \in 1..SagaSteps : effects[s] = before + halfway[s] + stuck[s]
    <3>1. ASSUME NEW s \in 1..SagaSteps PROVE effects[s] = before + halfway[s] + stuck[s]
      <4>1. effects[s] = won + halfway[s] + stuck[s] + StillDone(s)
        BY <1>w DEF EffectsAreAccounted
      <4>2. StillDone(s) = IF doing = "done" THEN 1 ELSE 0
        BY <1>0, <1>1 DEF Undo!Execute, SagaProgress, StillDone
      <4> QED
        BY <1>0, <2>1, <4>1, <4>2 DEF SagaTypes
    <3> QED
      BY <3>1
  <2>5. EffectsAreAccounted(before)'
    <3>1. \A s \in 1..SagaSteps : StillDone(s)' = 0
      BY <1>1 DEF Undo!Execute, StillDone
    <3>2. before < runs'
      BY <1>0, <2>1, <1>w, <1>1 DEF Undo!Execute, EffectsAreAccounted, SagaTypes, SagaProgress
    <3>3. doing' = "execute" /\ UNCHANGED <<effects, halfway, stuck>>
      BY <1>1 DEF Undo!Execute
    <3>4. ASSUME NEW s \in 1..SagaSteps PROVE (effects[s] = before + halfway[s] + stuck[s] + StillDone(s))'
      <4>1. effects[s] = before + halfway[s] + stuck[s] /\ StillDone(s)' = 0
            /\ halfway[s] \in Nat /\ stuck[s] \in Nat
        BY <1>0, <2>4, <3>1 DEF SagaTypes
      <4>2. effects'[s] = effects[s] /\ halfway'[s] = halfway[s] /\ stuck'[s] = stuck[s]
        BY <3>3
      <4> QED
        BY <2>1, <4>1, <4>2
    <3>5. before \in Nat /\ ~ (doing' = "new") /\ (before < runs')
      BY <2>1, <3>2, <3>3
    <3> QED
      BY <3>4, <3>5 DEF EffectsAreAccounted
  <2> QED
    BY <2>1, <2>2, <2>3, <2>5 DEF SagaInv
<1>2. CASE Undo!StepSucceeds
  <2>1. /\ step \in 1..SagaSteps /\ doing = "execute" /\ step' = step + 1
        /\ status[step] = "PENDING" /\ status' = [status EXCEPT ![step] = "COMPLETED"]
        /\ effects' = [effects EXCEPT ![step] = effects[step] + 1]
        /\ UNCHANGED <<doing, runs, halfway, stuck>>
    BY <1>0, <1>2 DEF Undo!StepSucceeds, SagaTypes, SagaProgress
  <2>2. SagaTypes'
    BY <1>0, <2>1 DEF SagaTypes
  <2>a. \A s \in 1..SagaSteps :
          /\ status'[s] = IF s = step THEN "COMPLETED" ELSE status[s]
          /\ effects'[s] = IF s = step THEN effects[s] + 1 ELSE effects[s]
    BY <1>0, <2>1 DEF SagaTypes
  <2>3. SagaProgress'
    BY <1>0, <2>1, <2>a DEF SagaTypes, SagaProgress
  <2>5. OncePerRun'
    <3>1. ASSUME NEW s \in 1..SagaSteps
          PROVE  effects'[s] <= runs /\ (step + 1 <= s => effects'[s] < runs)
      <4>1. effects[s] \in Nat /\ runs \in Nat /\ effects[s] <= runs /\ (step <= s => effects[s] < runs)
        BY <1>0, <2>1 DEF SagaTypes, OncePerRun
      <4> QED
        BY <2>1, <2>a, <4>1
    <3> QED
      BY <2>1, <3>1 DEF OncePerRun
  <2>4. EffectsAreAccounted(won)'
    <3>1. ASSUME NEW s \in 1..SagaSteps PROVE (effects[s] = won + halfway[s] + stuck[s] + StillDone(s))'
      <4>1. effects[s] = won + halfway[s] + stuck[s] + StillDone(s)
            /\ halfway[s] \in Nat /\ stuck[s] \in Nat /\ effects[s] \in Nat
        BY <1>0, <1>w DEF SagaTypes, EffectsAreAccounted
      <4> QED
        BY <1>w, <2>1, <2>a, <4>1 DEF StillDone
    <3> QED
      BY <1>w, <2>1, <3>1 DEF EffectsAreAccounted
  <2> QED
    BY <2>2, <2>3, <2>4, <2>5 DEF SagaInv
<1>3. ASSUME NEW b \in BOOLEAN, Undo!StepFails(b) PROVE SagaInv'
  <2>1. /\ step \in 1..SagaSteps /\ doing = "execute" /\ doing' = "compensate"
        /\ status[step] = "PENDING" /\ status' = [status EXCEPT ![step] = "FAILED"]
        /\ UNCHANGED <<step, runs, stuck>>
        /\ \/ UNCHANGED <<effects, halfway>>
           \/ /\ effects' = [effects EXCEPT ![step] = effects[step] + 1]
              /\ halfway' = [halfway EXCEPT ![step] = halfway[step] + 1]
    BY <1>0, <1>3 DEF Undo!StepFails, SagaTypes, SagaProgress
  <2>2. SagaTypes'
    <3>0. status' \in [1..SagaSteps -> {"PENDING", "COMPLETED", "FAILED", "COMPENSATED", "COMPENSATION_FAILED"}]
      BY <1>0, <2>1 DEF SagaTypes
    <3>1. CASE UNCHANGED <<effects, halfway>>
      BY <1>0, <2>1, <3>0, <3>1 DEF SagaTypes
    <3>2. CASE /\ effects' = [effects EXCEPT ![step] = effects[step] + 1]
               /\ halfway' = [halfway EXCEPT ![step] = halfway[step] + 1]
      <4>1. effects' \in [1..SagaSteps -> Nat] /\ halfway' \in [1..SagaSteps -> Nat]
        BY <1>0, <2>1, <3>2 DEF SagaTypes
      <4> QED
        BY <1>0, <2>1, <3>0, <4>1 DEF SagaTypes
    <3> QED
      BY <2>1, <3>1, <3>2
  <2>3. SagaProgress'
    BY <1>0, <2>1 DEF SagaTypes, SagaProgress
  <2>5. OncePerRun'
    <3>1. ASSUME NEW s \in 1..SagaSteps PROVE effects'[s] <= runs
      <4>1. effects[s] \in Nat /\ runs \in Nat /\ effects[s] <= runs /\ (s = step => effects[s] < runs)
        BY <1>0, <2>1 DEF SagaTypes, OncePerRun
      <4>2. effects'[s] = effects[s] \/ (s = step /\ effects'[s] = effects[s] + 1)
        BY <1>0, <2>1 DEF SagaTypes
      <4> QED
        BY <4>1, <4>2
    <3> QED
      BY <2>1, <3>1 DEF OncePerRun
  <2>4. EffectsAreAccounted(won)'
    <3>1. ASSUME NEW s \in 1..SagaSteps PROVE (effects[s] = won + halfway[s] + stuck[s] + StillDone(s))'
      <4>1. effects[s] = won + halfway[s] + stuck[s] + StillDone(s)
            /\ halfway[s] \in Nat /\ stuck[s] \in Nat /\ effects[s] \in Nat
        BY <1>0, <1>w DEF SagaTypes, EffectsAreAccounted
      <4>2. stuck'[s] = stuck[s] /\ StillDone(s)' = StillDone(s) /\ StillDone(s) \in Nat
        BY <1>0, <2>1 DEF StillDone, SagaTypes
      <4>3. \/ effects'[s] = effects[s] /\ halfway'[s] = halfway[s]
            \/ effects'[s] = effects[s] + 1 /\ halfway'[s] = halfway[s] + 1
        BY <1>0, <2>1 DEF SagaTypes
      <4> QED
        BY <1>w, <4>1, <4>2, <4>3
    <3> QED
      BY <1>w, <2>1, <3>1 DEF EffectsAreAccounted
  <2> QED
    BY <2>2, <2>3, <2>4, <2>5 DEF SagaInv
<1>4. CASE Undo!Finish
  <2>2. SagaTypes'
    BY <1>0, <1>4 DEF Undo!Finish, SagaTypes
  <2>3. SagaProgress' /\ OncePerRun'
    BY <1>0, <1>4 DEF Undo!Finish, SagaTypes, SagaProgress, OncePerRun
  <2>4. EffectsAreAccounted(won)'
    BY <1>0, <1>w, <1>4 DEF Undo!Finish, SagaTypes, SagaProgress, EffectsAreAccounted, StillDone
  <2> QED
    BY <2>2, <2>3, <2>4 DEF SagaInv
<1>5. ASSUME NEW b \in BOOLEAN, Undo!Compensate(b) PROVE SagaInv'
  <2>1. /\ step \in 1..SagaSteps /\ doing = "compensate" /\ step' = step - 1
        /\ status[step] # "COMPENSATION_FAILED" /\ UNCHANGED <<doing, runs, halfway>>
        /\ \/ status[step] # "COMPLETED" /\ UNCHANGED <<status, effects, stuck>>
           \/ /\ status[step] = "COMPLETED" /\ UNCHANGED stuck
              /\ status' = [status EXCEPT ![step] = "COMPENSATED"]
              /\ effects' = [effects EXCEPT ![step] = effects[step] - 1]
           \/ /\ status[step] = "COMPLETED" /\ UNCHANGED effects
              /\ status' = [status EXCEPT ![step] = "COMPENSATION_FAILED"]
              /\ stuck' = [stuck EXCEPT ![step] = stuck[step] + 1]
    BY <1>0, <1>5 DEF Undo!Compensate, SagaTypes, SagaProgress
  <2>b. \/ effects' = effects
        \/ effects' = [effects EXCEPT ![step] = effects[step] - 1] /\ status[step] = "COMPLETED"
    BY <2>1, Zenon
  <2>c. stuck' = stuck \/ stuck' = [stuck EXCEPT ![step] = stuck[step] + 1]
    BY <2>1, Zenon
  <2>d. halfway' = halfway /\ doing' = doing /\ runs' = runs /\ step' = step - 1 /\ step \in 1..SagaSteps
    BY <2>1, Zenon
  <2>0. status[step] = "COMPLETED" => effects[step] >= 1
    BY <1>0, <1>w, <2>1 DEF EffectsAreAccounted, StillDone, SagaTypes
  <2>2. SagaTypes'
    <3>1. effects' \in [1..SagaSteps -> Nat]
      <4>1. effects[step] \in Nat /\ (status[step] = "COMPLETED" => effects[step] - 1 \in Nat)
        BY <1>0, <2>0, <2>d DEF SagaTypes
      <4>3. effects \in [1..SagaSteps -> Nat]
        BY <1>0 DEF SagaTypes
      <4> QED
        BY <2>b, <2>d, <4>1, <4>3
    <3>2. stuck' \in [1..SagaSteps -> Nat] /\ halfway' \in [1..SagaSteps -> Nat]
      <4>1. stuck \in [1..SagaSteps -> Nat] /\ halfway' = halfway /\ stuck[step] + 1 \in Nat
        BY <1>0, <2>d DEF SagaTypes
      <4>2. halfway \in [1..SagaSteps -> Nat]
        BY <1>0 DEF SagaTypes
      <4> QED
        BY <2>c, <2>d, <4>1, <4>2
    <3>3. status' \in [1..SagaSteps -> {"PENDING", "COMPLETED", "FAILED", "COMPENSATED", "COMPENSATION_FAILED"}]
      BY <1>0, <2>1 DEF SagaTypes
    <3>4. step' \in 0..SagaSteps + 1 /\ doing' = doing /\ runs' = runs
      BY <1>0, <2>d DEF SagaTypes
    <3> QED
      BY <1>0, <3>1, <3>2, <3>3, <3>4 DEF SagaTypes
  <2>3. SagaProgress'
    <3>1. \A s \in 1..SagaSteps : s # step => status'[s] = status[s]
      BY <1>0, <2>1 DEF SagaTypes
    <3>2. status'[step] # "COMPLETED"
      BY <1>0, <2>1 DEF SagaTypes
    <3>3. /\ step' = step - 1 /\ step \in 1..SagaSteps /\ doing' = "compensate"
          /\ \A s \in 1..SagaSteps : IF s <= step THEN status[s] \in {"COMPLETED", "FAILED"}
                                                ELSE status[s] # "COMPLETED"
      BY <1>0, <2>1 DEF SagaProgress
    <3> QED
      BY <3>1, <3>2, <3>3 DEF SagaProgress
  <2>5. OncePerRun'
    <3>1. ASSUME NEW s \in 1..SagaSteps PROVE effects'[s] <= effects[s] /\ effects[s] \in Nat /\ effects'[s] \in Nat
      <4>1. effects \in [1..SagaSteps -> Nat] /\ effects' \in [1..SagaSteps -> Nat]
        BY <1>0, <2>2 DEF SagaTypes
      <4> QED
        BY <2>b, <2>d, <4>1
    <3>2. ASSUME NEW s \in 1..SagaSteps PROVE effects'[s] <= runs
      BY <1>0, <3>1, <3>2 DEF SagaTypes, OncePerRun
    <3> QED
      BY <2>1, <3>2 DEF OncePerRun
  <2>4. EffectsAreAccounted(won)'
    <3>1. ASSUME NEW s \in 1..SagaSteps PROVE (effects[s] = won + halfway[s] + stuck[s] + StillDone(s))'
      <4>1. effects[s] = won + halfway[s] + stuck[s] + StillDone(s)
            /\ halfway[s] \in Nat /\ stuck[s] \in Nat /\ effects[s] \in Nat
        BY <1>0, <1>w DEF SagaTypes, EffectsAreAccounted
      <4>2. halfway'[s] = halfway[s] /\ StillDone(s) \in Nat
        BY <2>1 DEF StillDone
      <4>3. CASE s # step
        <5>1. effects'[s] = effects[s] /\ stuck'[s] = stuck[s] /\ StillDone(s)' = StillDone(s)
          BY <1>0, <2>1, <4>3 DEF StillDone, SagaTypes
        <5> QED
          BY <4>1, <4>2, <5>1
      <4>4. CASE s = step
        <5>1. \/ effects'[s] = effects[s] /\ stuck'[s] = stuck[s] /\ StillDone(s)' = StillDone(s)
              \/ effects'[s] = effects[s] - 1 /\ stuck'[s] = stuck[s] /\ StillDone(s)' = 0 /\ StillDone(s) = 1
              \/ effects'[s] = effects[s] /\ stuck'[s] = stuck[s] + 1 /\ StillDone(s)' = 0 /\ StillDone(s) = 1
          BY <1>0, <2>1, <4>4 DEF StillDone, SagaTypes
        <5> QED
          BY <1>w, <4>1, <4>2, <5>1
      <4> QED
        BY <4>3, <4>4
    <3> QED
      BY <1>w, <2>1, <3>1 DEF EffectsAreAccounted
  <2> QED
    BY <2>2, <2>3, <2>4, <2>5 DEF SagaInv
<1>6. CASE UNCHANGED sagaVars
  <2>4. EffectsAreAccounted(won)'
    BY <1>w, <1>6 DEF sagaVars, EffectsAreAccounted, StillDone
  <2> QED
    BY <1>0, <1>6, <2>4 DEF sagaVars, SagaInv, SagaTypes, SagaProgress, OncePerRun
<1> QED
  BY <1>1, <1>2, <1>3, <1>4, <1>5, <1>6 DEF Undo!Next

\* What is left behind is accounted for.
LEMMA SagaHolds == SagaInv => Undo!TypeOK /\ Undo!LeftBehind
<1> SUFFICES ASSUME SagaInv PROVE Undo!TypeOK /\ Undo!LeftBehind
  OBVIOUS
<1>w. PICK won \in Nat : EffectsAreAccounted(won)
  BY DEF SagaInv
<1>0. \A s \in 1..SagaSteps : effects[s] = won + halfway[s] + stuck[s] + StillDone(s)
  BY <1>w DEF EffectsAreAccounted
<1>1. ASSUME doing = "failed"
      PROVE  won \in 0..MaxRuns /\ \A s \in 1..SagaSteps : effects[s] = won + halfway[s] + stuck[s]
  <2>1. \A s \in 1..SagaSteps : StillDone(s) = 0
    BY <1>1 DEF SagaInv, SagaProgress, StillDone
  <2> QED
    <3>1. won \in Nat /\ won < runs /\ runs \in 0..MaxRuns
      BY <1>1, <1>w DEF SagaInv, SagaTypes, EffectsAreAccounted
    <3>2. \A s \in 1..SagaSteps : effects[s] = won + halfway[s] + stuck[s] + 0 /\ halfway[s] \in Nat /\ stuck[s] \in Nat
      BY <1>0, <2>1 DEF SagaInv, SagaTypes
    <3> QED
      BY <3>1, <3>2, SagaAssumption
<1>5. Undo!LeftBehind
  BY <1>1 DEF Undo!LeftBehind, Undo!Steps
<1>2. \A s \in 1..SagaSteps : effects[s] \in 0..MaxRuns /\ halfway[s] \in 0..MaxRuns /\ stuck[s] \in 0..MaxRuns
  <2>1. \A s \in 1..SagaSteps : StillDone(s) \in Nat
    BY DEF StillDone
  <2>2. ASSUME NEW s \in 1..SagaSteps
        PROVE  effects[s] \in 0..MaxRuns /\ halfway[s] \in 0..MaxRuns /\ stuck[s] \in 0..MaxRuns
    <3>1. /\ effects[s] \in Nat /\ halfway[s] \in Nat /\ stuck[s] \in Nat
          /\ effects[s] <= runs /\ runs <= MaxRuns /\ runs \in Nat
          /\ effects[s] = won + halfway[s] + stuck[s] + StillDone(s) /\ StillDone(s) \in Nat
      BY <1>0, <2>1, SagaAssumption DEF SagaInv, SagaTypes, OncePerRun
    <3> QED
      BY <3>1, SagaAssumption
  <2> QED
    BY <2>2
<1>3. effects \in [1..SagaSteps -> 0..MaxRuns] /\ halfway \in [1..SagaSteps -> 0..MaxRuns]
      /\ stuck \in [1..SagaSteps -> 0..MaxRuns]
  BY <1>2 DEF SagaInv, SagaTypes
<1>4. {effects, halfway, stuck} \subseteq [1..SagaSteps -> 0..MaxRuns]
  BY <1>3
<1> QED
  BY <1>5, <1>4 DEF SagaInv, SagaTypes, Undo!TypeOK, Undo!Steps

-----------------------------------------------------------------------------
(* GrpcClient.                                                              *)

\* A step of the parts is one of the gRPC client or leaves it as it is.
LEMMA GrpcSteps == [MCNext]_allVars => [Client!Next]_grpcVars
BY DEF allVars, MCNext, Rest, Still, grpcVars

\* Cardinality is the same operator inside the instance.
LEMMA SameCardinality == \A S : Client!Cardinality(S) = Cardinality(S)
BY DEF Client!Cardinality, Cardinality

Fuses ==
  [state : {"closed", "open", "half-open"}, requests : 0..MaxRequests, failures : 0..Threshold,
   successes : 0..MaxRequests, left : 0..Client!MaxOf(Interval, Timeout)]
CurrentCalls(c) == {w \in Pool : c[w] = "current"}

\* What a breaker b, its calls and the workers it blames say of each other.  A
\* worker that is blamed has not yet got an answer to its next GetProblem; a
\* half-open breaker has let through the calls under way and those that
\* succeeded, which are too few to close it.
FuseIsSound(b, c, who, n) ==
  /\ b \in Fuses /\ c \in [Pool -> {"none", "current", "old"}]
  /\ who \subseteq Pool /\ n = Cardinality(who)
  /\ n <= b.failures /\ b.failures < Threshold
  /\ ~missed => n = b.failures
  /\ ~missed /\ ~broad => b.state = "closed"
  /\ \A w \in who : station[w] = "idle" \/ (station[w] = "fetch" /\ c[w] # "old")
  /\ \A w \in Pool : station[w] \in {"idle", "run"} => c[w] = "none"
  /\ b.state = "open" => CurrentCalls(c) = {}
  /\ b.state = "half-open" =>
       /\ b.requests = Cardinality(CurrentCalls(c)) + b.successes /\ b.successes < MaxRequests
       /\ b.failures = 0

GrpcInv ==
  /\ FuseIsSound(fuse, sent, blamed, others)
  /\ station \in [Pool -> {"idle", "fetch", "run", "persist", "board"}]
  /\ missed \in BOOLEAN /\ broad \in BOOLEAN /\ dead \in BOOLEAN
  /\ dead /\ ~missed => broad

\* A new generation starts with nothing counted.
LEMMA FreshIsAFuse ==
  ASSUME NEW s \in {"closed", "open", "half-open"}
  PROVE  /\ Client!Fresh(s) \in Fuses /\ Client!Fresh(s).state = s
         /\ Client!Fresh(s).failures = 0 /\ Client!Fresh(s).requests = 0
         /\ Client!Fresh(s).successes = 0
BY GrpcAssumption DEF Client!Fresh, Fuses, Client!MaxOf

\* The calls of the breaker's generation can be counted.
LEMMA FewCalls ==
  ASSUME NEW c
  PROVE  IsFiniteSet(CurrentCalls(c)) /\ Cardinality(CurrentCalls(c)) \in Nat
         /\ \A w \in CurrentCalls(c) : Cardinality(CurrentCalls(c) \ {w}) = Cardinality(CurrentCalls(c)) - 1
<1>1. CurrentCalls(c) \subseteq Pool
  BY DEF CurrentCalls
<1>2. IsFiniteSet(CurrentCalls(c))
  BY <1>1, GrpcAssumption, FS_Subset
<1> QED
  BY <1>2, FS_CardinalityType, FS_RemoveElement

\* The empty set.
LEMMA NobodyIsBlamed == IsFiniteSet({}) /\ Cardinality({}) = 0
BY FS_EmptySet

\* No call is under way.
LEMMA GrpcInit == Client!Init => GrpcInv
<1> SUFFICES ASSUME Client!Init PROVE GrpcInv
  OBVIOUS
<1>1. Client!Init
  OBVIOUS
<1>2. FuseIsSound(fuse, sent, blamed, others)
  BY <1>1, FreshIsAFuse, NobodyIsBlamed, GrpcAssumption DEF Client!Init, FuseIsSound, CurrentCalls
<1> QED
  BY <1>1, <1>2 DEF Client!Init, GrpcInv

\* What the breaker does when its time is over.
CallsLeft == IF Client!Lapsed THEN Client!Outdated(sent) ELSE sent
WhoLeft == IF Client!Lapsed THEN {} ELSE blamed
OthersLeft == IF Client!Lapsed THEN 0 ELSE others

\* No call under way is of a generation that has just begun.
LEMMA GenerationsEnd ==
  ASSUME NEW c \in [Pool -> {"none", "current", "old"}]
  PROVE  /\ Client!Outdated(c) \in [Pool -> {"none", "current", "old"}]
         /\ CurrentCalls(Client!Outdated(c)) = {}
         /\ \A w \in Pool : c[w] = "none" <=> Client!Outdated(c)[w] = "none"
BY DEF Client!Outdated, CurrentCalls

\* The end of an interval, or of the time a breaker is open, changes nothing of it.
LEMMA LapseIsSound == GrpcInv => FuseIsSound(Client!CurrentState, CallsLeft, WhoLeft, OthersLeft)
<1> SUFFICES ASSUME GrpcInv PROVE FuseIsSound(Client!CurrentState, CallsLeft, WhoLeft, OthersLeft)
  OBVIOUS
<1>1. CASE ~Client!Lapsed
  BY <1>1 DEF GrpcInv, Client!CurrentState, CallsLeft, WhoLeft, OthersLeft
<1>2. CASE Client!Lapsed
  <2>1. PICK s \in {"half-open", "closed"} : /\ Client!CurrentState = Client!Fresh(s)
                                              /\ (~missed /\ ~broad => s = "closed")
    BY <1>2 DEF Client!CurrentState, GrpcInv, FuseIsSound
  <2>2. CallsLeft = Client!Outdated(sent) /\ WhoLeft = {} /\ OthersLeft = 0
    BY <1>2 DEF CallsLeft, WhoLeft, OthersLeft
  <2>3. CallsLeft \in [Pool -> {"none", "current", "old"}] /\ CurrentCalls(CallsLeft) = {}
        /\ \A w \in Pool : sent[w] = "none" <=> CallsLeft[w] = "none"
    BY <2>2, GenerationsEnd DEF GrpcInv, FuseIsSound
  <2>4. \A w \in Pool : station[w] \in {"idle", "run"} => CallsLeft[w] = "none"
    BY <2>3 DEF GrpcInv, FuseIsSound
  <2>5. /\ Client!Fresh(s) \in Fuses /\ Client!Fresh(s).state = s /\ Client!Fresh(s).failures = 0
        /\ Client!Fresh(s).requests = 0 /\ Client!Fresh(s).successes = 0
    BY <2>1, FreshIsAFuse
  <2> QED
    BY <2>1, <2>2, <2>3, <2>4, <2>5, NobodyIsBlamed, GrpcAssumption DEF FuseIsSound
<1> QED
  BY <1>1, <1>2

\* beforeRequest lets a call through, or makes the worker give up.
LEMMA BeginKeepsSound ==
  ASSUME GrpcInv, NEW w \in Pool, Client!Begin(w)
  PROVE  GrpcInv'
<1> DEFINE b == Client!CurrentState
           refused == b.state = "open" \/ (b.state = "half-open" /\ b.requests >= MaxRequests)
<1>1. FuseIsSound(b, CallsLeft, WhoLeft, OthersLeft)
  BY LapseIsSound
<1>2. /\ station[w] \in {"fetch", "persist", "board"} /\ sent[w] = "none" /\ CallsLeft[w] = "none"
      /\ blamed' = WhoLeft /\ others' = OthersLeft /\ missed' = missed /\ broad' = broad
  BY GenerationsEnd DEF Client!Begin, WhoLeft, OthersLeft, CallsLeft, GrpcInv, FuseIsSound
<1>3. CASE refused
  <2>1. /\ station' = [station EXCEPT ![w] = "idle"] /\ dead' = (dead \/ station[w] = "fetch")
        /\ fuse' = b /\ sent' = CallsLeft
    BY <1>3 DEF Client!Begin, Client!GiveUp, CallsLeft
  <2>2. ~missed => broad
    BY <1>1, <1>3 DEF FuseIsSound, GrpcInv
  <2> HIDE DEF b
  <2>3. FuseIsSound(fuse, sent, blamed, others)'
    BY <1>1, <1>2, <2>1 DEF FuseIsSound, GrpcInv, CurrentCalls
  <2>4. station' \in [Pool -> {"idle", "fetch", "run", "persist", "board"}]
    BY <2>1 DEF GrpcInv
  <2>5. dead' \in BOOLEAN /\ (dead' /\ ~missed' => broad')
    BY <1>2, <2>1, <2>2, Zenon DEF GrpcInv
  <2>6. missed' \in BOOLEAN /\ broad' \in BOOLEAN
    BY <1>2 DEF GrpcInv
  <2> QED
    BY <2>3, <2>4, <2>5, <2>6 DEF GrpcInv
<1>4. CASE ~refused
  <2>1. /\ fuse' = IF b.state = "half-open" THEN [b EXCEPT !.requests = @ + 1] ELSE b
        /\ sent' = [CallsLeft EXCEPT ![w] = "current"] /\ UNCHANGED <<station, dead>>
    BY <1>4 DEF Client!Begin, CallsLeft
  <2>2. b.state # "open" /\ (b.state = "half-open" => b.requests < MaxRequests)
    BY <1>1, <1>4, GrpcAssumption DEF FuseIsSound, Fuses
  <2> HIDE DEF b
  <2>3. CurrentCalls(sent') = CurrentCalls(CallsLeft) \cup {w} /\ w \notin CurrentCalls(CallsLeft)
    BY <1>1, <1>2, <2>1 DEF CurrentCalls, FuseIsSound
  <2>4. Cardinality(CurrentCalls(sent')) = Cardinality(CurrentCalls(CallsLeft)) + 1 /\ Cardinality(CurrentCalls(CallsLeft)) \in Nat
    <3>1. IsFiniteSet(CurrentCalls(CallsLeft))
      BY FewCalls
    <3> QED
      BY <2>3, <3>1, FS_AddElement, FS_CardinalityType
  <2>5. /\ fuse' \in Fuses /\ fuse'.state = b.state /\ fuse'.failures = b.failures
        /\ fuse'.successes = b.successes
        /\ b.state = "half-open" => fuse'.requests = b.requests + 1
    BY <1>1, <2>1, <2>2, GrpcAssumption DEF FuseIsSound, Fuses
  <2>6. FuseIsSound(fuse, sent, blamed, others)'
    <3>1. sent' \in [Pool -> {"none", "current", "old"}]
      BY <1>1, <2>1 DEF FuseIsSound
    <3>2. \A v \in Pool : sent'[v] = IF v = w THEN "current" ELSE CallsLeft[v]
      BY <1>1, <2>1 DEF FuseIsSound
    <3>3. /\ \A v \in blamed' : station'[v] = "idle" \/ (station'[v] = "fetch" /\ sent'[v] # "old")
          /\ \A v \in Pool : station'[v] \in {"idle", "run"} => sent'[v] = "none"
      BY <1>1, <1>2, <2>1, <3>2 DEF FuseIsSound
    <3>4. fuse'.state = "half-open" =>
            /\ fuse'.requests = Cardinality(CurrentCalls(sent')) + fuse'.successes
            /\ fuse'.successes < MaxRequests /\ fuse'.failures = 0
      <4>1. ASSUME b.state = "half-open"
            PROVE  b.requests = Cardinality(CurrentCalls(CallsLeft)) + b.successes /\ b.successes < MaxRequests
                   /\ b.successes \in Nat /\ b.failures = 0
        BY <1>1, <4>1 DEF FuseIsSound, Fuses
      <4> QED
        BY <2>4, <2>5, <4>1
    <3> QED
      BY <1>1, <1>2, <2>2, <2>5, <3>1, <3>3, <3>4 DEF FuseIsSound
  <2> QED
    BY <1>2, <2>1, <2>6 DEF GrpcInv
<1> QED
  BY <1>3, <1>4

\* afterRequest: an answer that counts is a success, which clears what was blamed,
\* or a failure; a worker that fails past GetProblem was not blamed before.
LEMMA AnswerKeepsSound ==
  ASSUME GrpcInv, NEW w \in Pool, NEW ok \in BOOLEAN, Client!Answer(w, ok)
  PROVE  GrpcInv'
<1> DEFINE b == Client!CurrentState
           counts == CallsLeft[w] = "current"
           after == IF ~counts THEN b ELSE IF ok THEN Client!OnSuccess(b) ELSE Client!OnFailure(b)
           tells == counts /\ ~ok /\ b.state = "closed" /\ station[w] # "fetch"
           who == WhoLeft \cup {w}
           renewed == after.state # b.state
<1>1. FuseIsSound(b, CallsLeft, WhoLeft, OthersLeft)
  BY LapseIsSound
<1>2. /\ sent[w] \in {"current", "old"} /\ CallsLeft[w] \in {"current", "old"}
      /\ station[w] \in {"fetch", "persist", "board"}
      /\ counts <=> sent[w] = "current" /\ ~Client!Lapsed
  BY GenerationsEnd DEF Client!Answer, Client!Outdated, CallsLeft, GrpcInv, FuseIsSound
<1>3. /\ fuse' = after
      /\ sent' = [(IF renewed THEN Client!Outdated(CallsLeft) ELSE CallsLeft) EXCEPT ![w] = "none"]
      /\ blamed' = IF renewed \/ (counts /\ ok) THEN {} ELSE IF tells THEN who ELSE WhoLeft
      /\ others' = IF renewed \/ (counts /\ ok) THEN 0 ELSE IF tells THEN OthersLeft + 1 ELSE OthersLeft
      /\ broad' = (broad \/ (tells /\ Cardinality(who) >= Threshold))
      /\ missed' = (missed \/ (~ok /\ station[w] = "fetch"))
  <2>1. CASE Client!Lapsed
    BY <1>2, <2>1 DEF Client!Answer, CallsLeft, WhoLeft, OthersLeft
  <2>2. CASE ~Client!Lapsed
    BY <1>2, <2>2, SameCardinality DEF Client!Answer, CallsLeft, WhoLeft, OthersLeft
  <2> QED
    BY <2>1, <2>2
<1>4. /\ station' \in [Pool -> {"idle", "fetch", "run", "persist", "board"}]
      /\ \A v \in Pool \ {w} : station'[v] = station[v]
      /\ ~ok => station'[w] = "idle"
  <2>1. PICK x \in {"idle", "run", "board"} : station' = [station EXCEPT ![w] = x] /\ (~ok => x = "idle")
    BY <1>2 DEF Client!Answer, Client!GiveUp
  <2> QED
    BY <2>1 DEF GrpcInv
<1>5. broad' \in BOOLEAN /\ missed' \in BOOLEAN
  BY <1>3, Zenon DEF GrpcInv
<1>6. dead' \in BOOLEAN /\ (dead' /\ ~missed' => broad')
  <2>1. CASE ok
    <3>1. dead' = dead
      BY <2>1 DEF Client!Answer
    <3> QED
      BY <1>3, <3>1 DEF GrpcInv
  <2>2. CASE ~ok
    <3>1. dead' = (dead \/ station[w] = "fetch")
      BY <2>2 DEF Client!Answer, Client!GiveUp
    <3> QED
      BY <1>3, <2>2, <3>1, Zenon DEF GrpcInv
  <2> QED
    BY <2>1, <2>2
<1>7. /\ sent' \in [Pool -> {"none", "current", "old"}] /\ sent'[w] = "none"
      /\ renewed => CurrentCalls(sent') = {}
      /\ ~renewed => \A v \in Pool \ {w} : sent'[v] = CallsLeft[v]
      /\ \A v \in Pool : CallsLeft[v] = "none" => sent'[v] = "none"
  <2> HIDE DEF after, b
  <2>1. CASE renewed
    <3>1. Client!Outdated(CallsLeft) \in [Pool -> {"none", "current", "old"}]
          /\ CurrentCalls(Client!Outdated(CallsLeft)) = {}
          /\ \A v \in Pool : CallsLeft[v] = "none" <=> Client!Outdated(CallsLeft)[v] = "none"
      BY <1>1, GenerationsEnd DEF FuseIsSound
    <3> QED
      BY <1>3, <2>1, <3>1 DEF CurrentCalls
  <2>2. CASE ~renewed
    BY <1>1, <1>3, <2>2 DEF FuseIsSound
  <2> QED
    BY <2>1, <2>2
<1>8. /\ ~counts => CurrentCalls(CallsLeft) = CurrentCalls(sent') \/ renewed
      /\ counts /\ ~renewed => CurrentCalls(sent') = CurrentCalls(CallsLeft) \ {w} /\ w \in CurrentCalls(CallsLeft)
  <2> HIDE DEF after, b
  <2> QED
    BY <1>7 DEF CurrentCalls
<1>9. /\ Cardinality(CurrentCalls(CallsLeft)) \in Nat
      /\ \A v \in CurrentCalls(CallsLeft) : Cardinality(CurrentCalls(CallsLeft) \ {v}) = Cardinality(CurrentCalls(CallsLeft)) - 1
  BY FewCalls
<1>10. tells => OthersLeft + 1 = Cardinality(who) /\ OthersLeft \in Nat
  <2>1. IsFiniteSet(WhoLeft) /\ Cardinality(WhoLeft) \in Nat
    BY <1>1, GrpcAssumption, FS_Subset, FS_CardinalityType DEF FuseIsSound
  <2>2. tells => w \notin WhoLeft
    BY <1>1, <1>2 DEF FuseIsSound
  <2> QED
    BY <1>1, <2>1, <2>2, FS_AddElement DEF FuseIsSound
<1>11. \A v \in blamed' : station'[v] = "idle" \/ (station'[v] = "fetch" /\ sent'[v] # "old")
  <2> HIDE DEF after, b
  <2>1. ASSUME NEW v \in blamed' PROVE station'[v] = "idle" \/ (station'[v] = "fetch" /\ sent'[v] # "old")
    <3>1. ~renewed /\ ~(counts /\ ok) /\ v \in WhoLeft \cup {w} /\ v \in Pool /\ (v \in WhoLeft \/ ~ok)
      BY <1>1, <1>3, <2>1 DEF FuseIsSound
    <3>2. CASE v # w
      BY <1>1, <1>4, <1>7, <3>1, <3>2 DEF FuseIsSound
    <3>3. CASE v = w
      BY <1>1, <1>2, <1>4, <3>1, <3>3 DEF FuseIsSound
    <3> QED
      BY <3>2, <3>3
  <2> QED
    BY <2>1
<1>12. \A v \in Pool : station'[v] \in {"idle", "run"} => sent'[v] = "none"
  BY <1>1, <1>4, <1>7 DEF FuseIsSound
<1>13. ASSUME ~(counts /\ ~ok) PROVE FuseIsSound(fuse, sent, blamed, others)'
  <2>1. missed => missed'
    BY <1>3
  <2>2. missed' = (missed \/ (~ok /\ station[w] = "fetch")) /\ broad' = broad
    BY <1>3, <1>13, Zenon DEF GrpcInv
  <2>3. CASE ~counts
    <3>1. after = b /\ ~renewed
      BY <2>3
    <3>2. fuse' = b /\ blamed' = WhoLeft /\ others' = OthersLeft /\ CurrentCalls(sent') = CurrentCalls(CallsLeft)
      BY <1>3, <1>8, <2>3, <3>1
    <3> HIDE DEF after, b
    <3> QED
      BY <1>1, <1>7, <1>11, <1>12, <2>1, <2>2, <3>2 DEF FuseIsSound
  <2>4. CASE counts /\ ok
    <3>1. after = Client!OnSuccess(b) /\ blamed' = {} /\ others' = 0 /\ missed' = missed /\ fuse' = after
      BY <1>3, <2>4, Zenon DEF GrpcInv
    <3>2. w \in CurrentCalls(CallsLeft) /\ b.state # "open"
      BY <1>1, <2>4 DEF CurrentCalls, FuseIsSound
    <3> HIDE DEF b
    <3>3. CASE b.state = "closed"
      <4>1. after = [b EXCEPT !.failures = 0]
        BY <3>1, <3>3 DEF Client!OnSuccess
      <4>2. after \in Fuses /\ after.state = "closed" /\ after.failures = 0
        BY <1>1, <3>3, <4>1, GrpcAssumption DEF FuseIsSound, Fuses
      <4> HIDE DEF after
      <4> QED
        BY <1>7, <1>11, <1>12, <3>1, <4>2, NobodyIsBlamed, GrpcAssumption DEF FuseIsSound
    <3>4. CASE b.state = "half-open" /\ b.successes + 1 >= MaxRequests
      <4>1. after = Client!Fresh("closed")
        BY <3>1, <3>4 DEF Client!OnSuccess
      <4>2. after \in Fuses /\ after.state = "closed" /\ after.failures = 0
        BY <4>1, FreshIsAFuse
      <4> HIDE DEF after
      <4> QED
        BY <1>7, <1>11, <1>12, <3>1, <4>2, NobodyIsBlamed, GrpcAssumption DEF FuseIsSound
    <3>5. CASE b.state = "half-open" /\ ~(b.successes + 1 >= MaxRequests)
      <4>1. after = [b EXCEPT !.successes = @ + 1]
        BY <3>1, <3>5 DEF Client!OnSuccess
      <4>2. b \in Fuses /\ (missed \/ broad) /\ b.failures < Threshold
            /\ b.requests = Cardinality(CurrentCalls(CallsLeft)) + b.successes
            /\ b.failures = 0
        BY <1>1, <3>5 DEF FuseIsSound
      <4>3. /\ after \in Fuses /\ after.state = "half-open" /\ after.failures = b.failures
            /\ after.successes = b.successes + 1 /\ after.requests = b.requests
            /\ after.successes < MaxRequests /\ b.successes \in Nat
        BY <3>5, <4>1, <4>2, GrpcAssumption DEF Fuses
      <4>4. ~renewed
        BY <3>5, <4>3
      <4>5. Cardinality(CurrentCalls(sent')) = Cardinality(CurrentCalls(CallsLeft)) - 1
        BY <1>8, <1>9, <2>4, <3>2, <4>4
      <4> HIDE DEF after
      <4>6. after.requests = Cardinality(CurrentCalls(sent')) + after.successes
        BY <1>9, <4>2, <4>3, <4>5
      <4>7. (missed' \/ broad') /\ after.failures = 0
        BY <2>2, <3>1, <4>2, <4>3
      <4> QED
        BY <1>7, <1>11, <1>12, <3>1, <4>2, <4>3, <4>6, <4>7, NobodyIsBlamed, GrpcAssumption DEF FuseIsSound
    <3> QED
      BY <1>1, <3>2, <3>3, <3>4, <3>5 DEF FuseIsSound, Fuses
  <2> QED
    BY <1>13, <2>3, <2>4
<1>14. ASSUME counts, ~ok PROVE FuseIsSound(fuse, sent, blamed, others)'
  <2>1. after = Client!OnFailure(b) /\ fuse' = after
    BY <1>3, <1>14
  <2>2. w \in CurrentCalls(CallsLeft) /\ b.state # "open"
    BY <1>1, <1>14 DEF CurrentCalls, FuseIsSound
  <2> HIDE DEF b
  <2>3. b \in Fuses /\ OthersLeft <= b.failures /\ b.failures < Threshold /\ (~missed => OthersLeft = b.failures)
        /\ OthersLeft \in Nat
    <3>1. IsFiniteSet(WhoLeft) /\ Cardinality(WhoLeft) \in Nat
      BY <1>1, GrpcAssumption, FS_Subset, FS_CardinalityType DEF FuseIsSound
    <3> QED
      BY <1>1, <3>1 DEF FuseIsSound
  <2>4. missed' = (missed \/ station[w] = "fetch")
    BY <1>3, <1>14, Zenon
  <2>5. CASE b.state = "half-open" \/ Client!ReadyToTrip(b)
    <3>1. after = Client!Fresh("open")
      BY <2>1, <2>5 DEF Client!OnFailure
    <3>2. after \in Fuses /\ after.state = "open" /\ after.failures = 0 /\ renewed
      BY <2>2, <3>1, FreshIsAFuse
    <3>3. missed' \/ broad'
      <4>1. CASE b.state # "closed"
        BY <1>1, <1>3, <4>1 DEF FuseIsSound
      <4>2. CASE station[w] = "fetch"
        BY <2>4, <4>2
      <4>3. CASE b.state = "closed" /\ station[w] # "fetch" /\ ~missed
        <5>1. tells /\ b.failures + 1 >= Threshold /\ OthersLeft = b.failures
          BY <1>14, <2>3, <2>5, <4>3 DEF Client!ReadyToTrip
        <5> QED
          BY <1>3, <1>10, <5>1
      <4> QED
        BY <2>4, <4>1, <4>2, <4>3
    <3>4. blamed' = {} /\ others' = 0 /\ CurrentCalls(sent') = {}
      BY <1>3, <1>7, <3>2
    <3> HIDE DEF after
    <3> QED
      BY <1>7, <1>11, <1>12, <2>1, <3>2, <3>3, <3>4, NobodyIsBlamed, GrpcAssumption DEF FuseIsSound
  <2>6. CASE b.state = "closed" /\ ~Client!ReadyToTrip(b)
    <3>1. after = [b EXCEPT !.failures = @ + 1]
      BY <2>1, <2>6 DEF Client!OnFailure
    <3>2. after \in Fuses /\ after.state = "closed" /\ after.failures = b.failures + 1
          /\ after.failures < Threshold /\ b.failures \in Nat
      BY <2>3, <2>6, <3>1, GrpcAssumption DEF Fuses, Client!ReadyToTrip
    <3>3. ~renewed
      BY <2>6, <3>2
    <3> HIDE DEF after
    <3>4. CASE tells
      <4>1. blamed' = who /\ others' = OthersLeft + 1 /\ missed' = missed
        BY <1>3, <1>14, <2>4, <3>3, <3>4, Zenon DEF GrpcInv
      <4>2. others' = Cardinality(blamed') /\ blamed' \subseteq Pool
        BY <1>1, <1>10, <3>4, <4>1 DEF FuseIsSound
      <4> QED
        BY <1>7, <1>11, <1>12, <2>1, <2>3, <3>2, <4>1, <4>2 DEF FuseIsSound
    <3>5. CASE ~tells
      <4>1. blamed' = WhoLeft /\ others' = OthersLeft /\ station[w] = "fetch" /\ missed'
        BY <1>3, <1>14, <2>4, <2>6, <3>3, <3>5
      <4>2. others' = Cardinality(blamed') /\ blamed' \subseteq Pool
        BY <1>1, <4>1 DEF FuseIsSound
      <4> QED
        BY <1>7, <1>11, <1>12, <2>1, <2>3, <3>2, <4>1, <4>2 DEF FuseIsSound
    <3> QED
      BY <3>4, <3>5
  <2> QED
    BY <2>2, <2>3, <2>5, <2>6 DEF Fuses
<1> QED
  BY <1>4, <1>5, <1>6, <1>13, <1>14 DEF GrpcInv

\* Every step of the client.
LEMMA GrpcNext == GrpcInv /\ [Client!Next]_grpcVars => GrpcInv'
<1> SUFFICES ASSUME GrpcInv, [Client!Next]_grpcVars PROVE GrpcInv'
  OBVIOUS
<1>1. CASE Client!Tick
  <2>1. /\ fuse' = [fuse EXCEPT !.left = @ - 1] /\ fuse.left > 0
        /\ UNCHANGED <<station, sent, blamed, others, missed, broad, dead>>
    BY <1>1 DEF Client!Tick
  <2>2. /\ fuse' \in Fuses /\ fuse'.state = fuse.state /\ fuse'.failures = fuse.failures
        /\ fuse'.requests = fuse.requests /\ fuse'.successes = fuse.successes
    BY <2>1, GrpcAssumption DEF GrpcInv, FuseIsSound, Fuses, Client!MaxOf
  <2>3. FuseIsSound(fuse, sent, blamed, others)'
    BY <2>1, <2>2 DEF GrpcInv, FuseIsSound, CurrentCalls
  <2> QED
    BY <2>1, <2>3 DEF GrpcInv
<1>2. ASSUME NEW w \in Pool, Client!Take(w) PROVE GrpcInv'
  <2>1. FuseIsSound(fuse, sent, blamed, others)'
    BY <1>2 DEF GrpcInv, FuseIsSound, CurrentCalls, Client!Take
  <2> QED
    BY <1>2, <2>1 DEF GrpcInv, Client!Take
<1>3. ASSUME NEW w \in Pool, Client!Run(w) PROVE GrpcInv'
  <2>1. FuseIsSound(fuse, sent, blamed, others)'
    BY <1>3 DEF GrpcInv, FuseIsSound, CurrentCalls, Client!Run
  <2> QED
    BY <1>3, <2>1 DEF GrpcInv, Client!Run
<1>4. ASSUME NEW w \in Pool, Client!Begin(w) PROVE GrpcInv'
  BY <1>4, BeginKeepsSound
<1>5. ASSUME NEW w \in Pool, NEW ok \in BOOLEAN, Client!Answer(w, ok) PROVE GrpcInv'
  BY <1>5, AnswerKeepsSound
<1>6. CASE UNCHANGED grpcVars
  <2>1. FuseIsSound(fuse, sent, blamed, others)'
    BY <1>6 DEF grpcVars, GrpcInv, FuseIsSound, CurrentCalls
  <2> QED
    BY <1>6, <2>1 DEF grpcVars, GrpcInv
<1> QED
  BY <1>1, <1>2, <1>3, <1>4, <1>5, <1>6 DEF Client!Next

\* A lost job has Threshold failures behind it; a half-open breaker decides.
LEMMA GrpcHolds == GrpcInv => Client!TypeOK /\ Client!DeadJobsAreBlamed /\ Client!HalfOpenIsDecided
<1> SUFFICES ASSUME GrpcInv PROVE Client!TypeOK /\ Client!DeadJobsAreBlamed /\ Client!HalfOpenIsDecided
  OBVIOUS
<1>1. Cardinality(CurrentCalls(sent)) \in Nat /\ (CurrentCalls(sent) = {} => Cardinality(CurrentCalls(sent)) = 0)
  BY FewCalls, NobodyIsBlamed
<1>2. Cardinality(blamed) \in Nat
  BY GrpcAssumption, FS_Subset, FS_CardinalityType DEF GrpcInv, FuseIsSound
<1>3. Client!DeadJobsAreBlamed
  BY SameCardinality DEF Client!DeadJobsAreBlamed, GrpcInv, FuseIsSound
<1>4. Client!HalfOpenIsDecided
  <2>1. ASSUME fuse.state = "half-open", fuse.requests = MaxRequests PROVE CurrentCalls(sent) # {}
    BY <1>1, <2>1, GrpcAssumption DEF GrpcInv, FuseIsSound, Fuses
  <2> QED
    BY <2>1 DEF Client!HalfOpenIsDecided, CurrentCalls
<1>5. Client!TypeOK
  <2>1. others \in 0..Threshold
    BY <1>2, GrpcAssumption DEF GrpcInv, FuseIsSound, Fuses
  <2>2. fuse \in [state : {"closed", "open", "half-open"}, requests : 0..MaxRequests,
                  failures : 0..Threshold, successes : 0..MaxRequests,
                  left : 0..Client!MaxOf(Interval, Timeout)]
    BY DEF GrpcInv, FuseIsSound, Fuses
  <2> QED
    BY <2>1, <2>2 DEF GrpcInv, FuseIsSound, Client!TypeOK
<1> QED
  BY <1>3, <1>4, <1>5

-----------------------------------------------------------------------------
(* Judge.                                                                   *)

\* Every set of natural numbers that is not empty has a least one.
LEMMA LeastNumber == ASSUME NEW S \in SUBSET Nat, S # {} PROVE \E n \in S : \A m \in S : n <= m
<1> DEFINE R == {ss \in Nat \X Nat : ss[1] < ss[2]}
<1>1. IsWellFoundedOn(R, Nat)
  BY NatLessThanWellFounded DEF OpToRel
<1>2. \E x \in S : \A y \in S : ~ (<<y, x>> \in R)
  <2> HIDE DEF R
  <2> QED BY <1>1, WFMin
<1>3. PICK x \in S : \A y \in S : ~ (<<y, x>> \in R)
  BY <1>2
<1>4. ASSUME NEW m \in S, m < x PROVE FALSE
  <2>1. <<m, x>> \in R
    BY <1>4
  <2> QED
    BY <1>3, <2>1
<1> QED
  BY <1>4
\* A set with 0, and with the successor of each of its numbers, has them all.
LEMMA SetInduction == ASSUME NEW S, 0 \in S, \A n \in Nat : n \in S => n+1 \in S PROVE Nat \subseteq S
<1> SUFFICES ASSUME Nat \ S # {} PROVE FALSE
  OBVIOUS
<1>1. PICK n \in Nat \ S : \A m \in Nat \ S : n <= m
  BY LeastNumber
<1>2. n # 0 /\ n - 1 \in Nat /\ n - 1 \in S
  BY <1>1
<1> QED
  BY <1>1, <1>2

\* A step of the parts is one of the judges or leaves them as they are.
LEMMA JudgeSteps == [MCNext]_allVars => [Sandbox!Next]_judgeVars
BY DEF allVars, MCNext, Rest, Still, judgeVars

\* The tests of a job.
TheJob == tests \in UNION {[1..n -> Tests] : n \in 0..MaxTests} /\ compiles \in BOOLEAN /\ mode \in {"submit", "run"}

\* A job has a sequence of tests.
LEMMA TestsAreASequence ==
  ASSUME TheJob
  PROVE  /\ Sandbox!N \in 0..MaxTests /\ tests \in [1..Sandbox!N -> Tests]
         /\ \A i \in 1..Sandbox!N : tests[i] \in Sandbox!AllTests
<1>1. PICK n \in 0..MaxTests : tests \in [1..n -> Tests]
  BY DEF TheJob
<1>2. tests \in Seq(Tests)
  BY <1>1, JudgeAssumption, SeqDef
<1>3. Len(tests) = n
  BY <1>1, <1>2, JudgeAssumption
<1> QED
  BY <1>1, <1>3, JudgeAssumption DEF Sandbox!N

\* The prefix sums exist and grow with each test.
TimesAddUp(n, f) == f = [i \in 0..n |-> IF i = 0 THEN 0 ELSE f[i - 1] + tests[i].time]

\* By induction on their number.
LEMMA TimesCanBeAdded == TheJob => \E f : TimesAddUp(Sandbox!N, f)
<1> SUFFICES ASSUME TheJob PROVE \E f : TimesAddUp(Sandbox!N, f)
  OBVIOUS
<1> DEFINE S == {n \in Nat : \E f : TimesAddUp(n, f)}
<1>1. 0 \in S
  <2>1. TimesAddUp(0, [i \in 0..0 |-> 0])
    BY DEF TimesAddUp
  <2> QED
    BY <2>1
<1>2. ASSUME NEW n \in Nat, n \in S PROVE n + 1 \in S
  <2>1. PICK f : TimesAddUp(n, f)
    BY <1>2
  <2> DEFINE g == [i \in 0..n + 1 |-> IF i = n + 1 THEN f[n] + tests[n + 1].time ELSE f[i]]
  <2>2. ASSUME NEW i \in 0..n + 1 PROVE g[i] = IF i = 0 THEN 0 ELSE g[i - 1] + tests[i].time
    <3>1. CASE i = n + 1
      BY <3>1
    <3>2. CASE i # n + 1
      <4>1. i \in 0..n /\ g[i] = f[i] /\ (i # 0 => i - 1 \in 0..n + 1 /\ g[i - 1] = f[i - 1])
        BY <3>2
      <4>2. f[i] = IF i = 0 THEN 0 ELSE f[i - 1] + tests[i].time
        BY <2>1, <4>1 DEF TimesAddUp
      <4> QED
        BY <4>1, <4>2
    <3> QED
      BY <3>1, <3>2
  <2>3. g = [i \in 0..n + 1 |-> IF i = 0 THEN 0 ELSE g[i - 1] + tests[i].time]
    <3>1. g = [i \in 0..n + 1 |-> g[i]]
      OBVIOUS
    <3> HIDE DEF g
    <3> QED
      BY <2>2, <3>1
  <2> HIDE DEF g
  <2> QED
    BY <2>3 DEF TimesAddUp
<1> HIDE DEF S
<1>3. Nat \subseteq S
  BY <1>1, <1>2, SetInduction
<1>4. Sandbox!N \in Nat
  BY TestsAreASequence, JudgeAssumption
<1> QED
  BY <1>3, <1>4 DEF S

\* So the time that has passed after a test is what it was before, and the test's.
LEMMA ElapsedIsTheSum ==
  ASSUME TheJob
  PROVE  /\ Sandbox!Elapsed[0] = 0
         /\ \A i \in 1..Sandbox!N : Sandbox!Elapsed[i] = Sandbox!Elapsed[i - 1] + tests[i].time
<1>1. TimesAddUp(Sandbox!N, Sandbox!Elapsed)
  BY TimesCanBeAdded DEF TimesAddUp, Sandbox!Elapsed
<1>2. Sandbox!N \in Nat
  BY TestsAreASequence, JudgeAssumption
<1> QED
  BY <1>1, <1>2 DEF TimesAddUp

\* It never goes back.
LEMMA ElapsedGrows ==
  ASSUME TheJob
  PROVE  /\ \A i \in 0..Sandbox!N : Sandbox!Elapsed[i] \in Nat
         /\ \A i \in 1..Sandbox!N : tests[i].time <= Sandbox!Elapsed[i] /\ Sandbox!Elapsed[i - 1] <= Sandbox!Elapsed[i]
<1>0. Sandbox!N \in Nat /\ \A i \in 1..Sandbox!N : tests[i].time \in Nat
  BY TestsAreASequence, JudgeAssumption DEF Sandbox!AllTests
<1>1. \A i \in 0..Sandbox!N : Sandbox!Elapsed[i] \in Nat
  <2> DEFINE S == {n \in Nat : n <= Sandbox!N => Sandbox!Elapsed[n] \in Nat}
  <2>1. 0 \in S
    BY ElapsedIsTheSum
  <2>2. ASSUME NEW n \in Nat, n \in S PROVE n + 1 \in S
    <3>1. CASE n + 1 <= Sandbox!N
      <4>1. Sandbox!Elapsed[n + 1] = Sandbox!Elapsed[n] + tests[n + 1].time
        BY <1>0, <3>1, ElapsedIsTheSum
      <4> QED
        BY <1>0, <2>2, <3>1, <4>1
    <3> QED
      BY <1>0, <3>1
  <2> HIDE DEF S
  <2>3. Nat \subseteq S
    BY <2>1, <2>2, SetInduction
  <2> QED
    BY <1>0, <2>3 DEF S
<1>2. ASSUME NEW i \in 1..Sandbox!N
      PROVE  tests[i].time <= Sandbox!Elapsed[i] /\ Sandbox!Elapsed[i - 1] <= Sandbox!Elapsed[i]
  <2>1. /\ Sandbox!Elapsed[i] = Sandbox!Elapsed[i - 1] + tests[i].time /\ tests[i].time \in Nat
        /\ Sandbox!Elapsed[i - 1] \in Nat
    BY <1>0, <1>1, ElapsedIsTheSum
  <2> QED
    BY <2>1
<1> QED
  BY <1>1, <1>2

\* No test ends after the last.
LEMMA ElapsedIsMonotone ==
  ASSUME TheJob
  PROVE  \A i \in 0..Sandbox!N : Sandbox!Elapsed[i] <= Sandbox!Elapsed[Sandbox!N]
<1>0. Sandbox!N \in Nat
  BY TestsAreASequence, JudgeAssumption
<1> DEFINE S == {n \in Nat : n <= Sandbox!N => Sandbox!Elapsed[Sandbox!N - n] <= Sandbox!Elapsed[Sandbox!N]}
<1>1. 0 \in S
  BY <1>0, ElapsedGrows
<1>2. ASSUME NEW n \in Nat, n \in S PROVE n + 1 \in S
  <2>1. ASSUME n + 1 <= Sandbox!N PROVE Sandbox!Elapsed[Sandbox!N - (n + 1)] <= Sandbox!Elapsed[Sandbox!N]
    <3> DEFINE k == Sandbox!N - n
    <3>1. k \in 1..Sandbox!N /\ k \in 0..Sandbox!N /\ k - 1 \in 0..Sandbox!N /\ k - 1 = Sandbox!N - (n + 1)
          /\ Sandbox!N \in 0..Sandbox!N
      BY <1>0, <2>1
    <3>2. /\ Sandbox!Elapsed[k - 1] <= Sandbox!Elapsed[k] /\ Sandbox!Elapsed[k] \in Nat
          /\ Sandbox!Elapsed[k - 1] \in Nat /\ Sandbox!Elapsed[Sandbox!N] \in Nat
      BY <3>1, ElapsedGrows
    <3>3. Sandbox!Elapsed[k] <= Sandbox!Elapsed[Sandbox!N]
      BY <1>0, <1>2, <2>1
    <3> HIDE DEF k
    <3> QED
      BY <3>1, <3>2, <3>3
  <2> QED
    BY <2>1
<1> HIDE DEF S
<1>3. Nat \subseteq S
  BY <1>1, <1>2, SetInduction
<1>4. ASSUME NEW i \in 0..Sandbox!N PROVE Sandbox!Elapsed[i] <= Sandbox!Elapsed[Sandbox!N]
  <2>1. Sandbox!N - i \in Nat /\ Sandbox!N - i <= Sandbox!N /\ Sandbox!N - (Sandbox!N - i) = i
    BY <1>0
  <2> QED
    BY <1>3, <2>1 DEF S
<1> QED
  BY <1>4

\* A first failure exists when not everything passes.
LEMMA FirstFailure ==
  ASSUME TheJob, NEW v, ~Sandbox!AllPass(v)
  PROVE  /\ Sandbox!First(v) \in 1..Sandbox!N /\ v[Sandbox!First(v)] # "AC"
         /\ \A j \in 1..Sandbox!First(v) - 1 : v[j] = "AC"
<1>0. Sandbox!N \in Nat
  BY TestsAreASequence, JudgeAssumption
<1> DEFINE S == {i \in 1..Sandbox!N : v[i] # "AC"}
<1>1. S \in SUBSET Nat /\ S # {}
  BY <1>0 DEF Sandbox!AllPass
<1>2. PICK n \in S : \A m \in S : n <= m
  BY <1>1, LeastNumber
<1>3. n \in 1..Sandbox!N /\ v[n] # "AC" /\ \A j \in 1..n - 1 : v[j] = "AC"
  BY <1>0, <1>2
<1> QED
  BY <1>3 DEF Sandbox!First

\* Not more tests pass than there are.
LEMMA PassesAreFew ==
  ASSUME TheJob, NEW v
  PROVE  Sandbox!Passes(v) \in 0..Sandbox!N
<1>0. Sandbox!N \in Nat
  BY TestsAreASequence, JudgeAssumption
<1>1. IsFiniteSet(1..Sandbox!N) /\ Cardinality(1..Sandbox!N) = Sandbox!N
  BY <1>0, FS_Interval
<1>2. {i \in 1..Sandbox!N : v[i] = "AC"} \subseteq 1..Sandbox!N
  OBVIOUS
<1>3. /\ Cardinality({i \in 1..Sandbox!N : v[i] = "AC"}) \in Nat
      /\ Cardinality({i \in 1..Sandbox!N : v[i] = "AC"}) <= Sandbox!N
  BY <1>1, <1>2, FS_Subset, FS_CardinalityType
<1>4. Sandbox!Passes(v) = Cardinality({i \in 1..Sandbox!N : v[i] = "AC"})
  BY DEF Sandbox!Passes, Sandbox!Cardinality, Cardinality
<1> QED
  BY <1>0, <1>3, <1>4

\* What each service says of one test.
GoVerdicts == [i \in 1..Sandbox!N |-> Sandbox!GoVerdict(tests[i])]
TsVerdicts == [i \in 1..Sandbox!N |-> Sandbox!TsVerdict(i)]

\* Both limits are natural numbers.
LEMMA LimitsAreNat == Sandbox!GoLimit \in Nat /\ Sandbox!TsLimit \in Nat
<1>1. \A n \in Nat : n \div oneSecond \in Nat
  BY JudgeAssumption
<1>2. \A n \in Nat : (n + 2) * oneSecond \in Nat
  BY JudgeAssumption
<1>3. timeLimit \div oneSecond \in Nat /\ (timeLimit + oneSecond - 1) \div oneSecond \in Nat
  BY <1>1, JudgeAssumption
<1> QED
  BY <1>2, <1>3 DEF Sandbox!GoLimit, Sandbox!TsLimit

\* The Go worker says AC of a correct, complete answer, and crashes on exit code 1.
LEMMA GoOnATest ==
  ASSUME TheJob, NEW i \in 1..Sandbox!N
  PROVE  /\ GoVerdicts[i] \in {"AC", "WA", "TLE", "MLE", Sandbox!Crash}
         /\ GoVerdicts[i] = "AC" <=>
              Sandbox!Correct(tests[i], Sandbox!GoLimit) /\ tests[i].out = "right"
         /\ GoVerdicts[i] = Sandbox!Crash => tests[i].exit = 1
BY TestsAreASequence, LimitsAreNat
DEF GoVerdicts, Sandbox!GoVerdict, Sandbox!Correct, Sandbox!AllTests, Sandbox!Crash

\* The TypeScript worker says AC of a correct answer whose exit code it could read.
LEMMA TsOnATest ==
  ASSUME TheJob, NEW i \in 1..Sandbox!N
  PROVE  /\ TsVerdicts[i] \in {"AC", "WA", "RE", "TLE"}
         /\ TsVerdicts[i] = "AC" =>
              Sandbox!Correct(tests[i], Sandbox!TsLimit) /\ Sandbox!HasExitFile(i)
         /\ \A limit_ : Sandbox!HasExitFile(i) /\ Sandbox!Correct(tests[i], limit_) => TsVerdicts[i] = "AC"
<1>1. TsVerdicts[i] = Sandbox!TsVerdict(i)
  BY DEF TsVerdicts
<1>2. Sandbox!BatchVerdict \in {"AC", "TLE", "RE"}
  BY DEF Sandbox!BatchVerdict
<1>3. Sandbox!HasExitFile(i) => tests[i].time <= Sandbox!TsLimit
  BY ElapsedGrows, TestsAreASequence, LimitsAreNat DEF Sandbox!HasExitFile, Sandbox!AllTests
<1>4. tests[i].out \in {"right", "noisy", "wrong"}
  BY TestsAreASequence DEF Sandbox!AllTests
<1> QED
  BY <1>1, <1>2, <1>3, <1>4 DEF Sandbox!TsVerdict, Sandbox!Correct

\* The verdicts that the column verdict can hold.
LEMMA VerdictNames == Sandbox!VerdictEnum = {"AC", "WA", "RE", "MLE", "TLE", "CE", "PENDING"}
                  /\ Sandbox!Crash \notin Sandbox!VerdictEnum
BY DEF Sandbox!VerdictEnum, Sandbox!Severity, Sandbox!Crash

\* The most severe verdict of a set.
LEMMA Severest ==
  ASSUME NEW known \in SUBSET DOMAIN Sandbox!Severity
  PROVE  LET top == CHOOSE w \in known \cup {"AC"} : \A x \in known : Sandbox!Severity[x] <= Sandbox!Severity[w]
         IN  top \in known \cup {"AC"} /\ (top = "AC" => known \subseteq {"AC"})
<1> DEFINE P(w) == \A x \in known : Sandbox!Severity[x] <= Sandbox!Severity[w]
<1>1. known \subseteq {"AC", "WA", "RE", "MLE", "TLE"}
  BY DEF Sandbox!Severity
<1>2. \E w \in known \cup {"AC"} : P(w)
  <2>1. CASE "TLE" \in known
    BY <1>1, <2>1 DEF Sandbox!Severity
  <2>2. CASE "TLE" \notin known /\ "MLE" \in known
    BY <1>1, <2>2 DEF Sandbox!Severity
  <2>3. CASE "TLE" \notin known /\ "MLE" \notin known /\ "RE" \in known
    BY <1>1, <2>3 DEF Sandbox!Severity
  <2>4. CASE "TLE" \notin known /\ "MLE" \notin known /\ "RE" \notin known
    BY <1>1, <2>4 DEF Sandbox!Severity
  <2> QED
    BY <2>1, <2>2, <2>3, <2>4
<1>3. P("AC") => known \subseteq {"AC"}
  BY <1>1 DEF Sandbox!Severity
<1> HIDE DEF P
<1>4. LET top == CHOOSE w \in known \cup {"AC"} : P(w) IN top \in known \cup {"AC"} /\ P(top)
  BY <1>2
<1>5. LET top == CHOOSE w \in known \cup {"AC"} : P(w)
      IN  top \in known \cup {"AC"} /\ (top = "AC" => known \subseteq {"AC"})
  BY <1>3, <1>4
<1> QED
  BY <1>5 DEF P

\* What the Go worker reports of a job.
LEMMA GoReports ==
  ASSUME TheJob
  PROVE  /\ Sandbox!GoReport \in [verdict : Sandbox!VerdictEnum \cup {Sandbox!Crash}, passed : 0..Sandbox!N]
         /\ Sandbox!GoReport.verdict = "AC" =>
              /\ compiles
              /\ \A i \in 1..Sandbox!N : GoVerdicts[i] = "AC" \/ (mode = "run" /\ GoVerdicts[i] = Sandbox!Crash)
         /\ compiles /\ mode = "submit" /\ (\A i \in 1..Sandbox!N : GoVerdicts[i] = "AC") =>
              Sandbox!GoReport.verdict = "AC"
         /\ Sandbox!GoReport.verdict = Sandbox!Crash => \E i \in 1..Sandbox!N : tests[i].exit = 1
<1> DEFINE v == GoVerdicts
           known == {v[i] : i \in 1..Sandbox!N} \cap DOMAIN Sandbox!Severity
           top == CHOOSE w \in known \cup {"AC"} : \A x \in known : Sandbox!Severity[x] <= Sandbox!Severity[w]
<1>0. Sandbox!N \in Nat /\ mode \in {"submit", "run"}
  BY TestsAreASequence, JudgeAssumption DEF TheJob
<1>1. \A i \in 1..Sandbox!N : /\ v[i] \in {"AC", "WA", "TLE", "MLE", Sandbox!Crash}
                              /\ v[i] = Sandbox!Crash => tests[i].exit = 1
  BY GoOnATest
<1>2. CASE ~compiles
  <2>1. Sandbox!GoReport = [verdict |-> "CE", passed |-> 0]
    BY <1>2 DEF Sandbox!GoReport
  <2> QED
    BY <1>0, <1>2, <2>1, VerdictNames
<1>3. CASE compiles /\ mode = "run"
  <2>1. Sandbox!GoReport = [passed |-> Sandbox!Passes(v), verdict |-> top]
    BY <1>3 DEF Sandbox!GoReport, GoVerdicts
  <2>2. top \in known \cup {"AC"} /\ (top = "AC" => known \subseteq {"AC"})
    BY Severest
  <2>3. Sandbox!Passes(v) \in 0..Sandbox!N
    BY PassesAreFew
  <2> HIDE DEF top
  <2>4. DOMAIN Sandbox!Severity = {"AC", "WA", "RE", "MLE", "TLE"}
    BY DEF Sandbox!Severity
  <2>5. top \in Sandbox!VerdictEnum /\ top # Sandbox!Crash
    BY <2>2, <2>4, VerdictNames
  <2>6. top = "AC" => \A i \in 1..Sandbox!N : v[i] = "AC" \/ v[i] = Sandbox!Crash
    BY <1>1, <2>2, <2>4
  <2> HIDE DEF v
  <2> QED
    BY <1>3, <2>1, <2>3, <2>5, <2>6 DEF v
<1>4. CASE compiles /\ mode = "submit" /\ Sandbox!AllPass(v)
  <2>1. Sandbox!GoReport = [verdict |-> "AC", passed |-> Sandbox!N]
    BY <1>4 DEF Sandbox!GoReport, GoVerdicts
  <2>2. \A i \in 1..Sandbox!N : v[i] = "AC"
    BY <1>4 DEF Sandbox!AllPass
  <2>3. Sandbox!N \in 0..Sandbox!N
    BY <1>0
  <2> HIDE DEF v
  <2> QED
    BY <1>4, <2>1, <2>2, <2>3, VerdictNames DEF v
<1>5. CASE compiles /\ mode = "submit" /\ ~Sandbox!AllPass(v)
  <2> DEFINE f == Sandbox!First(v)
  <2>1. Sandbox!GoReport = [verdict |-> v[f], passed |-> IF v[f] = "WA" THEN f - 1 ELSE 0]
    BY <1>5 DEF Sandbox!GoReport, GoVerdicts
  <2>2. f \in 1..Sandbox!N /\ v[f] # "AC"
    BY <1>5, FirstFailure
  <2> HIDE DEF f
  <2>3. /\ v[f] \in {"WA", "TLE", "MLE", Sandbox!Crash} /\ f - 1 \in 0..Sandbox!N /\ 0 \in 0..Sandbox!N
        /\ v[f] = Sandbox!Crash => tests[f].exit = 1
    BY <1>0, <1>1, <2>2
  <2>4. ~ \A i \in 1..Sandbox!N : v[i] = "AC"
    BY <2>2
  <2>5. Sandbox!GoReport.verdict = v[f] /\ Sandbox!GoReport.passed \in 0..Sandbox!N
        /\ Sandbox!GoReport = [verdict |-> v[f], passed |-> Sandbox!GoReport.passed]
    BY <2>1, <2>3
  <2> HIDE DEF v
  <2> QED
    BY <2>2, <2>3, <2>4, <2>5, VerdictNames DEF v
<1> QED
  BY <1>0, <1>2, <1>3, <1>4, <1>5

\* What the TypeScript worker reports of it.
LEMMA TsReports ==
  ASSUME TheJob
  PROVE  /\ Sandbox!TsReport \in [verdict : Sandbox!VerdictEnum, passed : 0..Sandbox!N]
         /\ Sandbox!TsReport.verdict = "AC" <=>
              compiles /\ \A i \in 1..Sandbox!N : TsVerdicts[i] = "AC"
<1> DEFINE v == TsVerdicts
           f == Sandbox!First(v)
<1>0. Sandbox!N \in Nat
  BY TestsAreASequence, JudgeAssumption DEF TheJob
<1>1. CASE ~compiles
  <2>1. Sandbox!TsReport = [verdict |-> "CE", passed |-> 0]
    BY <1>1 DEF Sandbox!TsReport
  <2> QED
    BY <1>0, <1>1, <2>1, VerdictNames
<1>2. CASE compiles /\ Sandbox!AllPass(v)
  <2>1. Sandbox!TsReport = [verdict |-> "AC", passed |-> Sandbox!N]
    BY <1>2 DEF Sandbox!TsReport, TsVerdicts
  <2>2. \A i \in 1..Sandbox!N : v[i] = "AC"
    BY <1>2 DEF Sandbox!AllPass
  <2>3. Sandbox!N \in 0..Sandbox!N
    BY <1>0
  <2> HIDE DEF v
  <2> QED
    BY <1>2, <2>1, <2>2, <2>3, VerdictNames DEF v
<1>3. CASE compiles /\ ~Sandbox!AllPass(v)
  <2>1. Sandbox!TsReport = [verdict |-> v[f], passed |-> IF mode = "run" THEN Sandbox!Passes(v) ELSE f - 1]
    BY <1>3 DEF Sandbox!TsReport, TsVerdicts
  <2>2. f \in 1..Sandbox!N /\ v[f] # "AC"
    BY <1>3, FirstFailure
  <2>3. Sandbox!Passes(v) \in 0..Sandbox!N
    BY PassesAreFew
  <2> HIDE DEF f
  <2>4. v[f] \in {"WA", "RE", "TLE"}
    BY <2>2, TsOnATest
  <2>5. /\ f - 1 \in 0..Sandbox!N /\ ~ \A i \in 1..Sandbox!N : v[i] = "AC"
    BY <1>0, <2>2
  <2> HIDE DEF v
  <2>6. /\ Sandbox!TsReport = [verdict |-> v[f], passed |-> Sandbox!TsReport.passed]
        /\ Sandbox!TsReport.passed \in 0..Sandbox!N /\ Sandbox!TsReport.verdict = v[f]
    BY <2>1, <2>3, <2>5
  <2> QED
    BY <2>2, <2>4, <2>5, <2>6, VerdictNames DEF v
<1> QED
  BY <1>1, <1>2, <1>3

\* The report is the service's own; a job that is back in the queue is a
\* submission that Go judged and whose verdict is not in the enum.
JudgeInv ==
  /\ TheJob
  /\ at \in {"queued", "judged", "done"} /\ by \in {"go", "ts"}
  /\ \/ at = "queued" /\ report = Sandbox!NoReport
     \/ by = "go" /\ report = Sandbox!GoReport
     \/ by = "ts" /\ report = Sandbox!TsReport /\ at # "queued"
  /\ at = "queued" /\ report # Sandbox!NoReport =>
       mode = "submit" /\ report.verdict \notin Sandbox!VerdictEnum

\* A job starts in the queue.
LEMMA JudgeInit == Sandbox!Init => JudgeInv
<1> SUFFICES ASSUME Sandbox!Init PROVE JudgeInv
  OBVIOUS
<1>1. compiles \in BOOLEAN
  BY Zenon DEF Sandbox!Init
<1> QED
  BY <1>1 DEF Sandbox!Init, JudgeInv, TheJob

\* A worker takes it, and its verdict is stored or sends it back.
LEMMA JudgeNext == JudgeInv /\ [Sandbox!Next]_judgeVars => JudgeInv'
<1> SUFFICES ASSUME JudgeInv, [Sandbox!Next]_judgeVars PROVE JudgeInv'
  OBVIOUS
<1>0. TheJob /\ (UNCHANGED <<tests, compiles, mode>> => TheJob')
  BY DEF JudgeInv, TheJob
<1>r. ASSUME UNCHANGED <<tests, compiles, mode>>
      PROVE  Sandbox!GoReport' = Sandbox!GoReport /\ Sandbox!TsReport' = Sandbox!TsReport
  BY <1>r DEF Sandbox!GoReport, Sandbox!TsReport, Sandbox!N, Sandbox!Passes, Sandbox!First, Sandbox!AllPass,
     Sandbox!TsVerdict, Sandbox!GoVerdict, Sandbox!HasExitFile, Sandbox!BatchVerdict, Sandbox!Stops, Sandbox!Elapsed
<1>1. CASE Sandbox!Run("go")
  <2>1. at' = "judged" /\ by' = "go" /\ report' = Sandbox!GoReport /\ UNCHANGED <<tests, compiles, mode>>
    BY <1>1 DEF Sandbox!Run
  <2> QED
    BY <1>0, <1>r, <2>1 DEF JudgeInv
<1>2. CASE Sandbox!Run("ts")
  <2>1. at' = "judged" /\ by' = "ts" /\ report' = Sandbox!TsReport /\ UNCHANGED <<tests, compiles, mode>>
    BY <1>2 DEF Sandbox!Run
  <2> QED
    BY <1>0, <1>r, <2>1 DEF JudgeInv
<1>3. CASE Sandbox!Persist
  <2>1. at = "judged" /\ at' = "done" /\ UNCHANGED <<tests, compiles, mode, by, report>>
    BY <1>3 DEF Sandbox!Persist
  <2> QED
    BY <1>0, <1>r, <2>1 DEF JudgeInv
<1>4. CASE Sandbox!Refused
  <2>1. /\ at = "judged" /\ at' = "queued" /\ mode = "submit" /\ report.verdict \notin Sandbox!VerdictEnum
        /\ UNCHANGED <<tests, compiles, mode, by, report>>
    BY <1>4 DEF Sandbox!Refused
  <2>2. Sandbox!VerdictEnum' = Sandbox!VerdictEnum /\ Sandbox!NoReport' = Sandbox!NoReport
    BY DEF Sandbox!VerdictEnum, Sandbox!Severity, Sandbox!NoReport
  <2>3. Sandbox!TsReport.verdict \in Sandbox!VerdictEnum
    BY <1>0, TsReports
  <2> QED
    BY <1>0, <1>r, <2>1, <2>2, <2>3 DEF JudgeInv
<1>5. CASE UNCHANGED judgeVars
  <2>1. UNCHANGED <<tests, compiles, mode, at, by, report>>
    BY <1>5 DEF judgeVars
  <2> QED
    BY <1>0, <1>r, <2>1 DEF JudgeInv
<1> QED
  BY <1>1, <1>2, <1>3, <1>4, <1>5 DEF Sandbox!Next

\* An invariant report means what VerdictsAreDeserved says.
LEMMA JudgeHolds == JudgeInv => Sandbox!TypeOK /\ Sandbox!VerdictsAreDeserved
<1> SUFFICES ASSUME JudgeInv PROVE Sandbox!TypeOK /\ Sandbox!VerdictsAreDeserved
  OBVIOUS
<1>0. TheJob /\ mode \in {"submit", "run"} /\ by \in {"go", "ts"} /\ Sandbox!N \in Nat
      /\ \A i \in 1..Sandbox!N : tests[i] \in Sandbox!AllTests
  BY TestsAreASequence, JudgeAssumption DEF JudgeInv, TheJob
<1>n. Sandbox!NoReport = [verdict |-> "PENDING", passed |-> 0]
  BY DEF Sandbox!NoReport
<1>1. Sandbox!TypeOK
  <2>1. report \in [verdict : Sandbox!VerdictEnum \cup {Sandbox!Crash}, passed : 0..Sandbox!N]
    BY <1>0, <1>n, GoReports, TsReports, VerdictNames DEF JudgeInv
  <2>2. Sandbox!N \in 0..MaxTests /\ \A i \in 1..Sandbox!N : tests[i] \in Tests \cap Sandbox!AllTests
    BY <1>0, TestsAreASequence
  <2>3. compiles \in BOOLEAN
    BY <1>0 DEF TheJob
  <2> QED
    BY <1>0, <2>1, <2>2, <2>3 DEF Sandbox!TypeOK, JudgeInv
<1>2. Sandbox!AcceptedIsDeserved
  <2> SUFFICES ASSUME report.verdict = "AC"
               PROVE  compiles /\ \A i \in 1..Sandbox!N :
                        \/ Sandbox!Correct(tests[i], IF by = "go" THEN Sandbox!GoLimit ELSE Sandbox!TsLimit)
                        \/ by = "go" /\ mode = "run" /\ tests[i].exit = 1
    BY DEF Sandbox!AcceptedIsDeserved
  <2>1. CASE by = "go" /\ report = Sandbox!GoReport
    BY <1>0, <2>1, GoReports, GoOnATest
  <2>2. CASE by = "ts" /\ report = Sandbox!TsReport
    BY <1>0, <2>2, TsReports, TsOnATest
  <2> QED
    BY <1>n, <2>1, <2>2 DEF JudgeInv
<1>3. Sandbox!JudgesAgree
  <2>1. ASSUME mode = "submit", Sandbox!TsReport.verdict = "AC", Sandbox!Quiet,
               \A i \in 1..Sandbox!N : ~(tests[i].time > Sandbox!GoLimit)
        PROVE  Sandbox!GoReport.verdict = "AC"
    <3>1. ASSUME NEW i \in 1..Sandbox!N PROVE GoVerdicts[i] = "AC"
      <4>1. Sandbox!Correct(tests[i], Sandbox!GoLimit)
        <5>1. Sandbox!Correct(tests[i], Sandbox!TsLimit)
          BY <1>0, <2>1, TsReports, TsOnATest
        <5> QED
          BY <1>0, <2>1, <5>1, LimitsAreNat DEF Sandbox!Correct, Sandbox!AllTests
      <4>2. tests[i].out = "right"
        BY <1>0, <2>1, <4>1 DEF Sandbox!Quiet, Sandbox!Correct, Sandbox!AllTests
      <4> QED
        BY <1>0, <4>1, <4>2, GoOnATest
    <3> QED
      BY <1>0, <2>1, <3>1, TsReports, GoReports
  <2>2. ASSUME mode = "submit", Sandbox!GoReport.verdict = "AC", ~(Sandbox!Elapsed[Sandbox!N] > Sandbox!TsLimit)
        PROVE  Sandbox!TsReport.verdict = "AC"
    <3>1. \A i \in 1..Sandbox!N : Sandbox!Correct(tests[i], Sandbox!GoLimit) /\ tests[i].exit = 0
      BY <1>0, <2>2, GoReports, GoOnATest DEF Sandbox!Correct
    <3>2. \A i \in 1..Sandbox!N : Sandbox!Elapsed[i] <= Sandbox!TsLimit
      <4>1. Sandbox!N \in 0..Sandbox!N /\ \A i \in 1..Sandbox!N : i \in 0..Sandbox!N
        BY <1>0
      <4>2. /\ \A i \in 0..Sandbox!N : Sandbox!Elapsed[i] \in Nat /\ Sandbox!Elapsed[i] <= Sandbox!Elapsed[Sandbox!N]
        BY <1>0, ElapsedGrows, ElapsedIsMonotone
      <4> QED
        BY <2>2, <4>1, <4>2, LimitsAreNat
    <3>3. \A i \in 1..Sandbox!N : Sandbox!HasExitFile(i)
      BY <1>0, <3>1, <3>2 DEF Sandbox!HasExitFile
    <3> QED
      BY <1>0, <2>2, <3>1, <3>3, GoReports, TsReports, TsOnATest
  <2> QED
    BY <2>1, <2>2 DEF Sandbox!JudgesAgree
<1>4. Sandbox!RefusedIsACrash
  <2> SUFFICES ASSUME at = "queued", report # Sandbox!NoReport
               PROVE  /\ by = "go" /\ report.verdict = Sandbox!Crash
                      /\ \E i \in 1..Sandbox!N : tests[i].exit = 1
                      /\ Sandbox!GoReport.verdict \notin Sandbox!VerdictEnum
    BY DEF Sandbox!RefusedIsACrash
  <2>1. by = "go" /\ report = Sandbox!GoReport /\ report.verdict \notin Sandbox!VerdictEnum
    BY DEF JudgeInv
  <2> QED
    BY <1>0, <2>1, GoReports
<1> QED
  BY <1>1, <1>2, <1>3, <1>4 DEF Sandbox!VerdictsAreDeserved

\* Whichever worker judged it and however often it was taken up again: an AC was
\* deserved, and what is stored is a verdict, for any tests, times and limit.
THEOREM VerdictsMeanWhatTheySay == MCSpec => []VerdictsAreDeserved
<1>1. JudgeInv => VerdictsAreDeserved
  BY JudgeHolds DEF VerdictsAreDeserved, In
<1> QED
  BY PartsStart, JudgeInit, JudgeNext, JudgeSteps, <1>1, PTL DEF MCSpec

-----------------------------------------------------------------------------
(* Plagiarism.                                                              *)

\* Equal tokens hash to equal grams.
LEMMA GramsOfEqualTokens ==
  ASSUME NEW c, NEW d, NEW i \in Nat, NEW j \in Nat,
         \A k \in 1..K : c[i + k - 1] = d[j + k - 1]
  PROVE  Checks!Gram(c, i) = Checks!Gram(d, j)
<1>1. \A h : [k \in 0..K |-> IF k = 0 THEN 0 ELSE h[k - 1] * 31 + c[i + k - 1]]
           = [k \in 0..K |-> IF k = 0 THEN 0 ELSE h[k - 1] * 31 + d[j + k - 1]]
  <2>1. \A k \in 0..K : k = 0 \/ k \in 1..K
    BY PlagiarismAssumption
  <2> QED
    BY <2>1
<1>2. (CHOOSE h : h = [k \in 0..K |-> IF k = 0 THEN 0 ELSE h[k - 1] * 31 + c[i + k - 1]])
    = (CHOOSE h : h = [k \in 0..K |-> IF k = 0 THEN 0 ELSE h[k - 1] * 31 + d[j + k - 1]])
  BY <1>1
<1> QED
  BY <1>2 DEF Checks!Gram

\* The marks a code leaves.
LEMMA MarksOfACode ==
  ASSUME NEW c \in Codes
  PROVE  /\ Len(c) \in Nat
         /\ IsFiniteSet(Checks!Fingerprint[c])
         /\ Len(c) < K => Checks!Fingerprint[c] = {}
         /\ Len(c) >= K =>
              Checks!Fingerprint[c] =
                {Checks!Least({Checks!Gram(c, j) : j \in i..i + W - 1}) : i \in 1..Len(c) - K - W + 2}
<1>0. Len(c) \in Nat
  BY PlagiarismAssumption
<1>1. Checks!Fingerprint[c] = IF Len(c) < K THEN {} ELSE Checks!Winnowing(Checks!Grams(c))
  BY DEF Checks!Fingerprint
<1>2. CASE Len(c) < K
  BY <1>0, <1>1, <1>2, FS_EmptySet, PlagiarismAssumption
<1>3. CASE Len(c) >= K
  <2> DEFINE n == Len(c) - K + 1
             g == Checks!Grams(c)
             m == Len(c) - K - W + 2
             G(i) == {Checks!Gram(c, j) : j \in i..i + W - 1}
             img == {Checks!Least(G(i)) : i \in 1..m}
  <2>1. n \in Nat /\ m \in Int /\ n - W + 1 = m
    BY <1>0, <1>3, PlagiarismAssumption
  <2>2. g = [i \in 1..n |-> Checks!Gram(c, i)]
    BY DEF Checks!Grams
  <2>3. Len(g) = n
    <3>1. g \in [1..n -> {Checks!Gram(c, i) : i \in 1..n}]
      BY <2>2
    <3>2. g \in Seq({Checks!Gram(c, i) : i \in 1..n})
      BY <2>1, <3>1, SeqDef
    <3> HIDE DEF n, g
    <3> QED
      BY <2>1, <3>1, <3>2
  <2>4. Checks!Winnowing(g) = {Checks!Least({g[j] : j \in i..i + W - 1}) : i \in 1..m}
    BY <2>1, <2>3 DEF Checks!Winnowing
  <2>5. ASSUME NEW i \in 1..m PROVE {g[j] : j \in i..i + W - 1} = G(i)
    <3>1. \A j \in i..i + W - 1 : j \in 1..n
      BY <1>0, <1>3, PlagiarismAssumption
    <3>2. \A j \in i..i + W - 1 : g[j] = Checks!Gram(c, j)
      BY <2>2, <3>1
    <3> HIDE DEF g, n
    <3> QED
      BY <3>2
  <2> HIDE DEF g, G, m, n
  <2>6. Checks!Winnowing(g) = img
    BY <2>4, <2>5
  <2>7. IsFiniteSet(img)
    <3> DEFINE f == [i \in 1..m |-> Checks!Least(G(i))]
    <3>1. f \in Surjection(1..m, img)
      BY DEF Surjection
    <3>2. IsFiniteSet(1..m)
      BY <2>1, FS_Interval
    <3> HIDE DEF f, img
    <3> QED
      BY <3>1, <3>2, FS_Surjection
  <2>8. Checks!Fingerprint[c] = img
    BY <1>0, <1>1, <1>3, <2>6, PlagiarismAssumption DEF g
  <2> QED
    BY <1>0, <1>3, <2>7, <2>8, PlagiarismAssumption DEF img, G, m
<1>4. Len(c) < K \/ Len(c) >= K
  BY <1>0, PlagiarismAssumption
<1> QED
  BY <1>2, <1>3, <1>4, Zenon

\* A code without marks is shorter than a run that is guaranteed to be found.
LEMMA OnlyShortCodesLeaveNone ==
  ASSUME NEW c \in Codes, Checks!Fingerprint[c] = {}
  PROVE  Len(c) < Checks!Guaranteed
<1>1. CASE Len(c) < K
  BY <1>1, MarksOfACode, PlagiarismAssumption DEF Checks!Guaranteed
<1>2. CASE Len(c) >= K
  <2>1. 1 \notin 1..Len(c) - K - W + 2
    BY <1>2, MarksOfACode
  <2> QED
    BY <2>1, MarksOfACode, PlagiarismAssumption DEF Checks!Guaranteed
<1> QED
  BY <1>1, <1>2, MarksOfACode, PlagiarismAssumption

\* Winnowing: in every window one gram is kept, the same one in both codes, so a
\* run of K + W - 1 tokens that they share leaves a mark that they share.
LEMMA SharedRunsLeaveAMark ==
  ASSUME NEW c \in Codes, NEW d \in Codes, Checks!SharesRun(c, d)
  PROVE  Checks!Fingerprint[c] \cap Checks!Fingerprint[d] # {}
<1> DEFINE G == K + W - 1
<1>0. Len(c) \in Nat /\ Len(d) \in Nat /\ G \in Nat \ {0} /\ c \in Seq(Int) /\ d \in Seq(Int)
      /\ Checks!Guaranteed = G
  BY MarksOfACode, PlagiarismAssumption DEF Checks!Guaranteed
<1>1. PICK i \in 1..Len(c) - G + 1, j \in 1..Len(d) - G + 1 :
        SubSeq(c, i, i + G - 1) = SubSeq(d, j, j + G - 1)
  BY <1>0 DEF Checks!SharesRun
<1> HIDE DEF G
<1>2. i \in Nat \ {0} /\ j \in Nat \ {0} /\ i + G - 1 <= Len(c) /\ j + G - 1 <= Len(d)
  BY <1>0, <1>1
<1>3. ASSUME NEW k \in 1..G PROVE c[i + k - 1] = d[j + k - 1]
  <2>1. \A x \in i..i + G - 1 : c[x] \in Int
    BY <1>0, <1>2
  <2>2. \A x \in j..j + G - 1 : d[x] \in Int
    BY <1>0, <1>2
  <2>3. SubSeq(c, i, i + G - 1)[k] = c[i + k - 1]
    BY <1>0, <1>2, <2>1, SubSeqProperties
  <2>4. SubSeq(d, j, j + G - 1)[k] = d[j + k - 1]
    BY <1>0, <1>2, <2>2, SubSeqProperties
  <2> QED
    BY <1>1, <2>3, <2>4
<1>4. ASSUME NEW t \in 0..W - 1 PROVE Checks!Gram(c, i + t) = Checks!Gram(d, j + t)
  <2>1. i + t \in Nat /\ j + t \in Nat
    BY <1>2, PlagiarismAssumption
  <2>2. ASSUME NEW k \in 1..K PROVE c[i + t + k - 1] = d[j + t + k - 1]
    <3>1. t + k \in 1..G /\ i + (t + k) - 1 = i + t + k - 1 /\ j + (t + k) - 1 = j + t + k - 1
      BY <1>2, PlagiarismAssumption DEF G
    <3> QED
      BY <1>3, <3>1
  <2> QED
    BY <2>1, <2>2, GramsOfEqualTokens
<1>5. {Checks!Gram(c, x) : x \in i..i + W - 1} = {Checks!Gram(d, x) : x \in j..j + W - 1}
  <2>1. ASSUME NEW x \in i..i + W - 1 PROVE \E y \in j..j + W - 1 : Checks!Gram(c, x) = Checks!Gram(d, y)
    <3>1. x - i \in 0..W - 1 /\ i + (x - i) = x /\ j + (x - i) \in j..j + W - 1
      BY <1>2, PlagiarismAssumption
    <3> QED
      BY <1>4, <3>1
  <2>2. ASSUME NEW y \in j..j + W - 1 PROVE \E x \in i..i + W - 1 : Checks!Gram(c, x) = Checks!Gram(d, y)
    <3>1. y - j \in 0..W - 1 /\ j + (y - j) = y /\ i + (y - j) \in i..i + W - 1
      BY <1>2, PlagiarismAssumption
    <3> QED
      BY <1>4, <3>1
  <2> QED
    BY <2>1, <2>2
<1>6. /\ i \in 1..Len(c) - K - W + 2 /\ j \in 1..Len(d) - K - W + 2 /\ Len(c) >= K /\ Len(d) >= K
  BY <1>0, <1>2, PlagiarismAssumption DEF G
<1>7. Checks!Least({Checks!Gram(c, x) : x \in i..i + W - 1}) \in Checks!Fingerprint[c]
  <2>1. Checks!Fingerprint[c] =
          {Checks!Least({Checks!Gram(c, x) : x \in y..y + W - 1}) : y \in 1..Len(c) - K - W + 2}
    BY <1>6, MarksOfACode
  <2> QED
    BY <1>6, <2>1, Zenon
<1>8. Checks!Least({Checks!Gram(d, x) : x \in j..j + W - 1}) \in Checks!Fingerprint[d]
  <2>1. Checks!Fingerprint[d] =
          {Checks!Least({Checks!Gram(d, x) : x \in y..y + W - 1}) : y \in 1..Len(d) - K - W + 2}
    BY <1>6, MarksOfACode
  <2> QED
    BY <1>6, <2>1, Zenon
<1> QED
  BY <1>5, <1>7, <1>8

\* A check that goes on is stored; of two that have read the fingerprints, one
\* has read the other's, and has reported it once it is done.
HasSeen(a, b) ==
  \/ check[a] = "read" /\ b \in read[a]
  \/ check[a] = "done" /\ (<<a, b>> \in reports \/ ~Checks!Similar(a, b) \/ a \in unwritten)

\* What the reports rest on.
PlagiarismInv ==
  /\ Checks!TypeOK
  /\ \A s \in Subs : check[s] \in {"stored", "read", "done"} => s \in stored
  /\ \A a, b \in Subs : a # b /\ {check[a], check[b]} \subseteq {"read", "done"} =>
       HasSeen(a, b) \/ HasSeen(b, a)
  /\ \A pair \in reports : Checks!Similar(pair[1], pair[2])

\* A step of the parts is one of the checks or leaves them as they are.
LEMMA PlagiarismSteps == [MCNext]_allVars => [Checks!Next]_plagiarismVars
BY DEF allVars, MCNext, Rest, Still, plagiarismVars

\* Nothing is checked at first.
LEMMA PlagiarismInit == Checks!Init => PlagiarismInv
BY PlagiarismAssumption, ContestsAssumption DEF Checks!Init, PlagiarismInv, Checks!TypeOK, HasSeen

\* Storing comes before reading, so of two checks the later one sees both codes.
LEMMA PlagiarismNext == PlagiarismInv /\ [Checks!Next]_plagiarismVars => PlagiarismInv'
<1> SUFFICES ASSUME PlagiarismInv, [Checks!Next]_plagiarismVars PROVE PlagiarismInv'
  OBVIOUS
<1> USE PlagiarismAssumption, ContestsAssumption DEF PlagiarismInv, Checks!TypeOK
<1>0. ASSUME code' = code PROVE \A a, b : Checks!Similar(a, b)' <=> Checks!Similar(a, b)
  BY <1>0 DEF Checks!Similar
<1>1. ASSUME NEW s \in Subs, Checks!StoreFingerprint(s) PROVE PlagiarismInv'
  BY <1>0, <1>1 DEF Checks!StoreFingerprint, HasSeen
<1>2. ASSUME NEW s \in Subs, Checks!GetFingerprintsForProblem(s) PROVE PlagiarismInv'
  BY <1>0, <1>2 DEF Checks!GetFingerprintsForProblem, HasSeen
<1>3. ASSUME NEW s \in Subs, Checks!WriteReports(s) PROVE PlagiarismInv'
  BY <1>0, <1>3 DEF Checks!WriteReports, Checks!Done, HasSeen
<1>4. ASSUME NEW s \in Subs, Checks!WriteFails(s) PROVE PlagiarismInv'
  BY <1>0, <1>4 DEF Checks!WriteFails, Checks!Done, HasSeen
<1>5. ASSUME NEW s \in Subs, Checks!CheckFails(s) PROVE PlagiarismInv'
  <2>1. /\ check[s] \in {"queued", "stored"} /\ mishaps' = mishaps + 1 /\ mishaps < MaxFaults
        /\ UNCHANGED <<code, stored, read, reports, unwritten>>
    BY <1>5 DEF Checks!CheckFails
  <2>2. PICK to \in {"queued", "dead"} :
          /\ check' = [check EXCEPT ![s] = to]
          /\ tries' \in [Subs -> 0..MaxRetries]
    <3>1. CASE tries[s] < MaxRetries
      <4>1. check' = [check EXCEPT ![s] = "queued"] /\ tries' = [tries EXCEPT ![s] = @ + 1]
        BY <1>5, <3>1 DEF Checks!CheckFails
      <4>2. tries[s] + 1 \in 0..MaxRetries
        BY <3>1
      <4> QED
        BY <4>1, <4>2
    <3>2. CASE ~(tries[s] < MaxRetries)
      BY <1>5, <3>2 DEF Checks!CheckFails
    <3> QED
      BY <3>1, <3>2
  <2> QED
    BY <1>0, <2>1, <2>2 DEF HasSeen
<1>6. ASSUME NEW s \in Subs, Checks!Redeliver(s) PROVE PlagiarismInv'
  BY <1>0, <1>6 DEF Checks!Redeliver, HasSeen
<1>7. CASE UNCHANGED plagiarismVars
  BY <1>0, <1>7 DEF plagiarismVars, HasSeen
<1> QED
  BY <1>1, <1>2, <1>3, <1>4, <1>5, <1>6, <1>7 DEF Checks!Next

\* So a pair is reported, and only a similar one.
LEMMA PlagiarismHolds ==
  PlagiarismInv => Checks!TypeOK /\ Checks!PairsAreReported /\ Checks!ReportsAreFounded
<1> SUFFICES ASSUME PlagiarismInv PROVE Checks!TypeOK /\ Checks!PairsAreReported /\ Checks!ReportsAreFounded
  OBVIOUS
<1>0. code \in [Subs -> Codes] /\ reports \subseteq Subs \X Subs
  BY DEF PlagiarismInv, Checks!TypeOK
<1>1. Checks!PairsAreReported
  <2>1. \A a, b \in Subs : Checks!Similar(a, b) <=> Checks!Similar(b, a)
    <3>1. \A A, B : A \cap B = B \cap A /\ A \cup B = B \cup A
      OBVIOUS
    <3> QED
      BY <3>1 DEF Checks!Similar
  <2> QED
    BY <2>1 DEF Checks!PairsAreReported, PlagiarismInv, HasSeen
<1>2. ASSUME NEW pair \in reports
      PROVE  LET c == code[pair[1]] d == code[pair[2]] IN
             \/ Checks!Fingerprint[c] \cap Checks!Fingerprint[d] # {}
             \/ Len(c) < Checks!Guaranteed /\ Len(d) < Checks!Guaranteed
  <2> DEFINE c == code[pair[1]]
             d == code[pair[2]]
             A == Checks!Fingerprint[c]
             B == Checks!Fingerprint[d]
  <2>1. c \in Codes /\ d \in Codes
    BY <1>0
  <2>2. IsFiniteSet(A) /\ IsFiniteSet(B)
    BY <2>1, MarksOfACode
  <2>3. 100 * Cardinality(A \cap B) >= Percent * Cardinality(A \cup B)
    <3>1. Checks!Similar(pair[1], pair[2])
      BY DEF PlagiarismInv
    <3>2. \A S : Checks!Cardinality(S) = Cardinality(S)
      BY DEF Checks!Cardinality, Cardinality
    <3> QED
      BY <3>1, <3>2 DEF Checks!Similar
  <2> HIDE DEF A, B
  <2>4. ASSUME A \cap B = {} PROVE A = {} /\ B = {}
    <3>1. IsFiniteSet(A \cup B) /\ Cardinality(A \cup B) \in Nat /\ Cardinality(A \cap B) = 0
      BY <2>2, <2>4, FS_Union, FS_CardinalityType, FS_EmptySet
    <3>2. Cardinality(A \cup B) = 0
      <4> DEFINE n == Cardinality(A \cup B)
      <4>1. n \in Nat /\ 0 >= Percent * n
        BY <2>3, <3>1
      <4> HIDE DEF n
      <4>2. n = 0
        BY <4>1, PlagiarismAssumption
      <4> QED
        BY <4>2 DEF n
    <3>3. A \cup B = {}
      BY <3>1, <3>2, FS_EmptySet
    <3> QED
      BY <3>3
  <2> HIDE DEF c, d
  <2>5. A = {} /\ B = {} => Len(c) < Checks!Guaranteed /\ Len(d) < Checks!Guaranteed
    BY <2>1, OnlyShortCodesLeaveNone DEF A, B
  <2> QED
    BY <2>4, <2>5 DEF A, B, c, d
<1>3. \A a, b \in Subs : Checks!SharesRun(code[a], code[b]) =>
        Checks!Fingerprint[code[a]] \cap Checks!Fingerprint[code[b]] # {}
  BY <1>0, SharedRunsLeaveAMark
<1> QED
  BY <1>1, <1>2, <1>3 DEF PlagiarismInv, Checks!ReportsAreFounded

\* Two submissions that share a long enough run, and whose checks are over, are
\* reported unless a write of the report was lost; and only similar ones are,
\* whatever the codes and in whatever order the checks run (checkPlagiarism).
THEOREM SimilarCodeIsReported == MCSpec => []ReportsAreRight
<1>1. PlagiarismInv => ReportsAreRight
  BY PlagiarismHolds DEF ReportsAreRight, In
<1> QED
  BY PartsStart, PlagiarismInit, PlagiarismNext, PlagiarismSteps, <1>1, PTL DEF MCSpec

-----------------------------------------------------------------------------
(* The theorems.                                                            *)

\* A process without a channel is dialling, waits to, has given up after
\* MAX_RETRIES or is shutting down, and after every reconnect its consumers are
\* registered again, however often and whenever the broker goes away.
THEOREM BrokerChannelIsMinded == MCSpec => []ConnectionIsMinded
<1>1. ConnectionInv => ConnectionIsMinded
  BY DEF ConnectionInv, ConnectionIsMinded, In
<1> QED
  BY PartsStart, ConnectionInit, ConnectionNext, ConnectionSteps, <1>1, PTL DEF MCSpec

\* What a limiter has admitted, unless its script failed, was paid for by the first
\* bucket and by time, up to the fastest clock.
LEMMA LimitHolds == LimitInv => Limiter!AdmittedWithinRate
<1> SUFFICES ASSUME LimitInv, NEW l \in Limiter!Limiters
             PROVE  Charged(l) <= maxTokens + clock + Limiter!MaxSkew
  BY DEF Limiter!AdmittedWithinRate, Charged
<1> DEFINE b == bucket[l]
<1>1. clock \in Nat /\ Charged(l) \in Int /\ b.tokens \in Int /\ b.lastRefill \in Int
      /\ b.exp \in Int /\ Limiter!MaxSkew \in Nat
  BY SkewIsBounded, RateLimitAssumption DEF LimitInv, Limiter!TypeOK, Charged
<1>2. TtlOf(l) \in Nat
  BY RateLimitAssumption DEF TtlOf
<1>3. \/ Charged(l) = 0
      \/ /\ Charged(l) <= maxTokens + b.lastRefill - b.tokens
         /\ b.lastRefill - b.tokens <= (b.exp - TtlOf(l)) + Limiter!MaxSkew
         /\ b.exp - TtlOf(l) <= clock
  BY DEF LimitInv, Paid
<1> HIDE DEF b
<1> QED
  BY <1>1, <1>2, <1>3, RateLimitAssumption

\* A breaker half-opens, closes and opens on the counts it has kept; a client
\* gets through a limiter within its rate whatever the hosts' clocks say, but for
\* requests whose script failed; more
\* than one run under an idempotency key has an excuse; a failed saga leaves
\* behind what failed halfway or could not be compensated; and the gRPC client
\* loses no job before Threshold workers have failed in a row.
THEOREM GuardsKeepTheirCounts == MCSpec => []GuardsKeepCount
<1>1. MCSpec => []BreakerInv
  BY PartsStart, BreakerInit, BreakerNext, BreakerSteps, PTL DEF MCSpec
<1>2. MCSpec => []LimitInv
  BY PartsStart, LimitInit, LimitNext, LimitSteps, PTL DEF MCSpec
<1>3. MCSpec => []OnceInv
  BY PartsStart, OnceInit, OnceNext, IdempotencySteps, PTL DEF MCSpec
<1>4. MCSpec => []SagaInv
  BY PartsStart, SagaInit, SagaNext, SagaMoves, PTL DEF MCSpec
<1>5. MCSpec => []GrpcInv
  BY PartsStart, GrpcInit, GrpcNext, GrpcSteps, PTL DEF MCSpec
<1>6. BreakerInv /\ LimitInv /\ OnceInv /\ SagaInv /\ GrpcInv => GuardsKeepCount
  BY LimitHolds, OnceHolds, SagaHolds, GrpcHolds DEF BreakerInv, GuardsKeepCount, In
<1> QED
  BY <1>1, <1>2, <1>3, <1>4, <1>5, <1>6, PTL

(* The same of each component by itself, without the bounds that MCServices  *)
(* puts on a run: whatever the component's own specification allows.        *)
THEOREM EachGuardAlone ==
  /\ Rabbit!Spec => [](Rabbit!TypeOK /\ Rabbit!ConnectionIsMinded)
  /\ Circuit!Spec => [](Circuit!TypeOK /\ Circuit!BreakerIsConsistent)
  /\ Limiter!Spec => [](Limiter!TypeOK /\ Limiter!AdmittedWithinRate)
  /\ Once!Spec => [](Once!TypeOK /\ Once!RunsAreExcused)
  /\ Undo!Spec => [](Undo!TypeOK /\ Undo!LeftBehind)
  /\ Client!Spec => [](Client!TypeOK /\ Client!DeadJobsAreBlamed /\ Client!HalfOpenIsDecided)
  /\ Sandbox!Spec => [](Sandbox!TypeOK /\ Sandbox!VerdictsAreDeserved)
  /\ Checks!Spec => [](Checks!TypeOK /\ Checks!PairsAreReported /\ Checks!ReportsAreFounded)
<1>1. Rabbit!Spec => [](Rabbit!TypeOK /\ Rabbit!ConnectionIsMinded)
  <2>1. [Rabbit!Next]_(Rabbit!vars) => [Rabbit!Next]_connectionVars
    BY DEF Rabbit!vars, connectionVars
  <2>2. ConnectionInv => Rabbit!TypeOK /\ Rabbit!ConnectionIsMinded
    BY Zenon DEF ConnectionInv
  <2> QED
    BY ConnectionInit, ConnectionNext, <2>1, <2>2, PTL DEF Rabbit!Spec
<1>2. Circuit!Spec => [](Circuit!TypeOK /\ Circuit!BreakerIsConsistent)
  <2>1. [Circuit!Next]_(Circuit!vars) => [Circuit!Next]_breakerVars
    BY DEF Circuit!vars, breakerVars
  <2>2. BreakerInv => Circuit!TypeOK /\ Circuit!BreakerIsConsistent
    BY Zenon DEF BreakerInv
  <2> QED
    BY BreakerInit, BreakerNext, <2>1, <2>2, PTL DEF Circuit!Spec
<1>3. Limiter!Spec => [](Limiter!TypeOK /\ Limiter!AdmittedWithinRate)
  <2>1. [Limiter!Next]_(Limiter!vars) => [Limiter!Next]_limitVars
    BY DEF Limiter!vars, limitVars
  <2>2. LimitInv => Limiter!TypeOK /\ Limiter!AdmittedWithinRate
    BY LimitHolds DEF LimitInv
  <2> QED
    BY LimitInit, LimitNext, <2>1, <2>2, PTL DEF Limiter!Spec
<1>4. Once!Spec => [](Once!TypeOK /\ Once!RunsAreExcused)
  <2>1. [Once!Next]_(Once!vars) => [Once!Next]_idempotencyVars
    BY DEF Once!vars, idempotencyVars
  <2>2. OnceInv => Once!TypeOK /\ Once!RunsAreExcused
    BY OnceHolds DEF OnceInv
  <2> QED
    BY OnceInit, OnceNext, <2>1, <2>2, PTL DEF Once!Spec
<1>5. Undo!Spec => [](Undo!TypeOK /\ Undo!LeftBehind)
  <2>1. [Undo!Next]_(Undo!vars) => [Undo!Next]_sagaVars
    BY DEF Undo!vars, sagaVars
  <2>2. SagaInv => Undo!TypeOK /\ Undo!LeftBehind
    BY SagaHolds
  <2> QED
    BY SagaInit, SagaNext, <2>1, <2>2, PTL DEF Undo!Spec
<1>6. Client!Spec => [](Client!TypeOK /\ Client!DeadJobsAreBlamed /\ Client!HalfOpenIsDecided)
  <2>1. [Client!Next]_(Client!vars) => [Client!Next]_grpcVars
    BY DEF Client!vars, grpcVars
  <2>2. GrpcInv => Client!TypeOK /\ Client!DeadJobsAreBlamed /\ Client!HalfOpenIsDecided
    BY GrpcHolds
  <2> QED
    BY GrpcInit, GrpcNext, <2>1, <2>2, PTL DEF Client!Spec
<1>7. Sandbox!Spec => [](Sandbox!TypeOK /\ Sandbox!VerdictsAreDeserved)
  <2>1. [Sandbox!Next]_(Sandbox!vars) => [Sandbox!Next]_judgeVars
    BY DEF Sandbox!vars, judgeVars
  <2>2. JudgeInv => Sandbox!TypeOK /\ Sandbox!VerdictsAreDeserved
    BY JudgeHolds
  <2> QED
    BY JudgeInit, JudgeNext, <2>1, <2>2, PTL DEF Sandbox!Spec
<1>8. Checks!Spec => [](Checks!TypeOK /\ Checks!PairsAreReported /\ Checks!ReportsAreFounded)
  <2>1. [Checks!Next]_(Checks!vars) => [Checks!Next]_plagiarismVars
    BY DEF Checks!vars, plagiarismVars
  <2>2. PlagiarismInv => Checks!TypeOK /\ Checks!PairsAreReported /\ Checks!ReportsAreFounded
    BY PlagiarismHolds
  <2> QED
    BY PlagiarismInit, PlagiarismNext, <2>1, <2>2, PTL DEF Checks!Spec
<1> QED
  BY <1>1, <1>2, <1>3, <1>4, <1>5, <1>6, <1>7, <1>8
=============================================================================
