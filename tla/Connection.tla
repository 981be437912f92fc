----------------------------- MODULE Connection -----------------------------
(***************************************************************************)
(* RabbitMQConnection: the one connection and confirm channel of a         *)
(* process.  connect() is one loop of attempts at a time; an attempt dials,*)
(* opens the channel and sets its prefetch, and only then listens for the  *)
(* end of the connection.  A connection that ends later is dialled again   *)
(* after a delay; consumers that were registered on its channel are gone.  *)
(***************************************************************************)
EXTENDS Naturals

CONSTANTS MAX_RETRIES, MaxDrops   \* MaxDrops: bound on failures of the broker

VARIABLES
  up,          \* the broker answers
  connection,  \* the field: "none", "open" or, with no handler for it, "closed"
  channel,     \* the field: "none", "live" or "dead"
  phase,       \* of _connect(): "none", "dial", "channel", "prefetch", "delay"
  retries,     \* its failed attempts
  timer,       \* reconnectTimer
  shuttingDown,
  drops,
  gaveUp,      \* ghost: the last loop threw
  consuming    \* the startup's consumers: "none", "registered", "lost"
vars == <<up, connection, channel, phase, retries, timer, shuttingDown, drops, gaveUp, consuming>>

TypeOK ==
  /\ {up, timer, shuttingDown, gaveUp} \subseteq BOOLEAN
  /\ connection \in {"none", "open", "closed"} /\ channel \in {"none", "live", "dead"}
  /\ phase \in {"none", "dial", "channel", "prefetch", "delay"}
  /\ retries \in 0..MAX_RETRIES /\ drops \in 0..MaxDrops
  /\ consuming \in {"none", "registered", "lost"}

Init ==
  /\ up \in BOOLEAN
  /\ connection = "none" /\ channel = "none" /\ phase = "none" /\ retries = 0
  /\ timer = FALSE /\ shuttingDown = FALSE /\ drops = 0 /\ gaveUp = FALSE
  /\ consuming = "none"
-----------------------------------------------------------------------------
\* getChannel() and connect(): the channel there is, the loop under way, or one.
Connect ==
  IF channel = "none" /\ phase = "none"
  THEN phase' = "dial" /\ retries' = 0 /\ gaveUp' = FALSE
  ELSE UNCHANGED <<phase, retries, gaveUp>>

\* Publishers ask for it at any time.
GetChannel ==
  /\ Connect
  /\ UNCHANGED <<up, connection, channel, timer, shuttingDown, drops, consuming>>

TimerFires ==
  /\ timer /\ timer' = FALSE
  /\ Connect
  /\ UNCHANGED <<up, connection, channel, shuttingDown, drops, consuming>>

\* The awaits of an attempt: amqp.connect, createConfirmChannel, prefetch.
Dial ==
  /\ phase = "dial" /\ up
  /\ connection' = "open" /\ phase' = "channel"
  /\ UNCHANGED <<up, channel, retries, timer, shuttingDown, drops, gaveUp, consuming>>

CreateConfirmChannel ==
  /\ phase = "channel" /\ connection = "open"
  /\ channel' = "live" /\ phase' = "prefetch"
  /\ UNCHANGED <<up, connection, retries, timer, shuttingDown, drops, gaveUp, consuming>>

\* close() may have emptied the fields in the meantime: this.connection.on
\* then throws into the same catch.
Listen ==
  /\ phase = "prefetch" /\ connection = "open" /\ channel = "live"
  /\ phase' = "none"
  /\ UNCHANGED <<up, connection, channel, retries, timer, shuttingDown, drops, gaveUp, consuming>>

AttemptFails ==
  /\ \/ phase = "dial"
     \/ phase = "channel" /\ connection # "open"
     \/ phase = "prefetch" /\ (connection # "open" \/ channel # "live")
  /\ retries' = retries + 1
  /\ IF retries' >= MAX_RETRIES THEN phase' = "none" /\ gaveUp' = TRUE
                                ELSE phase' = "delay" /\ UNCHANGED gaveUp
  /\ UNCHANGED <<up, connection, channel, timer, shuttingDown, drops, consuming>>

Retry ==
  /\ phase = "delay" /\ phase' = "dial"
  /\ UNCHANGED <<up, connection, channel, retries, timer, shuttingDown, drops, gaveUp, consuming>>

\* startPlagiarismConsumer and its like register once, when the process starts.
RegisterConsumers ==
  /\ consuming = "none" /\ channel = "live" /\ phase = "none" /\ ~shuttingDown
  /\ consuming' = "registered"
  /\ UNCHANGED <<up, connection, channel, phase, retries, timer, shuttingDown, drops, gaveUp>>
-----------------------------------------------------------------------------
NoReconnect ==   \* Mutant: the fields are emptied and no timer is set.
  channel' = "none" /\ connection' = "none" /\ UNCHANGED timer
\* A connection in use ends: the handler of 'close'.
ScheduleReconnect == channel' = "none" /\ connection' = "none" /\ timer' = TRUE

BrokerFails ==
  /\ up /\ up' = FALSE
  /\ drops < MaxDrops /\ drops' = drops + 1
  /\ IF connection = "open" /\ phase = "none" /\ ~shuttingDown
     THEN ScheduleReconnect
     ELSE /\ connection' = IF connection = "open" THEN "closed" ELSE connection
          /\ channel' = IF channel = "live" THEN "dead" ELSE channel
          /\ UNCHANGED timer
  /\ consuming' = IF consuming = "registered" THEN "lost" ELSE consuming
  /\ UNCHANGED <<phase, retries, shuttingDown, gaveUp>>

BrokerReturns ==
  /\ ~up /\ up' = TRUE
  /\ UNCHANGED <<connection, channel, phase, retries, timer, shuttingDown, drops, gaveUp, consuming>>

\* close(), of a graceful shutdown; a loop of attempts is not told.
Close ==
  /\ ~shuttingDown /\ shuttingDown' = TRUE
  /\ timer' = FALSE /\ channel' = "none" /\ connection' = "none"
  /\ UNCHANGED <<up, phase, retries, drops, gaveUp, consuming>>

Next ==
  \/ GetChannel \/ TimerFires \/ Dial \/ CreateConfirmChannel \/ Listen \/ AttemptFails
  \/ Retry \/ RegisterConsumers \/ BrokerFails \/ BrokerReturns \/ Close
Spec == Init /\ [][Next]_vars
-----------------------------------------------------------------------------
(* A process whose consumers have been registered is never left without a   *)
(* channel and without anybody minding it, unless ten attempts in a row     *)
(* failed; and a dead channel is kept only by an attempt that lost its      *)
(* connection before it listened, whose loop is still at work or gave up.   *)
ConnectionIsMinded ==
  ~shuttingDown =>
    /\ consuming # "none" /\ channel = "none" => timer \/ phase # "none" \/ gaveUp
    /\ channel = "dead" => phase # "none" \/ gaveUp
    /\ phase = "none" /\ channel = "live" => up
=============================================================================
