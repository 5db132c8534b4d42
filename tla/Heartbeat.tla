------------------------------- MODULE Heartbeat -------------------------------
(***************************************************************************)
(* The clocks of the heartbeat between a client and one driver plugin: the *)
(* goroutine started in client_driver.go and the select loop of            *)
(* register_driver.go.  Time is counted in ticks.  A message, with the     *)
(* scheduling of both sides, takes at most Latency ticks; the client needs *)
(* at most Handshake ticks from the plugin's listening to its first wait.  *)
(* Names that PluginRPC defines too begin with HB here.                    *)
(***************************************************************************)
EXTENDS Integers

CONSTANTS Interval,   \* heartbeatInterval of the client
          Timeout,    \* heartbeatTimeout of the plugin
          Latency,    \* longest delay of one message
          Handshake   \* longest time from listening to the first wait

\* What the two constants of the code must satisfy, with the delays.
ASSUME HeartbeatAssumption ==
  /\ Interval \in Nat /\ Timeout \in Nat /\ Latency \in Nat /\ Handshake \in Nat
  /\ Handshake + Interval + Latency < Timeout
  /\ Latency + Interval + Latency < Timeout

VARIABLES client,   \* phase of the heartbeat goroutine
          elapsed,  \* ticks since the client entered its phase
          request,  \* age of the Heartbeat request on the wire, -1 if there is none
          reply,    \* age of its reply on the wire, -1 if there is none
          server,   \* the plugin process
          quiet     \* ticks since the plugin's select started to wait

hbVars == <<client, elapsed, request, reply, server, quiet>>

HBInit ==
  /\ client = "handshake"
  /\ elapsed = 0
  /\ request = -1
  /\ reply = -1
  /\ server = "serving"
  /\ quiet = 0

\* The client has dialled, got the version and started the goroutine.
HandshakeDone ==
  /\ client = "handshake"
  /\ client' = "waiting"
  /\ elapsed' = 0
  /\ UNCHANGED <<request, reply, server, quiet>>

\* time.After(heartbeatInterval) fires and the Heartbeat call is made.
Beat ==
  /\ client = "waiting"
  /\ elapsed = Interval
  /\ client' = "calling"
  /\ elapsed' = 0
  /\ request' = 0
  /\ UNCHANGED <<reply, server, quiet>>

\* Wrong variant: the loop does not start a new timer.
BeatIgnored ==
  /\ server = "serving"
  /\ request >= 0
  /\ request' = -1
  /\ reply' = IF client = "calling" THEN 0 ELSE -1
  /\ UNCHANGED <<client, elapsed, server, quiet>>

\* The handler sends on HeartbeatCh, the loop receives it and starts a new
\* timer, and the call returns.
BeatReceived ==
  /\ server = "serving"
  /\ request >= 0
  /\ request' = -1
  /\ reply' = IF client = "calling" THEN 0 ELSE -1
  /\ quiet' = 0
  /\ UNCHANGED <<client, elapsed, server>>

\* The call returns without error and the goroutine waits again.
BeatAnswered ==
  /\ client = "calling"
  /\ reply >= 0
  /\ reply' = -1
  /\ client' = "waiting"
  /\ elapsed' = 0
  /\ UNCHANGED <<request, server, quiet>>

\* The client process ends without closing the plugin (osExit after an error,
\* or a kill); a request already sent still arrives.
ClientDies ==
  /\ client # "dead"
  /\ client' = "dead"
  /\ elapsed' = 0
  /\ reply' = -1
  /\ UNCHANGED <<request, server, quiet>>

\* time.After(heartbeatTimeout) fires: os.Exit(1).
Expire ==
  /\ server = "serving"
  /\ quiet = Timeout
  /\ server' = "exited"
  /\ UNCHANGED <<client, elapsed, request, reply, quiet>>

\* Wrong variant: the plugin's timer never comes due.
TickWithoutTimeout ==
  /\ server = "serving"
  /\ client = "handshake" => elapsed < Handshake
  /\ client = "waiting" => elapsed < Interval
  /\ request < Latency
  /\ reply < Latency
  /\ elapsed' = elapsed + 1
  /\ quiet' = quiet + 1
  /\ request' = IF request = -1 THEN -1 ELSE request + 1
  /\ reply' = IF reply = -1 THEN -1 ELSE reply + 1
  /\ UNCHANGED <<client, server>>

\* One tick passes, unless a timer is due or a message has to be delivered first.
Tick ==
  /\ server = "serving"
  /\ quiet < Timeout
  /\ client = "handshake" => elapsed < Handshake
  /\ client = "waiting" => elapsed < Interval
  /\ request < Latency
  /\ reply < Latency
  /\ elapsed' = elapsed + 1
  /\ quiet' = quiet + 1
  /\ request' = IF request = -1 THEN -1 ELSE request + 1
  /\ reply' = IF reply = -1 THEN -1 ELSE reply + 1
  /\ UNCHANGED <<client, server>>

\* The plugin has exited; a client that is left finds out at its next call
\* (module PluginRPC).
Ended == server = "exited" /\ UNCHANGED hbVars

HBNext == HandshakeDone \/ Beat \/ BeatReceived \/ BeatAnswered \/ ClientDies \/ Expire \/ Tick \/ Ended

HBSpec == HBInit /\ [][HBNext]_hbVars

-----------------------------------------------------------------------------
HBTypeOK ==
  /\ client \in {"handshake", "waiting", "calling", "dead"}
  /\ elapsed \in Nat
  /\ request \in Nat \union {-1}
  /\ reply \in Nat \union {-1}
  /\ server \in {"serving", "exited"}
  /\ quiet \in Nat

\* The plugin never gives up on a client that is alive: the timeout leaves room
\* for the handshake before the first beat and for both messages of a beat.
NoSpuriousExit == client # "dead" => server = "serving"

\* A plugin outlives its client by no more than its timeout and the delay of
\* the last request on the wire.
ReapedInTime == client = "dead" /\ server = "serving" => elapsed <= Timeout + Latency
=============================================================================
