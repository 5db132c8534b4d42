------------------------------ MODULE PluginProofs -----------------------------
(***************************************************************************)
(* Theorems about PluginRPC, for any finite or infinite set of drivers and *)
(* any set of faults; about the clocks of its heartbeat (Heartbeat), for   *)
(* every interval, timeout and delay that satisfy HeartbeatAssumption; and *)
(* about ls, which asks many plugins at once (ListHosts), for any finite   *)
(* set of hosts.                                                           *)
(***************************************************************************)
EXTENDS PluginRPC, Heartbeat, ListHosts, Integers, FiniteSetTheorems, WellFoundedInduction, TLAPS

\* The main goroutine has not begun to close the factory.
Loading == pc \in {"ready", "address", "dial", "version", "versionV0", "setconfig", "work"}

\* Drivers not yet loaded are untouched, and none is registered twice.
RegisteredOnce ==
  /\ \A d \in todo : serve[d] = "off" /\ addrCh[d] = "empty"
  /\ \A i \in 1..Len(opened) : opened[i] \notin todo
  /\ \A i, j \in 1..Len(opened) : opened[i] = opened[j] => i = j
  /\ pc \in {"address", "dial", "version", "versionV0", "setconfig"} => cur \notin todo
  /\ pc \in {"address", "dial"} => \A i \in 1..Len(opened) : opened[i] # cur
  /\ pc \in {"version", "versionV0", "setconfig"} => \E i \in 1..Len(opened) : opened[i] = cur
  /\ pc \in {"done", "closecall", "stop"} => next <= Len(opened) /\ cur = opened[next]

\* How far factory.Close has come: the drivers before next are closed, the ones
\* from next on are not.
CloseProgress ==
  /\ Loading => next = 1
  /\ \A d \in Drivers : Loading => ~doneClosed[d]
  /\ \A i \in 1..Len(opened) : i < next => doneClosed[opened[i]]
  /\ \A i \in 1..Len(opened) :
       i >= next /\ doneClosed[opened[i]] => i = next /\ pc \in {"closecall", "stop", "panicked"}
  /\ pc \in {"closecall", "stop"} => doneClosed[cur]

\* The Serve goroutine stays in its select until the driver is closed.
ServeInLoop ==
  /\ \A d \in Drivers : addrCh[d] # "empty" => serve[d] = "loop" \/ doneClosed[d]
  /\ \A i \in 1..Len(opened) : i >= next => serve[opened[i]] = "loop"
  /\ \A i \in 1..Len(opened) : serve[opened[i]] \in {"loop", "wait", "returned"}

\* What closing does to the plugin process.
ClosedProcess ==
  /\ \A i \in 1..Len(opened) : proc[opened[i]] \in {"serving", "exiting", "exited"}
  /\ \A d \in Drivers : doneClosed[d] =>
       proc[d] \in {"exiting", "exited"} \/ (pc = "closecall" /\ cur = d)
  /\ \A d \in Drivers : hb[d] # "off" =>
       (\E i \in 1..Len(opened) : opened[i] = d) \/ (pc = "exited" /\ doneClosed[d])

IInv ==
  /\ TypeOK
  /\ RegisteredOnce
  /\ CloseProgress
  /\ NoHeartbeatAfterClose
  /\ ServeInLoop
  /\ ClosedProcess

-----------------------------------------------------------------------------
\* Every variable starts in its type.
LEMMA InitTypeOK == Init => TypeOK
<1> SUFFICES ASSUME Init PROVE TypeOK
  OBVIOUS
<1>1. hasPlugin \in [Drivers -> BOOLEAN] /\ doneClosed \in [Drivers -> BOOLEAN]
  BY Zenon DEF Init
<1>2. printed \in [Drivers -> BOOLEAN]
  BY Zenon DEF Init
<1>3. opened \in Seq(Drivers) /\ next \in Nat \ {0}
  BY SMT DEF Init
<1>4. tolerant \in BOOLEAN /\ loadErr \in BOOLEAN
  BY Zenon DEF Init
<1>5. pc \in MainPC /\ cur \in Drivers /\ todo \in SUBSET Drivers /\ loaded \in SUBSET Drivers
  BY DEF Init, MainPC
<1>6. /\ hb \in [Drivers -> {"off", "select", "calling", "selfclose", "returned"}]
      /\ serve \in [Drivers -> {"off", "start", "scan", "loop", "wait", "returned"}]
      /\ addrCh \in [Drivers -> {"empty", "addr", "blank", "read", "readBlank"}]
      /\ proc \in [Drivers -> {"none", "starting", "serving", "exiting", "exited"}]
      /\ exit \in [Drivers -> {"none", "listen", "timeout", "panic", "closed", "crash"}]
  BY Zenon DEF Init
<1>7. QED
  BY <1>1, <1>2, <1>3, <1>4, <1>5, <1>6, Zenon DEF TypeOK

\* Every variable keeps its type through every step of the client, its
\* goroutines and the plugin processes.
THEOREM TypeCorrect == Spec => []TypeOK
<1>1. Init => TypeOK
  BY InitTypeOK
<1>2. TypeOK /\ [Next]_vars => TypeOK'
  <2> SUFFICES ASSUME TypeOK, [Next]_vars PROVE TypeOK'
    OBVIOUS
  <2> USE DEF TypeOK, MainPC, mainVars, driverVars, procVars
  <2>1. CASE BinaryNotFound
    BY <2>1 DEF BinaryNotFound
  <2>2. CASE StartPlugin
    BY <2>2 DEF StartPlugin
  <2>3. CASE AddressReceived
    BY <2>3 DEF AddressReceived
  <2>4. CASE AddressTimeout
    BY <2>4 DEF AddressTimeout, LoadFails
  <2>5. CASE DialAndRegister
    BY <2>5 DEF DialAndRegister
  <2>6. CASE DialFails
    BY <2>6 DEF DialFails, LoadFails
  <2>7. CASE RetryWithV0
    BY <2>7 DEF RetryWithV0
  <2>8. CASE VersionAgreed
    BY <2>8 DEF VersionAgreed
  <2>9. CASE VersionFails
    BY <2>9 DEF VersionFails, LoadFails
  <2>10. CASE ConfigSet
    BY <2>10 DEF ConfigSet
  <2>11. CASE ConfigFails
    BY <2>11 DEF ConfigFails, LoadFails
  <2>12. CASE LoadingDone
    BY <2>12 DEF LoadingDone
  <2>13. CASE CommandFails
    BY <2>13 DEF CommandFails
  <2>14. CASE CommandSucceeds
    BY <2>14 DEF CommandSucceeds
  <2>15. CASE CreatePanics
    BY <2>15 DEF CreatePanics, trapPanic
  <2>16. CASE CloseNextDriver
    BY <2>16 DEF CloseNextDriver
  <2>17. CASE SendDone
    BY <2>17 DEF SendDone
  <2>18. CASE CallClose
    BY <2>18 DEF CallClose
  <2>19. CASE SendStop
    BY <2>19 DEF SendStop
  <2>20. CASE NilPlugin
    BY <2>20 DEF NilPlugin
  <2>21. CASE CloseReturns
    BY <2>21 DEF CloseReturns
  <2>22. ASSUME NEW d \in Drivers, HeartbeatTick(d) PROVE TypeOK'
    BY <2>22 DEF HeartbeatTick
  <2>23. ASSUME NEW d \in Drivers, HeartbeatReply(d) PROVE TypeOK'
    BY <2>23 DEF HeartbeatReply
  <2>24. ASSUME NEW d \in Drivers, HeartbeatFails(d) PROVE TypeOK'
    BY <2>24 DEF HeartbeatFails
  <2>25. ASSUME NEW d \in Drivers, ServeStarts(d) PROVE TypeOK'
    BY <2>25 DEF ServeStarts
  <2>26. ASSUME NEW d \in Drivers, ServeScans(d) PROVE TypeOK'
    BY <2>26 DEF ServeScans
  <2>27. ASSUME NEW d \in Drivers, ServeWaits(d) PROVE TypeOK'
    BY <2>27 DEF ServeWaits
  <2>28. ASSUME NEW d \in Drivers, PluginListens(d) PROVE TypeOK'
    BY <2>28 DEF PluginListens
  <2>29. ASSUME NEW d \in Drivers, HeartbeatTimeout(d) PROVE TypeOK'
    BY <2>29 DEF HeartbeatTimeout
  <2>30. ASSUME NEW d \in Drivers, PluginExits(d) PROVE TypeOK'
    BY <2>30 DEF PluginExits
  <2>31. ASSUME NEW d \in Drivers, PluginCrashes(d) PROVE TypeOK'
    BY <2>31 DEF PluginCrashes
  <2>32. CASE UNCHANGED vars
    BY <2>32 DEF vars
  <2>33. QED
    BY <2>1, <2>2, <2>3, <2>4, <2>5, <2>6, <2>7, <2>8, <2>9, <2>10, <2>11, <2>12, <2>13, <2>14, <2>15, <2>16, <2>17, <2>18, <2>19, <2>20, <2>21, <2>22, <2>23, <2>24, <2>25, <2>26, <2>27, <2>28, <2>29, <2>30, <2>31, <2>32 DEF Next, MainNext, HeartbeatNext, ServeNext, PluginNext, Terminated
<1>3. QED
  BY <1>1, <1>2, PTL DEF Spec

\* The inductive invariant: who is registered, how far closing has come, and
\* where the goroutines and the process of each registered driver then are.
LEMMA InductiveStep == TypeOK' /\ IInv /\ [Next]_vars => IInv'
<1> SUFFICES ASSUME TypeOK', IInv, [Next]_vars PROVE IInv'
  OBVIOUS
<1> USE DEF IInv, TypeOK, MainPC, RegisteredOnce, CloseProgress, NoHeartbeatAfterClose,
          ServeInLoop, ClosedProcess, Loading, mainVars, driverVars, procVars
<1>1. CASE BinaryNotFound
  BY <1>1 DEF BinaryNotFound
<1>2. CASE StartPlugin
  BY <1>2 DEF StartPlugin
<1>3. CASE AddressReceived
  BY <1>3 DEF AddressReceived
<1>4. CASE AddressTimeout
  BY <1>4 DEF AddressTimeout, LoadFails
<1>5. CASE DialAndRegister
  BY <1>5 DEF DialAndRegister
<1>6. CASE DialFails
  BY <1>6 DEF DialFails, LoadFails
<1>7. CASE RetryWithV0
  BY <1>7 DEF RetryWithV0
<1>8. CASE VersionAgreed
  BY <1>8 DEF VersionAgreed
<1>9. CASE VersionFails
  BY <1>9 DEF VersionFails, LoadFails
<1>10. CASE ConfigSet
  BY <1>10 DEF ConfigSet
<1>11. CASE ConfigFails
  BY <1>11 DEF ConfigFails, LoadFails
<1>12. CASE LoadingDone
  BY <1>12 DEF LoadingDone
<1>13. CASE CommandFails
  BY <1>13 DEF CommandFails
<1>14. CASE CommandSucceeds
  BY <1>14 DEF CommandSucceeds
<1>15. CASE CreatePanics
  BY <1>15 DEF CreatePanics, trapPanic
<1>16. CASE CloseNextDriver
  BY <1>16 DEF CloseNextDriver
<1>17. CASE SendDone
  BY <1>17 DEF SendDone
<1>18. CASE CallClose
  <2>1. /\ RegisteredOnce'
        /\ CloseProgress'
        /\ NoHeartbeatAfterClose'
        /\ ServeInLoop'
    <3>1. RegisteredOnce' /\ NoHeartbeatAfterClose' /\ ServeInLoop'
      BY <1>18 DEF CallClose
    <3>2. doneClosed[cur] /\ next <= Len(opened) /\ opened[next] = cur
      BY <1>18 DEF CallClose
    <3>3. CloseProgress'
      BY <1>18, <3>2 DEF CallClose
    <3>4. QED
      BY <3>1, <3>3
  <2>2. proc[cur] \in {"serving", "exiting", "exited"}
    BY <1>18 DEF CallClose
  <2>3. proc'[cur] \in {"exiting", "exited"} /\ \A d \in Drivers \ {cur} : proc'[d] = proc[d]
    BY <1>18, <2>2 DEF CallClose
  <2>4. ClosedProcess'
    BY <1>18, <2>3 DEF CallClose
  <2>5. QED
    BY <2>1, <2>4
<1>19. CASE SendStop
  BY <1>19 DEF SendStop
<1>20. CASE NilPlugin
  BY <1>20 DEF NilPlugin
<1>21. CASE CloseReturns
  BY <1>21 DEF CloseReturns
<1>22. ASSUME NEW d \in Drivers, HeartbeatTick(d) PROVE IInv'
  BY <1>22 DEF HeartbeatTick, Alive
<1>23. ASSUME NEW d \in Drivers, HeartbeatReply(d) PROVE IInv'
  BY <1>23 DEF HeartbeatReply, Alive
<1>24. ASSUME NEW d \in Drivers, HeartbeatFails(d) PROVE IInv'
  BY <1>24 DEF HeartbeatFails, Alive
<1>25. ASSUME NEW d \in Drivers, ServeStarts(d) PROVE IInv'
  <2>1. \A i \in 1..Len(opened) : opened[i] # d
    BY <1>25 DEF ServeStarts
  <2>2. ~doneClosed[d] /\ addrCh[d] = "empty"
    BY <1>25, <2>1 DEF ServeStarts, Alive
  <2>3. CASE proc' = proc
    BY <1>25, <2>1, <2>2, <2>3 DEF ServeStarts
  <2>4. CASE proc' = [proc EXCEPT ![d] = "starting"]
    <3>1. RegisteredOnce' /\ CloseProgress' /\ NoHeartbeatAfterClose' /\ ServeInLoop'
      BY <1>25, <2>1, <2>2 DEF ServeStarts
    <3>2. ClosedProcess'
      BY <1>25, <2>1, <2>2, <2>4 DEF ServeStarts
    <3>3. QED
      BY <3>1, <3>2
  <2>5. QED
    BY <1>25, <2>3, <2>4 DEF ServeStarts
<1>26. ASSUME NEW d \in Drivers, ServeScans(d) PROVE IInv'
  <2>1. \A i \in 1..Len(opened) : opened[i] # d
    BY <1>26 DEF ServeScans
  <2>2. d \notin todo
    BY <1>26 DEF ServeScans
  <2>3. addrCh[d] = "empty"
    BY <1>26, <2>1 DEF ServeScans, Alive
  <2>4. RegisteredOnce' /\ CloseProgress' /\ NoHeartbeatAfterClose' /\ ClosedProcess'
    BY <1>26, <2>1, <2>2 DEF ServeScans
  <2>5. ServeInLoop'
    <3>1. \A e \in Drivers \ {d} : serve'[e] = serve[e] /\ addrCh'[e] = addrCh[e]
      BY <1>26 DEF ServeScans
    <3>2. addrCh'[d] # "empty" => serve'[d] = "loop"
      BY <1>26, <2>3 DEF ServeScans
    <3>3. QED
      BY <1>26, <2>1, <3>1, <3>2 DEF ServeScans
  <2>6. QED
    BY <2>4, <2>5
<1>27. ASSUME NEW d \in Drivers, ServeWaits(d) PROVE IInv'
  BY <1>27 DEF ServeWaits, Alive
<1>28. ASSUME NEW d \in Drivers, PluginListens(d) PROVE IInv'
  BY <1>28 DEF PluginListens
<1>29. ASSUME NEW d \in Drivers, HeartbeatTimeout(d) PROVE IInv'
  BY <1>29 DEF HeartbeatTimeout, Alive, Handshaking
<1>30. ASSUME NEW d \in Drivers, PluginExits(d) PROVE IInv'
  BY <1>30 DEF PluginExits
<1>31. ASSUME NEW d \in Drivers, PluginCrashes(d) PROVE IInv'
  BY <1>31 DEF PluginCrashes
<1>32. CASE UNCHANGED vars
  BY <1>32 DEF vars
<1>33. QED
  BY <1>1, <1>2, <1>3, <1>4, <1>5, <1>6, <1>7, <1>8, <1>9, <1>10, <1>11, <1>12, <1>13, <1>14, <1>15, <1>16, <1>17, <1>18, <1>19, <1>20, <1>21, <1>22, <1>23, <1>24, <1>25, <1>26, <1>27, <1>28, <1>29, <1>30, <1>31, <1>32 DEF Next, MainNext, HeartbeatNext, ServeNext, PluginNext, Terminated

\* The invariant behind the safety theorems holds in every behaviour.
THEOREM Invariant == Spec => []IInv
<1>1. Init => IInv
  <2> SUFFICES ASSUME Init PROVE IInv
    OBVIOUS
  <2>1. TypeOK
    BY InitTypeOK
  <2>2. RegisteredOnce /\ CloseProgress /\ ServeInLoop /\ ClosedProcess
    BY <2>1, SMT DEF Init, TypeOK, RegisteredOnce, CloseProgress, ServeInLoop, ClosedProcess, Loading
  <2>3. NoHeartbeatAfterClose
    BY Zenon DEF Init, NoHeartbeatAfterClose
  <2>4. QED
    BY <2>1, <2>2, <2>3 DEF IInv
<1>2. QED
  BY <1>1, TypeCorrect, InductiveStep, PTL DEF Spec

\* c.plugin.Close never blocks: the Serve goroutine waits in its select, however
\* the plugin process ended and whatever failed while the driver was loaded.
THEOREM StopNeverBlocks == Spec => []StopHasReceiver
<1>1. IInv => StopHasReceiver
  BY DEF IInv, TypeOK, RegisteredOnce, ServeInLoop, StopHasReceiver
<1>2. QED
  BY <1>1, Invariant, PTL

\* Factory.Close uses each heartbeatDoneCh once: no send on a closed channel and
\* no second close.
THEOREM ClosedOnce == Spec => []DoneChannelOpen
<1>1. IInv => DoneChannelOpen
  BY DEF IInv, TypeOK, RegisteredOnce, CloseProgress, DoneChannelOpen
<1>2. QED
  BY <1>1, Invariant, PTL

\* The heartbeat goroutine has returned exactly when its channel is closed.
THEOREM HeartbeatStopped == Spec => []NoHeartbeatAfterClose
<1>1. IInv => NoHeartbeatAfterClose
  BY DEF IInv
<1>2. QED
  BY <1>1, Invariant, PTL

\* A factory.Close that returns leaves no registered plugin serving.
THEOREM CleanClose == Spec => []CleanCloseStopsPlugins
<1>1. IInv => CleanCloseStopsPlugins
  BY DEF IInv, TypeOK, ClosedProcess, CleanCloseStopsPlugins
<1>2. QED
  BY <1>1, Invariant, PTL

-----------------------------------------------------------------------------
(* The heartbeat goroutine of a driver that was loaded is there, and it gives *)
(* up only on a plugin that has exited.                                       *)

BeatInv ==
  /\ \A d \in Drivers : hb[d] = "selfclose" => proc[d] = "exited"
  /\ \A d \in loaded : hb[d] # "off"
  /\ pc = "setconfig" => hb[cur] # "off"

\* BeatInv is kept by every step.
LEMMA BeatStep == IInv /\ BeatInv /\ [Next]_vars => BeatInv'
<1> SUFFICES ASSUME IInv, BeatInv, [Next]_vars PROVE BeatInv'
  OBVIOUS
<1> USE DEF BeatInv, IInv, TypeOK, MainPC, RegisteredOnce, ServeInLoop,
          ClosedProcess, Alive, mainVars, driverVars, procVars
<1>1. CASE BinaryNotFound
  BY <1>1 DEF BinaryNotFound
<1>2. CASE StartPlugin
  BY <1>2 DEF StartPlugin
<1>3. CASE AddressReceived
  BY <1>3 DEF AddressReceived
<1>4. CASE AddressTimeout
  BY <1>4 DEF AddressTimeout, LoadFails
<1>5. CASE DialAndRegister
  BY <1>5 DEF DialAndRegister
<1>6. CASE DialFails
  BY <1>6 DEF DialFails, LoadFails
<1>7. CASE RetryWithV0
  BY <1>7 DEF RetryWithV0
<1>8. CASE VersionAgreed
  BY <1>8 DEF VersionAgreed
<1>9. CASE VersionFails
  BY <1>9 DEF VersionFails, LoadFails
<1>10. CASE ConfigSet
  BY <1>10 DEF ConfigSet
<1>11. CASE ConfigFails
  BY <1>11 DEF ConfigFails, LoadFails
<1>12. CASE LoadingDone
  BY <1>12 DEF LoadingDone
<1>13. CASE CommandFails
  BY <1>13 DEF CommandFails
<1>14. CASE CommandSucceeds
  BY <1>14 DEF CommandSucceeds
<1>15. CASE CreatePanics
  BY <1>15 DEF CreatePanics, trapPanic
<1>16. CASE CloseNextDriver
  BY <1>16 DEF CloseNextDriver
<1>17. CASE SendDone
  BY <1>17 DEF SendDone
<1>18. CASE CallClose
  BY <1>18 DEF CallClose
<1>19. CASE SendStop
  BY <1>19 DEF SendStop
<1>20. CASE NilPlugin
  BY <1>20 DEF NilPlugin
<1>21. CASE CloseReturns
  BY <1>21 DEF CloseReturns
<1>22. ASSUME NEW d \in Drivers, HeartbeatTick(d) PROVE BeatInv'
  BY <1>22 DEF HeartbeatTick
<1>23. ASSUME NEW d \in Drivers, HeartbeatReply(d) PROVE BeatInv'
  BY <1>23 DEF HeartbeatReply
<1>24. ASSUME NEW d \in Drivers, HeartbeatFails(d) PROVE BeatInv'
  BY <1>24 DEF HeartbeatFails
<1>25. ASSUME NEW d \in Drivers, ServeStarts(d) PROVE BeatInv'
  BY <1>25 DEF ServeStarts, ServeInLoop
<1>26. ASSUME NEW d \in Drivers, ServeScans(d) PROVE BeatInv'
  BY <1>26 DEF ServeScans
<1>27. ASSUME NEW d \in Drivers, ServeWaits(d) PROVE BeatInv'
  BY <1>27 DEF ServeWaits
<1>28. ASSUME NEW d \in Drivers, PluginListens(d) PROVE BeatInv'
  BY <1>28 DEF PluginListens
<1>29. ASSUME NEW d \in Drivers, HeartbeatTimeout(d) PROVE BeatInv'
  BY <1>29 DEF HeartbeatTimeout, Handshaking
<1>30. ASSUME NEW d \in Drivers, PluginExits(d) PROVE BeatInv'
  BY <1>30 DEF PluginExits
<1>31. ASSUME NEW d \in Drivers, PluginCrashes(d) PROVE BeatInv'
  BY <1>31 DEF PluginCrashes
<1>32. CASE UNCHANGED vars
  BY <1>32 DEF vars
<1>33. QED
  BY <1>1, <1>2, <1>3, <1>4, <1>5, <1>6, <1>7, <1>8, <1>9, <1>10, <1>11, <1>12, <1>13, <1>14, <1>15, <1>16, <1>17, <1>18, <1>19, <1>20, <1>21, <1>22, <1>23, <1>24, <1>25, <1>26, <1>27, <1>28, <1>29, <1>30, <1>31, <1>32 DEF Next, MainNext, HeartbeatNext, ServeNext, PluginNext, Terminated

\* For a driver that was loaded and whose plugin is up, the send in close() has a
\* receiver, whatever happened to the other drivers.
THEOREM DoneNeverBlocks == Spec => []DoneHasReceiver
<1>1. Init => BeatInv
  <2> SUFFICES ASSUME Init PROVE BeatInv
    OBVIOUS
  <2>1. QED
    BY SMT DEF Init, BeatInv, Alive
<1>2. IInv /\ BeatInv => DoneHasReceiver
  BY DEF IInv, TypeOK, BeatInv, RegisteredOnce, CloseProgress, NoHeartbeatAfterClose, DoneHasReceiver
<1>3. QED
  BY <1>1, <1>2, Invariant, BeatStep, PTL DEF Spec

\* Factory.Close neither blocks on a channel nor closes one twice, for any set of drivers
\* and whatever failed, except where DoneHasReceiver says so.
THEOREM CloseIsSafe == Spec => []CloseSafe
<1>1. StopHasReceiver /\ DoneChannelOpen /\ DoneHasReceiver => CloseSafe
  BY DEF CloseSafe
<1>2. QED
  BY <1>1, StopNeverBlocks, ClosedOnce, DoneNeverBlocks, PTL

-----------------------------------------------------------------------------
(* The heartbeat never times out while the client lives, and soon after it died *)

\* How long the plugin can have been waiting when the client starts to wait.
Slack == IF Handshake > Latency THEN Handshake ELSE Latency

\* The two clocks run together: what the plugin's timer shows is bounded by the
\* client's phase.
Clocks ==
  /\ request <= Latency /\ reply <= Latency /\ quiet <= Timeout
  /\ client = "handshake" => request = -1 /\ reply = -1 /\ quiet <= elapsed /\ elapsed <= Handshake
  /\ client = "waiting" => request = -1 /\ reply = -1 /\ elapsed <= Interval /\ quiet <= elapsed + Slack
  /\ client = "calling" =>
       \/ request >= 0 /\ reply = -1 /\ quiet <= Interval + Slack + request
       \/ request = -1 /\ reply >= 0 /\ quiet <= reply
  /\ client = "dead" =>
       /\ reply = -1
       /\ IF request >= 0 THEN elapsed <= request ELSE elapsed <= quiet + Latency

ClockInv == HBTypeOK /\ Clocks /\ NoSpuriousExit

\* The clock invariant holds in every behaviour.
THEOREM ClocksCorrect == HBSpec => []ClockInv
<1> USE HeartbeatAssumption DEF ClockInv, HBTypeOK, Clocks, NoSpuriousExit, Slack
<1>1. HBInit => ClockInv
  BY DEF HBInit
<1>2. ClockInv /\ [HBNext]_hbVars => ClockInv'
  <2> SUFFICES ASSUME ClockInv, [HBNext]_hbVars PROVE ClockInv'
    OBVIOUS
  <2>1. CASE HandshakeDone
    BY <2>1 DEF HandshakeDone
  <2>2. CASE Beat
    BY <2>2 DEF Beat
  <2>3. CASE BeatReceived
    BY <2>3 DEF BeatReceived
  <2>4. CASE BeatAnswered
    BY <2>4 DEF BeatAnswered
  <2>5. CASE ClientDies
    BY <2>5 DEF ClientDies
  <2>6. CASE Expire
    BY <2>6 DEF Expire
  <2>7. CASE Tick
    BY <2>7 DEF Tick
  <2>8. CASE UNCHANGED hbVars
    BY <2>8 DEF hbVars
  <2>9. QED
    BY <2>1, <2>2, <2>3, <2>4, <2>5, <2>6, <2>7, <2>8 DEF HBNext, Ended
<1>3. QED
  BY <1>1, <1>2, PTL DEF HBSpec

\* A plugin never exits for want of a heartbeat while its client is alive.
THEOREM LiveClientKeepsPlugin == HBSpec => []NoSpuriousExit
<1>1. ClockInv => NoSpuriousExit
  BY DEF ClockInv
<1>2. QED
  BY <1>1, ClocksCorrect, PTL

\* A plugin left behind exits within its timeout and one message delay.
THEOREM OrphanReaped == HBSpec => []ReapedInTime
<1>1. ClockInv => ReapedInTime
  BY HeartbeatAssumption DEF ClockInv, HBTypeOK, Clocks, ReapedInTime
<1>2. QED
  BY <1>1, ClocksCorrect, PTL

-----------------------------------------------------------------------------
(* ls, with any of its hosts behind the lock and any of them hanging. *)

\* A set of places of a sequence that is not empty has a last one.
LEMMA LastPlace ==
  ASSUME NEW n \in Nat, NEW S \in SUBSET (1..n), S # {}
  PROVE  \E k \in S : \A j \in S : j <= k
<1> DEFINE D == {m \in Nat : n - m \in S}
<1>1. D # {}
  <2>1. PICK k \in S : k \in 1..n
    OBVIOUS
  <2>2. n - k \in Nat /\ n - (n - k) = k
    BY <2>1
  <2>3. QED
    BY <2>2
<1>2. PICK d \in D : \A e \in D : ~(<<e, d>> \in OpToRel(<, Nat))
  BY <1>1, WFMin, NatLessThanWellFounded
<1>3. \A e \in D : ~(e < d)
  BY <1>2 DEF OpToRel
<1>4. \A j \in S : j <= n - d
  <2> TAKE j \in S
  <2>1. j \in 1..n
    OBVIOUS
  <2>2. n - j \in Nat /\ n - (n - j) = j
    BY <2>1
  <2>3. n - j \in D
    BY <2>2
  <2>4. ~(n - j < d)
    BY <1>3, <2>3
  <2>5. QED
    BY <2>1, <2>4
<1>5. QED
  BY <1>4

\* The row for a name is one of the items collected under that name.
LEMMA LastRankedItem ==
  ASSUME items \in Seq(Hosts), NEW k \in DOMAIN items
  PROVE  LastRanked(Rank[items[k]]) \in Hosts /\ Rank[LastRanked(Rank[items[k]])] = Rank[items[k]]
<1> DEFINE r == Rank[items[k]]
           ks == {j \in DOMAIN items : Rank[items[j]] = r}
           last == CHOOSE i \in ks : \A j \in ks : j <= i
<1>1. ks \in SUBSET (1..Len(items)) /\ k \in ks /\ Len(items) \in Nat
  OBVIOUS
<1>2. \E i \in ks : \A j \in ks : j <= i
  BY <1>1, LastPlace
<1>3. last \in ks
  BY <1>2
<1>4. LastRanked(r) = items[last]
  BY DEF LastRanked
<1> HIDE DEF last
<1>5. QED
  BY <1>3, <1>4

-----------------------------------------------------------------------------
(* The inductive invariant *)

Sent == {h \in Hosts : parent[h] = "sent"}

\* Every host that has sent its item was collected, once, and nobody else.
Collected ==
  /\ \A j, k \in DOMAIN items : items[j] = items[k] => j = k
  /\ \A h \in Hosts : h \in Sent <=> \E k \in DOMAIN items : items[k] = h
  /\ Len(items) = Cardinality(Sent)
  /\ main # "collect" => Len(items) = Cardinality(Hosts)

LsInv == LsTypeOK /\ OneSerialCall /\ Collected /\ EveryHostListed

\* A driver call that begins, hangs or returns keeps the lock exclusive.
LEMMA CallStep ==
  ASSUME LsTypeOK, OneSerialCall, NEW h \in Hosts, NEW r \in {"query", "parent"},
         \/ Lock(h) /\ call' = [call EXCEPT ![<<h, r>>] = "in"]
         \/ call[<<h, r>>] # "out" /\ call' = [call EXCEPT ![<<h, r>>] = "hung"]
         \/ Return(h, r)
         \/ call' = call
  PROVE  OneSerialCall' /\ call' \in [Goroutines -> {"out", "in", "hung"}]
<1> USE ListAssumption DEF LsTypeOK, Goroutines
<1>1. call' \in [Goroutines -> {"out", "in", "hung"}]
  BY DEF Return
<1>2. <<h, r>> \in Goroutines /\ Serial \X {"query", "parent"} \subseteq Goroutines
  OBVIOUS
<1>3. \A g \in Goroutines : g # <<h, r>> => call'[g] = call[g]
  BY DEF Return
<1>4. CASE Lock(h) /\ call' = [call EXCEPT ![<<h, r>>] = "in"]
  <2>1. CASE h \in Serial
    <3>1. \A g \in Serial \X {"query", "parent"} : call[g] = "out"
      <4> TAKE g \in Serial \X {"query", "parent"}
      <4>1. PICK k \in Serial, t \in {"query", "parent"} : g = <<k, t>>
        OBVIOUS
      <4>2. QED
        BY <1>4, <2>1, <4>1 DEF Lock, Locked
    <3>2. QED
      BY <1>1, <1>2, <1>3, <3>1 DEF OneSerialCall
  <2>2. CASE h \notin Serial
    <3>1. \A g \in Serial \X {"query", "parent"} : call'[g] = call[g]
      BY <1>2, <1>4, <2>2
    <3>2. QED
      BY <1>1, <3>1 DEF OneSerialCall
  <2>3. QED
    BY <2>1, <2>2
<1>5. CASE call[<<h, r>>] # "out" /\ call' = [call EXCEPT ![<<h, r>>] = "hung"]
  <2>1. \A g \in Goroutines : call'[g] # "out" => call[g] # "out"
    BY <1>3, <1>5
  <2>2. \A g, k \in Serial \X {"query", "parent"} : call'[g] # "out" /\ call'[k] # "out" => g = k
    <3> TAKE g, k \in Serial \X {"query", "parent"}
    <3>1. g \in Goroutines /\ k \in Goroutines
      BY <1>2
    <3>2. QED
      BY <2>1, <3>1 DEF OneSerialCall
  <2>3. QED
    BY <1>1, <2>2 DEF OneSerialCall
<1>6. CASE Return(h, r)
  BY <1>1, <1>2, <1>6 DEF OneSerialCall, Return
<1>7. CASE call' = call
  BY <1>1, <1>7 DEF OneSerialCall
<1>8. QED
  BY <1>4, <1>5, <1>6, <1>7

\* Steps of the goroutines that do not collect.
Quiet == UNCHANGED <<items, listed, main>> /\ main # "done" /\ \A h \in Hosts : parent'[h] = "sent" <=> parent[h] = "sent"

\* A goroutine that has not sent its item is not counted.
LEMMA QuietStep ==
  ASSUME Collected, EveryHostListed, Quiet PROVE Collected' /\ EveryHostListed'
<1>1. Sent' = Sent
  BY DEF Quiet, Sent
<1>2. QED
  BY <1>1 DEF Quiet, Collected, EveryHostListed

\* The main goroutine counts the item it has received.
LEMMA CollectStep ==
  ASSUME LsTypeOK, Collected, NEW h \in Hosts, Collect(h) PROVE Collected' /\ EveryHostListed' /\ items' \in Seq(Hosts)
<1>1. /\ main = "collect" /\ parent[h] = "send" /\ parent' = [parent EXCEPT ![h] = "sent"]
      /\ items' = Append(items, h) /\ main' \in {"collect", "sort"}
      /\ main' = "sort" => Len(items') = Cardinality(Hosts)
  BY DEF Collect
<1>2. items \in Seq(Hosts) /\ items' \in Seq(Hosts) /\ Len(items') = Len(items) + 1
      /\ DOMAIN items = 1..Len(items) /\ DOMAIN items' = 1..(Len(items) + 1) /\ Len(items) \in Nat
      /\ items'[Len(items) + 1] = h /\ \A k \in DOMAIN items : items'[k] = items[k]
  BY <1>1 DEF LsTypeOK
<1>3. h \notin Sent /\ Sent' = Sent \cup {h}
  BY <1>1 DEF LsTypeOK, Sent
<1>4. \A k \in DOMAIN items : items[k] # h
  BY <1>3 DEF Collected
<1>5. Cardinality(Sent') = Cardinality(Sent) + 1
  <2>1. IsFiniteSet(Sent)
    BY FS_Subset, ListAssumption DEF Sent
  <2>2. QED
    BY <1>3, <2>1, FS_AddElement
<1>6. \A j, k \in DOMAIN items' : items'[j] = items'[k] => j = k
  BY <1>2, <1>4 DEF Collected
<1>7. \A g \in Hosts : g \in Sent' <=> \E k \in DOMAIN items' : items'[k] = g
  <2> TAKE g \in Hosts
  <2>1. CASE g = h
    BY <1>2, <1>3, <2>1
  <2>2. CASE g # h
    <3>1. g \in Sent' <=> \E k \in DOMAIN items : items[k] = g
      BY <1>3, <2>2 DEF Collected
    <3>2. QED
      BY <1>2, <2>2, <3>1
  <2>3. QED
    BY <2>1, <2>2
<1>8. Collected'
  BY <1>1, <1>2, <1>5, <1>6, <1>7 DEF Collected
<1>9. QED
  BY <1>1, <1>2, <1>8 DEF EveryHostListed

\* When as many items were received as there are hosts, every host has sent its own.
LEMMA AllSent ==
  ASSUME Collected, main # "collect" PROVE Sent = Hosts
<1>1. Sent \in SUBSET Hosts /\ Cardinality(Sent) = Cardinality(Hosts)
  BY DEF Collected, Sent
<1>2. QED
  BY <1>1, FS_Subset, ListAssumption

\* The rows are those of the names collected, sorted.
LEMMA SortStep ==
  ASSUME LsTypeOK, Collected, sortHostListItemsByName
  PROVE  Collected' /\ EveryHostListed' /\ listed' \in Seq(Hosts)
<1>1. main = "sort" /\ main' = "done" /\ UNCHANGED <<query, parent, call, items>>
  BY DEF sortHostListItemsByName
<1>2. PICK p \in [DOMAIN items -> DOMAIN items] :
        Sorts(p) /\ listed' = [k \in DOMAIN items |-> LastRanked(Rank[items[p[k]]])]
  BY DEF sortHostListItemsByName
<1>3. items \in Seq(Hosts) /\ DOMAIN items = 1..Len(items) /\ Len(items) \in Nat
  BY DEF LsTypeOK
<1>4. \A k \in DOMAIN items : listed'[k] \in Hosts /\ Rank[listed'[k]] = Rank[items[p[k]]]
  BY <1>2, <1>3, LastRankedItem
<1>5. DOMAIN listed' = DOMAIN items
  BY <1>2
<1>6. listed' \in Seq(Hosts)
  BY <1>2, <1>3, <1>4
<1>7. Collected'
  BY <1>1 DEF Collected, Sent
<1>8. \A j, k \in DOMAIN listed' : j < k => Rank[listed'[j]] <= Rank[listed'[k]]
  BY <1>2, <1>4, <1>5 DEF Sorts
<1>9. \A h \in Hosts : \E k \in DOMAIN listed' :
        listed'[k] = h \/ (Rank[listed'[k]] = Rank[h] /\ \E g \in Hosts \ {h} : Rank[g] = Rank[h])
  <2> TAKE h \in Hosts
  <2>1. PICK i \in DOMAIN items : items[i] = h
    BY <1>1, AllSent DEF Collected
  <2>2. PICK k \in DOMAIN items : p[k] = i
    BY <1>2 DEF Sorts
  <2>3. listed'[k] \in Hosts /\ Rank[listed'[k]] = Rank[h]
    BY <1>4, <2>1, <2>2
  <2>4. QED
    BY <1>5, <2>3
<1>10. QED
  BY <1>1, <1>6, <1>7, <1>8, <1>9 DEF EveryHostListed

\* Every step keeps the invariant.
LEMMA LsStep == LsInv /\ [LsNext]_lsVars => LsInv'
<1> SUFFICES ASSUME LsInv, [LsNext]_lsVars PROVE LsInv'
  OBVIOUS
<1> USE DEF LsInv
<1>1. ASSUME NEW h \in Hosts, main # "done",
             \/ \E r \in {"query", "parent"} : EnterCall(h, r)
             \/ Hang(h) \/ (\E found \in BOOLEAN : URLReturns(h, found)) \/ StateReturns(h) \/ DockerVersion(h)
             \/ NameReturns(h) \/ Answered(h) \/ HostTimeout(h) \/ TimeoutItem(h)
      PROVE  LsInv'
  <2>1. Quiet
    BY <1>1 DEF Quiet, LsTypeOK, EnterCall, Hang, URLReturns, StateReturns, DockerVersion, NameReturns, Answered,
                HostTimeout, TimeoutItem, Return
  <2>2. OneSerialCall' /\ call' \in [Goroutines -> {"out", "in", "hung"}]
    BY <1>1, CallStep DEF EnterCall, Hang, URLReturns, StateReturns, DockerVersion, NameReturns, Answered,
                HostTimeout, TimeoutItem
  <2>3. LsTypeOK'
    BY <1>1, <2>1, <2>2 DEF Quiet, LsTypeOK, EnterCall, Hang, URLReturns, StateReturns, DockerVersion, NameReturns,
                Answered, HostTimeout, TimeoutItem, Goroutines
  <2>4. QED
    BY <2>1, <2>2, <2>3, QuietStep
<1>2. ASSUME NEW h \in Hosts, Collect(h) PROVE LsInv'
  <2>1. Collected' /\ EveryHostListed' /\ items' \in Seq(Hosts)
    BY <1>2, CollectStep
  <2>2. LsTypeOK' /\ OneSerialCall'
    BY <1>2, <2>1 DEF Collect, LsTypeOK, OneSerialCall, Goroutines
  <2>3. QED
    BY <2>1, <2>2
<1>3. CASE sortHostListItemsByName
  <2>1. Collected' /\ EveryHostListed' /\ listed' \in Seq(Hosts)
    BY <1>3, SortStep
  <2>2. LsTypeOK' /\ OneSerialCall'
    BY <1>3, <2>1 DEF sortHostListItemsByName, LsTypeOK, OneSerialCall, Goroutines
  <2>3. QED
    BY <2>1, <2>2
<1>4. CASE UNCHANGED lsVars
  BY <1>4 DEF lsVars, LsTypeOK, OneSerialCall, Collected, Sent, EveryHostListed, Goroutines
<1>5. QED
  BY <1>1, <1>2, <1>3, <1>4 DEF LsNext

\* The invariant holds in every behaviour.
THEOREM LsInvariant == LsSpec => []LsInv
<1>1. ASSUME LsInit PROVE LsInv
  <2>1. LsTypeOK /\ OneSerialCall
    BY <1>1, ListAssumption DEF LsInit, LsTypeOK, OneSerialCall, Goroutines
  <2>2. Sent = {} /\ Len(items) = 0 /\ DOMAIN items = {} /\ main = "collect"
    BY <1>1 DEF LsInit, Sent
  <2>3. Collected
    BY <2>2, FS_EmptySet DEF Collected
  <2>4. QED
    BY <2>1, <2>2, <2>3 DEF LsInv, EveryHostListed
<1>2. QED
  BY <1>1, LsStep, PTL DEF LsSpec

\* However the goroutines interleave, time out or hang, no two calls of virtualbox
\* drivers run at the same time.
THEOREM SerialCalls == LsSpec => []OneSerialCall
<1>1. LsInv => OneSerialCall
  BY DEF LsInv
<1>2. QED
  BY <1>1, LsInvariant, PTL

\* The channel is closed only after every goroutine has sent its item, for any number
\* of hosts: none sends on the closed channel, and no host is counted twice.
THEOREM NoSendAfterClose == LsSpec => []ClosedAfterAll
<1>1. ASSUME LsInv, main # "collect", NEW h \in Hosts
      PROVE  parent[h] = "sent" /\ Cardinality({k \in DOMAIN items : items[k] = h}) = 1
  <2>1. parent[h] = "sent" /\ h \in Sent
    BY <1>1, AllSent DEF LsInv, Sent
  <2>2. PICK i \in DOMAIN items : items[i] = h
    BY <1>1, <2>1 DEF LsInv, Collected
  <2>3. {k \in DOMAIN items : items[k] = h} = {i}
    BY <1>1, <2>2 DEF LsInv, Collected
  <2>4. QED
    BY <2>1, <2>3, FS_Singleton
<1>2. LsInv => ClosedAfterAll
  BY <1>1 DEF ClosedAfterAll
<1>3. QED
  BY <1>2, LsInvariant, PTL

\* The table that is printed has the rows of all hosts, sorted by name, in whatever
\* order their answers came.
THEOREM TableComplete == LsSpec => []EveryHostListed
<1>1. LsInv => EveryHostListed
  BY DEF LsInv
<1>2. QED
  BY <1>1, LsInvariant, PTL

\* Every variable keeps its type.
THEOREM LsTypeCorrect == LsSpec => []LsTypeOK
<1>1. LsInv => LsTypeOK
  BY DEF LsInv
<1>2. QED
  BY <1>1, LsInvariant, PTL
=============================================================================
