------------------------------- MODULE PluginRPC -------------------------------
(***************************************************************************)
(* One machine command (the client process) and the driver plugins it      *)
(* starts: libmachine/drivers/rpc/client_driver.go, server_driver.go,      *)
(* drivers/plugin/register_driver.go and plugin/localbinary/plugin.go.     *)
(*                                                                         *)
(* In the client run the main goroutine (loads its hosts one by one, works,*)
(* closes the factory), and for each driver a Serve goroutine, which reads *)
(* the plugin's output, and a heartbeat goroutine.  Each plugin is another *)
(* operating-system process.  All channels but addrCh are unbuffered, so a *)
(* send is a joint step of sender and receiver, and a send whose receiver  *)
(* is elsewhere is an action that is not enabled.                          *)
(***************************************************************************)
EXTENDS Naturals, Sequences

CONSTANTS Drivers,      \* the driver instances the command loads, one per host
          Faults        \* what may go wrong in this instance, a subset of FaultKinds

\* binary: not in the PATH.  exec: cannot be started.  garbled: first output
\* line cannot be scanned.  listen: plugin exits before it prints its address.
\* dial: connection refused.  oldrpc: plugin only serves the V0 service name.
\* version: plugin speaks another API version.  config: SetConfigRaw rejects
\* the stored driver.  panic: the driver panics in Create.  crash: the plugin
\* process dies.  stall: more than heartbeatTimeout pass during the handshake.
FaultKinds == {"binary", "exec", "garbled", "listen", "dial", "oldrpc", "version",
               "config", "panic", "crash", "stall"}

ASSUME FaultsAssumption == Faults \subseteq FaultKinds

VARIABLES
  tolerant,  \* TRUE: cmdLs, lists hosts that fail to load; FALSE: runAction, gives up
  pc,        \* where the main goroutine is
  cur,       \* the driver the main goroutine is loading or closing
  todo,      \* the drivers not yet loaded
  loadErr,   \* some NewRPCClientDriver returned an error
  loaded,    \* the drivers whose NewRPCClientDriver succeeded
  opened,    \* factory.openedDrivers
  next,      \* loop index of factory.Close over opened
  hasPlugin, \* hasPlugin[d]: c.plugin is not nil
  doneClosed,\* doneClosed[d]: heartbeatDoneCh is closed
  hb,        \* the heartbeat goroutine of each driver
  serve,     \* the Serve goroutine of each driver
  addrCh,    \* the buffered channel that carries the plugin's address
  printed,   \* printed[d]: the plugin has written its address to stdout
  proc,      \* the plugin process
  exit       \* why the plugin process ended

mainVars == <<tolerant, pc, cur, todo, loadErr, loaded, opened, next>>
procVars == <<printed, proc, exit>>
driverVars == <<hasPlugin, doneClosed, hb, serve, addrCh, procVars>>
vars == <<mainVars, driverVars>>

MainPC == {"ready", "address", "dial", "version", "versionV0", "setconfig",
           "work", "close", "done", "closecall", "stop", "exited", "panicked"}

\* The client process runs: os.Exit and a panic end all of its goroutines.
Alive == pc \notin {"exited", "panicked"}

Init ==
  /\ tolerant \in BOOLEAN
  /\ pc = "ready"
  /\ cur \in Drivers
  /\ todo = Drivers
  /\ loadErr = FALSE
  /\ loaded = {}
  /\ opened = <<>>
  /\ next = 1
  /\ hasPlugin = [d \in Drivers |-> FALSE]
  /\ doneClosed = [d \in Drivers |-> FALSE]
  /\ hb = [d \in Drivers |-> "off"]
  /\ serve = [d \in Drivers |-> "off"]
  /\ addrCh = [d \in Drivers |-> "empty"]
  /\ printed = [d \in Drivers |-> FALSE]
  /\ proc = [d \in Drivers |-> "none"]
  /\ exit = [d \in Drivers |-> "none"]

-----------------------------------------------------------------------------
(* NewRPCClientDriver, run by the main goroutine for one host after another *)

\* NewPlugin finds no binary: Client.Load gives the host an errdriver and goes on.
BinaryNotFound ==
  /\ pc = "ready"
  /\ "binary" \in Faults
  /\ \E d \in todo : todo' = todo \ {d}
  /\ UNCHANGED <<tolerant, pc, cur, loadErr, loaded, opened, next, driverVars>>

\* NewPlugin succeeds and the Serve goroutine is started.
StartPlugin ==
  /\ pc = "ready"
  /\ \E d \in todo : /\ todo' = todo \ {d}
                     /\ cur' = d
                     /\ serve' = [serve EXCEPT ![d] = "start"]
  /\ pc' = "address"
  /\ UNCHANGED <<tolerant, loadErr, loaded, opened, next, hasPlugin, doneClosed, hb, addrCh, procVars>>

\* NewRPCClientDriver returns an error: persist.LoadHosts records it and loads
\* the next host.
LoadFails ==
  /\ loadErr' = TRUE
  /\ pc' = "ready"

\* Plugin.Address receives what the Serve goroutine read.
AddressReceived ==
  /\ pc = "address"
  /\ addrCh[cur] \in {"addr", "blank"}
  /\ addrCh' = [addrCh EXCEPT ![cur] = IF @ = "addr" THEN "read" ELSE "readBlank"]
  /\ pc' = "dial"
  /\ UNCHANGED <<tolerant, cur, todo, loadErr, loaded, opened, next, hasPlugin, doneClosed, hb, serve, procVars>>

\* Wrong variant: Address waits without a timeout.
AddressWithoutTimeout == FALSE

\* Plugin.Address gives up after its timeout, which may win the select even
\* when the address has just arrived.
AddressTimeout ==
  /\ pc = "address"
  /\ LoadFails
  /\ UNCHANGED <<tolerant, cur, todo, loaded, opened, next, driverVars>>

\* rpc.DialHTTP connects, and the driver is put into openedDrivers: it is
\* registered for closing before anything else is known about it.
DialAndRegister ==
  /\ pc = "dial"
  /\ addrCh[cur] = "read"
  /\ proc[cur] = "serving"
  /\ opened' = Append(opened, cur)
  /\ pc' = "version"
  /\ UNCHANGED <<tolerant, cur, todo, loadErr, loaded, next, driverVars>>

DialFails ==
  /\ pc = "dial"
  /\ addrCh[cur] = "readBlank" \/ proc[cur] # "serving" \/ "dial" \in Faults
  /\ LoadFails
  /\ UNCHANGED <<tolerant, cur, todo, loaded, opened, next, driverVars>>

\* The first GetVersion call fails, and switchToV0 prepares the second.
RetryWithV0 ==
  /\ pc = "version"
  /\ proc[cur] = "exited" \/ "oldrpc" \in Faults
  /\ pc' = "versionV0"
  /\ UNCHANGED <<tolerant, cur, todo, loadErr, loaded, opened, next, driverVars>>

\* The versions agree and the heartbeat goroutine is started.
VersionAgreed ==
  /\ pc \in {"version", "versionV0"}
  /\ proc[cur] = "serving"
  /\ hb' = [hb EXCEPT ![cur] = "select"]
  /\ pc' = "setconfig"
  /\ UNCHANGED <<tolerant, cur, todo, loadErr, loaded, opened, next, hasPlugin, doneClosed, serve, addrCh, procVars>>

\* The second call fails too, or the plugin speaks another version.
VersionFails ==
  /\ \/ pc = "versionV0" /\ proc[cur] = "exited"
     \/ pc \in {"version", "versionV0"} /\ proc[cur] = "serving" /\ "version" \in Faults
  /\ LoadFails
  /\ UNCHANGED <<tolerant, cur, todo, loaded, opened, next, driverVars>>

\* SetConfigRaw succeeds; an error of the GetMachineName call is only logged.
ConfigSet ==
  /\ pc = "setconfig"
  /\ proc[cur] = "serving"
  /\ hasPlugin' = [hasPlugin EXCEPT ![cur] = TRUE]
  /\ loaded' = loaded \union {cur}
  /\ pc' = "ready"
  /\ UNCHANGED <<tolerant, cur, todo, loadErr, opened, next, doneClosed, hb, serve, addrCh, procVars>>

\* SetConfigRaw fails and the driver stays registered with a nil plugin.
ConfigFails ==
  /\ pc = "setconfig"
  /\ proc[cur] = "exited" \/ "config" \in Faults
  /\ LoadFails
  /\ UNCHANGED <<tolerant, cur, todo, loaded, opened, next, driverVars>>

-----------------------------------------------------------------------------
(* The command itself: runCommand and the command it runs *)

\* Every host is loaded.  runAction gives up if one failed, and osExit skips
\* the deferred api.Close; cmdLs goes on.
LoadingDone ==
  /\ pc = "ready"
  /\ todo = {}
  /\ pc' = IF loadErr /\ ~tolerant THEN "exited" ELSE "work"
  /\ UNCHANGED <<tolerant, cur, todo, loadErr, loaded, opened, next, driverVars>>

\* The command returns an error and osExit skips the deferred api.Close.
CommandFails ==
  /\ pc = "work"
  /\ ~tolerant
  /\ pc' = "exited"
  /\ UNCHANGED <<tolerant, cur, todo, loadErr, loaded, opened, next, driverVars>>

\* The command returns nil and the deferred api.Close runs.
CommandSucceeds ==
  /\ pc = "work"
  /\ pc' = "close"
  /\ next' = 1
  /\ UNCHANGED <<tolerant, cur, todo, loadErr, loaded, opened, driverVars>>

\* trapPanic turns a panic into an error reply only when the panic value is an
\* error: its type assertion r.(error) panics again on any other value, and the
\* plugin process dies.
trapPanic(value) == IF value = "error" THEN "serving" ELSE "exited"

\* The driver panics in Create.  The client's call fails in both cases, and so
\* does the create command.
CreatePanics ==
  /\ pc = "work"
  /\ ~tolerant
  /\ "panic" \in Faults
  /\ \E d \in loaded, value \in {"error", "other"} :
       /\ proc[d] = "serving"
       /\ proc' = [proc EXCEPT ![d] = trapPanic(value)]
       /\ exit' = [exit EXCEPT ![d] = IF proc'[d] = "exited" THEN "panic" ELSE @]
  /\ pc' = "exited"
  /\ UNCHANGED <<tolerant, cur, todo, loadErr, loaded, opened, next, hasPlugin, doneClosed, hb, serve, addrCh, printed>>

-----------------------------------------------------------------------------
(* DefaultRPCClientDriverFactory.Close, and RPCClientDriver.close for each *)

CloseNextDriver ==
  /\ pc = "close"
  /\ next <= Len(opened)
  /\ cur' = opened[next]
  /\ pc' = "done"
  /\ UNCHANGED <<tolerant, todo, loadErr, loaded, opened, next, driverVars>>

\* heartbeatDoneCh <- true, received by the heartbeat goroutine in its select,
\* then close(heartbeatDoneCh).
SendDone ==
  /\ pc = "done"
  /\ hb[cur] = "select"
  /\ hb' = [hb EXCEPT ![cur] = "returned"]
  /\ doneClosed' = [doneClosed EXCEPT ![cur] = TRUE]
  /\ pc' = "closecall"
  /\ UNCHANGED <<tolerant, cur, todo, loadErr, loaded, opened, next, hasPlugin, serve, addrCh, procVars>>

\* Wrong variant: the plugin is not asked to close.
CallCloseSkipped ==
  /\ pc = "closecall"
  /\ pc' = "stop"
  /\ UNCHANGED <<tolerant, cur, todo, loadErr, loaded, opened, next, driverVars>>

\* The Close call: the plugin's main loop receives CloseCh and is about to
\* exit, or the plugin is gone and the error of the call is only logged.
CallClose ==
  /\ pc = "closecall"
  /\ proc' = [proc EXCEPT ![cur] = IF @ = "serving" THEN "exiting" ELSE @]
  /\ pc' = "stop"
  /\ UNCHANGED <<tolerant, cur, todo, loadErr, loaded, opened, next, hasPlugin, doneClosed, hb, serve, addrCh, printed, exit>>

\* c.plugin.Close(): stopCh <- true, received by the Serve goroutine.
SendStop ==
  /\ pc = "stop"
  /\ hasPlugin[cur]
  /\ serve[cur] = "loop"
  /\ serve' = [serve EXCEPT ![cur] = "wait"]
  /\ next' = next + 1
  /\ pc' = "close"
  /\ UNCHANGED <<tolerant, cur, todo, loadErr, loaded, opened, hasPlugin, doneClosed, hb, addrCh, procVars>>

\* c.plugin.Close() on a nil plugin: the client process panics.
NilPlugin ==
  /\ pc = "stop"
  /\ ~hasPlugin[cur]
  /\ pc' = "panicked"
  /\ UNCHANGED <<tolerant, cur, todo, loadErr, loaded, opened, next, driverVars>>

\* Every driver is closed; openedDrivers is reset and the process ends.
CloseReturns ==
  /\ pc = "close"
  /\ next > Len(opened)
  /\ opened' = <<>>
  /\ pc' = "exited"
  /\ UNCHANGED <<tolerant, cur, todo, loadErr, loaded, next, driverVars>>

-----------------------------------------------------------------------------
(* The heartbeat goroutine of driver d *)

HeartbeatTick(d) ==
  /\ Alive
  /\ hb[d] = "select"
  /\ hb' = [hb EXCEPT ![d] = "calling"]
  /\ UNCHANGED <<mainVars, hasPlugin, doneClosed, serve, addrCh, procVars>>

HeartbeatReply(d) ==
  /\ Alive
  /\ hb[d] = "calling"
  /\ proc[d] = "serving"
  /\ hb' = [hb EXCEPT ![d] = "select"]
  /\ UNCHANGED <<mainVars, hasPlugin, doneClosed, serve, addrCh, procVars>>

\* The call fails: the goroutine warns and calls c.close() itself, whose first
\* statement sends on heartbeatDoneCh.  The only receiver of that channel is
\* this goroutine, so "selfclose" has no successor.
HeartbeatFails(d) ==
  /\ Alive
  /\ hb[d] = "calling"
  /\ proc[d] = "exited"
  /\ hb' = [hb EXCEPT ![d] = "selfclose"]
  /\ UNCHANGED <<mainVars, hasPlugin, doneClosed, serve, addrCh, procVars>>

-----------------------------------------------------------------------------
(* The Serve goroutine of driver d *)

\* Executor.Start starts the plugin process, or fails and Serve returns.
ServeStarts(d) ==
  /\ Alive
  /\ serve[d] = "start"
  /\ \/ /\ serve' = [serve EXCEPT ![d] = "scan"]
        /\ proc' = [proc EXCEPT ![d] = "starting"]
     \/ /\ "exec" \in Faults
        /\ serve' = [serve EXCEPT ![d] = "returned"]
        /\ proc' = proc
  /\ UNCHANGED <<mainVars, hasPlugin, doneClosed, hb, addrCh, printed, exit>>

\* The first line of stdout is the address; end of file before any line gives
\* the empty address, and a line that cannot be scanned makes Serve return.
ServeScans(d) ==
  /\ Alive
  /\ serve[d] = "scan"
  /\ printed[d] \/ proc[d] = "exited"
  /\ \/ /\ serve' = [serve EXCEPT ![d] = "loop"]
        /\ addrCh' = [addrCh EXCEPT ![d] = IF printed[d] THEN "addr" ELSE "blank"]
     \/ /\ "garbled" \in Faults
        /\ serve' = [serve EXCEPT ![d] = "returned"]
        /\ addrCh' = addrCh
  /\ UNCHANGED <<mainVars, hasPlugin, doneClosed, hb, procVars>>

\* Wrong variant: Serve returns when the process ends, stopped or not.
ServeReturnsOnExit(d) ==
  /\ Alive
  /\ serve[d] \in {"loop", "wait"}
  /\ proc[d] = "exited"
  /\ serve' = [serve EXCEPT ![d] = "returned"]
  /\ UNCHANGED <<mainVars, hasPlugin, doneClosed, hb, addrCh, procVars>>

\* After stopCh, Executor.Close waits for the process.
ServeWaits(d) ==
  /\ Alive
  /\ serve[d] = "wait"
  /\ proc[d] = "exited"
  /\ serve' = [serve EXCEPT ![d] = "returned"]
  /\ UNCHANGED <<mainVars, hasPlugin, doneClosed, hb, addrCh, procVars>>

-----------------------------------------------------------------------------
(* The plugin process of driver d: RegisterDriver *)

PluginListens(d) ==
  /\ proc[d] = "starting"
  /\ \/ /\ proc' = [proc EXCEPT ![d] = "serving"]
        /\ printed' = [printed EXCEPT ![d] = TRUE]
        /\ exit' = exit
     \/ /\ "listen" \in Faults
        /\ proc' = [proc EXCEPT ![d] = "exited"]
        /\ exit' = [exit EXCEPT ![d] = "listen"]
        /\ printed' = printed
  /\ UNCHANGED <<mainVars, hasPlugin, doneClosed, hb, serve, addrCh>>

\* The client is in the middle of the handshake with d.
Handshaking(d) ==
  cur = d /\ pc \in {"address", "dial", "version", "versionV0", "setconfig"}

\* Wrong variant: the timer is armed by the first heartbeat only.
TimeoutArmedByHeartbeat(d) ==
  /\ proc[d] = "serving"
  /\ hb[d] # "off"
  /\ ~(Alive /\ hb[d] \in {"select", "calling"})
  /\ proc' = [proc EXCEPT ![d] = "exited"]
  /\ exit' = [exit EXCEPT ![d] = "timeout"]
  /\ UNCHANGED <<mainVars, hasPlugin, doneClosed, hb, serve, addrCh, printed>>

\* No heartbeat arrives for heartbeatTimeout.  While the client beats, and
\* while it shakes hands without stalling, one arrives in time (module
\* Heartbeat has the clocks).
HeartbeatTimeout(d) ==
  /\ proc[d] = "serving"
  /\ ~(Alive /\ hb[d] \in {"select", "calling"})
  /\ ~(Handshaking(d) /\ "stall" \notin Faults)
  /\ proc' = [proc EXCEPT ![d] = "exited"]
  /\ exit' = [exit EXCEPT ![d] = "timeout"]
  /\ UNCHANGED <<mainVars, hasPlugin, doneClosed, hb, serve, addrCh, printed>>

\* os.Exit(0) after CloseCh.
PluginExits(d) ==
  /\ proc[d] = "exiting"
  /\ proc' = [proc EXCEPT ![d] = "exited"]
  /\ exit' = [exit EXCEPT ![d] = "closed"]
  /\ UNCHANGED <<mainVars, hasPlugin, doneClosed, hb, serve, addrCh, printed>>

PluginCrashes(d) ==
  /\ "crash" \in Faults
  /\ proc[d] \in {"starting", "serving", "exiting"}
  /\ proc' = [proc EXCEPT ![d] = "exited"]
  /\ exit' = [exit EXCEPT ![d] = "crash"]
  /\ UNCHANGED <<mainVars, hasPlugin, doneClosed, hb, serve, addrCh, printed>>

-----------------------------------------------------------------------------
MainNext ==
  \/ BinaryNotFound \/ StartPlugin \/ AddressReceived \/ AddressTimeout
  \/ DialAndRegister \/ DialFails \/ RetryWithV0 \/ VersionAgreed \/ VersionFails
  \/ ConfigSet \/ ConfigFails \/ LoadingDone \/ CommandFails \/ CommandSucceeds
  \/ CreatePanics \/ CloseNextDriver \/ SendDone \/ CallClose \/ SendStop
  \/ NilPlugin \/ CloseReturns

HeartbeatNext(d) == HeartbeatTick(d) \/ HeartbeatReply(d) \/ HeartbeatFails(d)

ServeNext(d) == ServeStarts(d) \/ ServeScans(d) \/ ServeWaits(d)

PluginNext(d) == PluginListens(d) \/ HeartbeatTimeout(d) \/ PluginExits(d)

\* The command has ended and so have its plugins.
Terminated ==
  /\ ~Alive
  /\ \A d \in Drivers : proc[d] \in {"none", "exited"}
  /\ UNCHANGED vars

Next ==
  \/ MainNext
  \/ \E d \in Drivers : \/ HeartbeatNext(d)
                        \/ ServeNext(d)
                        \/ PluginNext(d)
                        \/ PluginCrashes(d)
  \/ Terminated

\* Goroutines and processes that can run do run.  SendDone needs strong
\* fairness: the heartbeat goroutine leaves its select for every call, but each
\* time it comes back a waiting sender is there at once and the timer is not.
Fairness ==
  /\ WF_vars(MainNext)
  /\ SF_vars(SendDone)
  /\ \A d \in Drivers : /\ WF_vars(HeartbeatNext(d))
                        /\ WF_vars(ServeNext(d))
                        /\ WF_vars(PluginNext(d))

Spec == Init /\ [][Next]_vars
FairSpec == Spec /\ Fairness

-----------------------------------------------------------------------------
(* Properties *)

TypeOK ==
  /\ tolerant \in BOOLEAN
  /\ pc \in MainPC
  /\ cur \in Drivers
  /\ todo \in SUBSET Drivers
  /\ loadErr \in BOOLEAN
  /\ loaded \in SUBSET Drivers
  /\ opened \in Seq(Drivers)
  /\ next \in Nat \ {0}
  /\ hasPlugin \in [Drivers -> BOOLEAN]
  /\ doneClosed \in [Drivers -> BOOLEAN]
  /\ hb \in [Drivers -> {"off", "select", "calling", "selfclose", "returned"}]
  /\ serve \in [Drivers -> {"off", "start", "scan", "loop", "wait", "returned"}]
  /\ addrCh \in [Drivers -> {"empty", "addr", "blank", "read", "readBlank"}]
  /\ printed \in [Drivers -> BOOLEAN]
  /\ proc \in [Drivers -> {"none", "starting", "serving", "exiting", "exited"}]
  /\ exit \in [Drivers -> {"none", "listen", "timeout", "panic", "closed", "crash"}]

\* When close() comes to stopCh <- true, the Serve goroutine is in the select
\* that receives it: c.plugin.Close never blocks, whatever failed before.
StopHasReceiver == pc = "stop" => serve[cur] = "loop"

\* Factory.Close closes each driver at most once: when it comes to a driver, its
\* heartbeatDoneCh is still open, so that no send meets a closed channel and
\* the channel is not closed a second time (both panic).
DoneChannelOpen == pc = "done" => ~doneClosed[cur]

\* Once close() has told the heartbeat goroutine to stop, it makes no further
\* call and never mistakes the plugin's orderly exit for a failure.
NoHeartbeatAfterClose ==
  \A d \in Drivers : doneClosed[d] <=> hb[d] = "returned"

\* When factory.Close returns, no plugin that had been registered is left
\* serving: each one is on its way out or gone, though none was waited for.
CleanCloseStopsPlugins ==
  pc = "exited" /\ opened = <<>> =>
    \A d \in Drivers : hb[d] # "off" => proc[d] \in {"exiting", "exited"}

\* The send in close() has a receiver when the driver was loaded and its plugin
\* is up: the heartbeat goroutine was started and will come back to its select.
DoneHasReceiver ==
  pc = "done" /\ cur \in loaded /\ proc[cur] # "exited" => hb[cur] \in {"select", "calling"}

\* No channel operation of Factory.Close blocks or panics (client_driver.go:109 and 208,
\* plugin.go:244): both sends find their receivers and no channel is closed twice,
\* except for a driver that was not loaded or whose plugin has died.
CloseSafe == StopHasReceiver /\ DoneChannelOpen /\ DoneHasReceiver

\* A plugin outlives its client by at most its own heartbeat timeout: once the
\* command has ended, by Close, by osExit or by a panic, every plugin process
\* ends, the ones that were never registered included.
PluginsReaped == ~Alive ~> \A d \in Drivers : proc[d] \in {"none", "exited"}

\* close() waits for a heartbeat goroutine that was never started, or that waits
\* for itself.
CloseStuck == pc = "done" /\ hb[cur] \in {"off", "selfclose"}

\* Every command ends, whatever fails in its plugins, unless CloseStuck.
CommandTerminates == <>(~Alive \/ CloseStuck)

\* When the heartbeat goroutine reports that the process is exiting, it exits.
WarnedClientExits == \A d \in Drivers : hb[d] = "selfclose" ~> ~Alive

=============================================================================
