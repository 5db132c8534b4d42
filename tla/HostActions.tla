------------------------------ MODULE HostActions ------------------------------
(***************************************************************************)
(* start, stop, kill, restart, upgrade, provision, regenerate-certs and ip  *)
(* (commands.go:runAction): one goroutine per host runs the method of Host, *)
(* which asks for the state, calls the driver and polls until the state is  *)
(* the wanted one; the command collects one answer per host and saves the   *)
(* hosts only if none of the answers is an error.                           *)
(*                                                                          *)
(* The platform carries requests out in its own time, shows states in       *)
(* between, and refuses a request while another one is pending.  Calls      *)
(* fail, operations fail, guests ignore the power button, and somebody      *)
(* else may switch the machine on or off.                                   *)
(*                                                                          *)
(* upgrade does more than look: where the guest is an image (boot2docker,   *)
(* RancherOS on VirtualBox) it stops and starts the machine, and any other  *)
(* RancherOS guest is told to reboot, which it does in its own time.        *)
(***************************************************************************)
EXTENDS Integers, Sequences, FiniteSets

CONSTANTS
  Platform,    \* the power operations of every driver (PowerTable)
  Fleets,      \* the hosts of the command: sequences of driver names
  Commands,    \* the commands
  MaxPolls,    \* bound: polls of a bounded wait (60 in the code)
  MaxFaults,   \* bound: failures and interventions
  MayBeEager,  \* drivers whose Restart may succeed before the machine reboots
  MayHang      \* drivers that may wait for ever

ASSUME PollsAssumption == MaxPolls \in Nat \ {0} /\ MaxFaults \in Nat

\* A command without hosts is an error before it comes to this (commands.go:126).
ASSUME FleetsAssumption == \A f \in Fleets : f \in Seq(DOMAIN Platform) /\ f # <<>>

\* libmachine/state.
States == {"None", "Running", "Paused", "Saved", "Stopped", "Stopping", "Starting", "Error", "Timeout"}

\* What can be asked of a platform, and the operations of a driver.
Goals == {"on", "off", "reboot", "resume", "guestoff"}
Operations == {"start", "stop", "restart", "kill"}

\* Every operation has steps, and every state of the platform one of libmachine's.
ASSUME PlatformAssumption ==
  \A d \in DOMAIN Platform :
    /\ Platform[d].blind \in States
    /\ \A n \in DOMAIN Platform[d].state : Platform[d].state[n] \in States
    /\ {Platform[d].on, Platform[d].off} \cup Platform[d].other \subseteq DOMAIN Platform[d].state
    /\ \A g \in {"on", "off", "reboot"} : Platform[d].via[g] \subseteq DOMAIN Platform[d].state
    /\ \A o \in Operations :
         /\ Len(Platform[d][o]) \in Nat \ {0} /\ DOMAIN Platform[d][o] = 1..Len(Platform[d][o])
         /\ \A i \in DOMAIN Platform[d][o] :
              /\ Platform[d][o][i].skip \in Nat
              /\ Platform[d][o][i].op = "ask" => Platform[d][o][i].res \in Goals

\* Step i of operation o of driver d asks for goal.
AsksFor(d, o, i, goal) == Platform[d][o][i].op = "ask" /\ Platform[d][o][i].res = goal

\* Step i + 1 waits until what step i asked for is done, and its failure is an error.
Watched(d, o, i) ==
  /\ i + 1 \in DOMAIN Platform[d][o]
  /\ Platform[d][o][i + 1].op = "finish" /\ Platform[d][o][i + 1].fail = "return"

\* Step i + 1 polls for ever while the machine looks Running, and its failure is an error.
WaitsDown(d, o, i) ==
  /\ i + 1 \in DOMAIN Platform[d][o]
  /\ Platform[d][o][i + 1].op = "while" /\ Platform[d][o][i + 1].res = "Running"
  /\ Platform[d][o][i + 1].fail = "return"

\* A machine on its way down does not look like one that is.
HonestDown(d) == \A n \in Platform[d].via["off"] : Platform[d].state[n] # "Stopped"

\* What the polls of Host.Start, Stop and Kill rest on.  A machine that is on is Running, and
\* one with a live guest is not Stopped.  Start takes the machine down only by asking the guest,
\* and waits for it, as it does when it asks to resume; on its way up the machine does not look
\* Running.  Stop and Kill wait for what they ask for themselves, unless the guest is only asked,
\* or the state shows that it is not done.
ASSUME AnswerAssumption ==
  \A d \in DOMAIN Platform :
    /\ Platform[d].state[Platform[d].on] = "Running"
    /\ \A n \in Platform[d].other : Platform[d].state[n] = "Stopped" => n \notin Platform[d].up
    /\ \A i \in DOMAIN Platform[d]["start"] :
         /\ ~AsksFor(d, "start", i, "off") /\ ~AsksFor(d, "start", i, "reboot")
         /\ AsksFor(d, "start", i, "guestoff") => WaitsDown(d, "start", i)
         /\ AsksFor(d, "start", i, "resume") => Watched(d, "start", i)
         /\ AsksFor(d, "start", i, "on") =>
              \A n \in {Platform[d].off} \cup Platform[d].other \cup Platform[d].via["on"] : Platform[d].state[n] # "Running"
    /\ \A o \in {"stop", "kill"} : \A i \in DOMAIN Platform[d][o] : \A g \in Goals \ {"guestoff"} :
         AsksFor(d, o, i, g) => Watched(d, o, i) \/ (g = "off" /\ HonestDown(d))

\* No step of m before g leaves g out.
Unavoidable(m, g) == g \in DOMAIN m /\ \A i \in 1..g - 1 : i + m[i].skip < g

\* Until g nothing is asked of the platform but to resume the machine or to tell the guest.
AsksGuest(m, g) == \A i \in 1..g - 1 : m[i].op = "ask" => m[i].res \in {"guestoff", "resume"}

\* Step b switches the machine off or reboots it, or has the guest do it, the next one waits
\* for that, and a failure of either is an error.
Forces(m, b) ==
  /\ {b, b + 1} \subseteq DOMAIN m
  /\ m[b].op = "ask" /\ m[b].res \in {"off", "reboot", "guestoff"} /\ m[b].fail = "return"
  /\ m[b + 1].op = "finish" /\ m[b + 1].fail = "return"

\* How a restart, m, makes sure that the machine goes down: it forces it; it waits until the
\* machine does not look Running (or is an error in any case); or it looks, and forces a machine that is Running.
Forced(m, g) == Unavoidable(m, g) /\ Forces(m, g)
WaitedFor(m, g) ==
  /\ Unavoidable(m, g) /\ AsksGuest(m, g)
  /\ (m[g].op = "while" /\ m[g].res = "Running") \/ m[g].op = "unsupported"
  /\ m[g].fail = "return"
LookedAt(m, g, b) ==
  /\ Unavoidable(m, g) /\ AsksGuest(m, g)
  /\ m[g].op = "read" /\ m[g].fail = "return"
  /\ g + 1 < b /\ Forces(m, b)
  /\ m[g + 1].op = "ifseen" /\ m[g + 1].res = {"Running"} /\ g + 1 + m[g + 1].skip = b + 1
  /\ \A i \in g + 2..b - 1 : i + m[i].skip < b

\* Every driver but those of MayBeEager does one of the three, and only a machine that is on
\* or off may look Running at rest.
ASSUME RestartAssumption ==
  \A d \in DOMAIN Platform \ MayBeEager :
    /\ \A n \in Platform[d].other : Platform[d].state[n] # "Running"
    /\ LET m == Platform[d]["restart"]
       IN \E g \in DOMAIN m : Forced(m, g) \/ WaitedFor(m, g) \/ \E b \in DOMAIN m : LookedAt(m, g, b)

VARIABLES
  fleet, cmd,            \* the hosts, and the command
  native, doing,         \* the platform: the state it shows, and the request it works on
  up, fresh,             \* the guest runs; it came up since the command began
  stage, op, at,         \* the goroutine: where it is, the driver operation and its next step
  seen, polls,           \* the last state it read, and the polls of this wait
  out,                   \* its answer
  main, got, saved,      \* the command: what it does, the answers it has, the hosts saved
  faults, blinded,       \* failures so far; hosts with a lookup that failed
  meddled, ignored       \* hosts that somebody else switches, or has asked to unseen; hosts whose guest ignored us

platform == <<native, doing, up, fresh>>
goroutine == <<stage, op, at, seen, polls, out>>
vars == <<fleet, cmd, platform, goroutine, main, got, saved, faults, blinded, meddled, ignored>>

Hosts == DOMAIN fleet
Driver(h) == Platform[fleet[h]]
GetState(h) == Driver(h).state[native[h]]

\* The guest answers: it runs and is not paused.
Reachable(h) == up[h] /\ native[h] \notin Driver(h).other

\* What a machine may be like before the command: at rest, or on its way down because an
\* earlier command gave up waiting.
AtRest(d) ==
  {[native |-> d.on, doing |-> "none", up |-> TRUE], [native |-> d.off, doing |-> "none", up |-> FALSE]}
    \cup {[native |-> n, doing |-> "none", up |-> n \in d.up] : n \in d.other}
    \cup {[native |-> n, doing |-> "off", up |-> TRUE] : n \in {d.on} \cup d.via.off}

\* Where a Host method begins.
First(c) ==
  CASE c \in {"start", "stop", "kill"} -> "check"
    [] c = "restart" -> "isstopped"
    [] c = "upgrade" -> "getstate"
    [] OTHER -> "work"

Init ==
  /\ fleet \in Fleets
  /\ cmd \in Commands
  /\ \E m \in [DOMAIN fleet -> UNION {AtRest(Platform[fleet[h]]) : h \in DOMAIN fleet}] :
       /\ \A h \in DOMAIN fleet : m[h] \in AtRest(Platform[fleet[h]])
       /\ native = [h \in DOMAIN fleet |-> m[h].native]
       /\ doing = [h \in DOMAIN fleet |-> m[h].doing]
       /\ up = [h \in DOMAIN fleet |-> m[h].up]
  /\ fresh = [h \in DOMAIN fleet |-> FALSE]
  /\ stage = [h \in DOMAIN fleet |-> First(cmd)]
  /\ op = [h \in DOMAIN fleet |-> IF cmd \in {"stop", "kill"} THEN cmd ELSE "start"]
  /\ at = [h \in DOMAIN fleet |-> 1]
  /\ seen = [h \in DOMAIN fleet |-> "None"]
  /\ polls = [h \in DOMAIN fleet |-> 0]
  /\ out = [h \in DOMAIN fleet |-> "none"]
  /\ main = "running" /\ got = {} /\ saved = {}
  /\ meddled = {h \in DOMAIN fleet : doing[h] = "off" /\ Platform[fleet[h]].state[native[h]] = "Running"}
  /\ faults = 0 /\ blinded = {} /\ ignored = {}

--------------------------------------------------------------------------------
(* What a goroutine does.                                                   *)

Fault == faults < MaxFaults /\ faults' = faults + 1

\* MachineInState: GetState, and what it says when it fails.
Looks(h, s) ==
  \/ s = GetState(h) /\ UNCHANGED <<faults, blinded>>
  \/ Fault /\ s = Driver(h).blind /\ blinded' = blinded \cup {h}

\* The goroutine goes to another stage.
Go(h, st) ==
  /\ stage' = [stage EXCEPT ![h] = st]
  /\ at' = [at EXCEPT ![h] = 1]
  /\ polls' = [polls EXCEPT ![h] = 0]

\* The Host method returns; machineCommand then sends the result.
Answer(h, o) == Go(h, "send") /\ out' = [out EXCEPT ![h] = o]

Polled(h) == polls' = [polls EXCEPT ![h] = @ + 1] /\ UNCHANGED <<stage, at, out>>

\* Only the goroutine of h is concerned.
Alone == UNCHANGED <<fleet, cmd, main, got, saved, meddled, ignored>>

Desired(o) == IF o \in {"stop", "kill", "isostop"} THEN "Stopped" ELSE "Running"

\* runActionForState: nothing is done to a machine that is in the state already.
Check(h) ==
  /\ stage[h] = "check"
  /\ \E s \in {GetState(h), Driver(h).blind} :
       /\ Looks(h, s)
       /\ IF s = Desired(op[h]) THEN Answer(h, "err") ELSE Go(h, "act") /\ UNCHANGED out
  /\ UNCHANGED <<platform, op, seen>> /\ Alone

\* Where the method goes when the machine is in the wanted state.
AfterWait(h) ==
  CASE op[h] \in {"stop", "kill"} -> Answer(h, "ok")
    [] op[h] = "start" -> Go(h, "docker") /\ UNCHANGED out
    [] op[h] = "restart" -> Go(h, "again") /\ UNCHANGED out
    [] op[h] = "isostop" -> Go(h, "copyiso") /\ UNCHANGED out
    [] OTHER -> Go(h, "service") /\ UNCHANGED out   \* isostart

\* Wrong variant: the first poll is believed whatever it says.
WaitOnce(h) ==
  /\ stage[h] = "wait"
  /\ AfterWait(h)
  /\ UNCHANGED <<platform, op, seen, faults, blinded>> /\ Alone

\* mcnutils.WaitFor(MachineInState).
WaitFor(h) ==
  /\ stage[h] = "wait"
  /\ \E s \in {GetState(h), Driver(h).blind} :
       /\ Looks(h, s)
       /\ IF s = Desired(op[h]) THEN AfterWait(h)
          ELSE IF polls[h] + 1 < MaxPolls THEN Polled(h)
          ELSE Answer(h, "err")
  /\ UNCHANGED <<platform, op, seen>> /\ Alone

\* Restart: a stopped machine is started, a running one is restarted, and for any other the
\* method only waits for Docker.
IsStopped(h) ==
  /\ stage[h] = "isstopped"
  /\ \E s \in {GetState(h), Driver(h).blind} :
       /\ Looks(h, s)
       /\ Go(h, IF s = "Stopped" THEN "check" ELSE "isrunning")
  /\ UNCHANGED <<platform, op, seen, out>> /\ Alone

IsRunning(h) ==
  /\ stage[h] = "isrunning"
  /\ \E s \in {GetState(h), Driver(h).blind} :
       /\ Looks(h, s)
       /\ seen' = [seen EXCEPT ![h] = s]
       /\ IF s = "Running" THEN Go(h, "act") /\ op' = [op EXCEPT ![h] = "restart"]
          ELSE Go(h, "again") /\ UNCHANGED op
  /\ UNCHANGED <<platform, out>> /\ Alone

\* WaitForDocker: the guest is reached and Docker listens, or the tries run out.
WaitForDocker(h) ==
  /\ stage[h] \in {"docker", "again"}
  /\ \/ /\ Reachable(h)
        /\ CASE stage[h] = "docker" /\ cmd = "restart" -> Go(h, "again") /\ UNCHANGED out
             [] cmd = "upgrade" -> Go(h, "work") /\ UNCHANGED out
             [] OTHER -> Answer(h, "ok")
     \/ Answer(h, "err")
  /\ UNCHANGED <<platform, op, seen, faults, blinded>> /\ Alone

\* Upgrade starts a machine that does not run.
GetStateForUpgrade(h) ==
  /\ stage[h] = "getstate"
  /\ \/ /\ Go(h, IF GetState(h) = "Running" THEN "work" ELSE "check")
        /\ UNCHANGED <<out, faults, blinded>>
     \/ Fault /\ Answer(h, "err") /\ UNCHANGED blinded
  /\ UNCHANGED <<platform, op, seen>> /\ Alone

\* Provision, ConfigureAuth and ConfigureAllAuth, which begin with DetectProvisioner; Upgrade of
\* a guest with packages; printIP, which asks the driver only.
Work(h) ==
  /\ stage[h] = "work"
  /\ \/ (Reachable(h) \/ cmd = "ip") /\ Answer(h, "ok")
     \/ Answer(h, "err")
  /\ UNCHANGED <<platform, op, seen, faults, blinded>> /\ Alone

\* Upgrade of a guest that is an image: upgradeIso calls the driver's Stop and waits for the
\* state.
StopForIso(h) ==
  /\ stage[h] = "work" /\ cmd = "upgrade" /\ Reachable(h)
  /\ op' = [op EXCEPT ![h] = "isostop"]
  /\ Go(h, "act")
  /\ UNCHANGED <<platform, seen, out, faults, blinded>> /\ Alone

\* The new image is copied, and the driver's Start is called.
CopyIso(h) ==
  /\ stage[h] = "copyiso"
  /\ \/ op' = [op EXCEPT ![h] = "isostart"] /\ Go(h, "act") /\ UNCHANGED out
     \/ Answer(h, "err") /\ UNCHANGED op
  /\ UNCHANGED <<platform, seen, faults, blinded>> /\ Alone

\* Upgrade of a RancherOS guest that is no VirtualBox machine: the guest is told to reboot, and
\* nobody waits for it.  A machine that is being switched goes on with that.
RebootGuest(h) ==
  /\ stage[h] = "work" /\ cmd = "upgrade" /\ Reachable(h) /\ fleet[h] # "virtualbox"
  /\ doing' = [doing EXCEPT ![h] = IF @ \in {"on", "off", "reboot"} THEN @ ELSE "guestreboot"]
  /\ Go(h, "service")
  /\ UNCHANGED <<native, up, fresh, op, seen, out, faults, blinded>> /\ Alone

\* Service(docker, restart), the end of an upgrade that stopped, started or rebooted the guest.
RestartService(h) ==
  /\ stage[h] = "service"
  /\ \/ Reachable(h) /\ Answer(h, "ok")
     \/ Answer(h, "err")
  /\ UNCHANGED <<platform, op, seen, faults, blinded>> /\ Alone

--------------------------------------------------------------------------------
(* One step of the driver operation.                                        *)

\* The driver's method: upgradeIso calls Stop and Start too.
Called(o) == CASE o = "isostop" -> "stop" [] o = "isostart" -> "start" [] OTHER -> o

Program(h) == Driver(h)[Called(op[h])]
step(h) == Program(h)[at[h]]

\* The next step, leaving out n; after the last one the Host method waits for the state.
Advance(h, n) ==
  /\ IF at[h] + n + 1 > Len(Program(h)) THEN Go(h, "wait")
     ELSE at' = [at EXCEPT ![h] = @ + n + 1] /\ polls' = [polls EXCEPT ![h] = 0] /\ UNCHANGED stage
  /\ UNCHANGED out

\* The step failed: the error is returned, passed over, or the driver asks again.
Fails(h) ==
  CASE step(h).fail = "return" -> Answer(h, "err")
    [] step(h).fail = "ignore" -> Advance(h, 0)
    [] OTHER -> UNCHANGED <<stage, at, polls, out>>

\* The platform takes a request unless another is pending; one to the guest can be overtaken.
Accepts(h, goal) ==
  /\ doing[h] \in {"none", "failed", "guestoff"}
  /\ goal \in {"reboot", "guestoff", "resume"} => up[h]

\* There is nothing to do.
Idle(h, goal) == (goal = "off" /\ ~up[h]) \/ (goal = "on" /\ native[h] = Driver(h).on)

Calls(h) == step(h).op = "call" /\ Advance(h, 0) /\ UNCHANGED <<doing, seen>>

Asks(h) ==
  /\ step(h).op = "ask"
  /\ IF Accepts(h, step(h).res)
     THEN /\ doing' = [doing EXCEPT ![h] = IF Idle(h, step(h).res) THEN "none" ELSE step(h).res]
          /\ Advance(h, 0)
     ELSE Fails(h) /\ UNCHANGED doing
  /\ UNCHANGED seen

\* Wrong variant: the driver does not wait for the platform.
FinishesEarly(h) == step(h).op = "finish" /\ Advance(h, 0) /\ UNCHANGED <<doing, seen>>

\* A request is waited for (google's waitForOp, and the commands of a local hypervisor).
Finishes(h) ==
  /\ step(h).op = "finish" /\ doing[h] \in {"none", "failed"}
  /\ IF doing[h] = "failed" THEN Fails(h) ELSE Advance(h, 0)
  /\ doing' = [doing EXCEPT ![h] = "none"]
  /\ UNCHANGED seen

Awaits(h) ==
  /\ step(h).op = "await"
  /\ IF native[h] = step(h).res THEN Advance(h, 0)
     ELSE IF polls[h] + 1 < MaxPolls THEN Polled(h)
     ELSE Answer(h, "err")
  /\ UNCHANGED <<doing, seen>>

\* Wrong variant: one poll more.
LingersLonger(h) ==
  /\ step(h).op = "linger"
  /\ IF GetState(h) # step(h).res \/ polls[h] = MaxPolls THEN Advance(h, 0) ELSE Polled(h)
  /\ UNCHANGED <<doing, seen>>

\* vsphere.go: Restart gives the guest two minutes to shut down.
Lingers(h) ==
  /\ step(h).op = "linger"
  /\ IF GetState(h) # step(h).res \/ polls[h] + 1 = MaxPolls THEN Advance(h, 0) ELSE Polled(h)
  /\ UNCHANGED <<doing, seen>>

\* Polling for ever is waiting for the condition.
WaitsForEver(h) ==
  /\ \/ step(h).op = "while" /\ GetState(h) # step(h).res
     \/ step(h).op = "untilup" /\ Reachable(h)
  /\ Advance(h, 0)
  /\ UNCHANGED <<doing, seen>>

Reaches(h) ==
  /\ step(h).op = "reach"
  /\ IF Reachable(h) THEN Advance(h, 0) ELSE Fails(h)
  /\ UNCHANGED <<doing, seen>>

Reads(h) ==
  /\ step(h).op = "read"
  /\ seen' = [seen EXCEPT ![h] = GetState(h)]
  /\ Advance(h, 0)
  /\ UNCHANGED doing

Branches(h) ==
  /\ \/ step(h).op = "ifseen" /\ Advance(h, IF seen[h] \in step(h).res THEN 0 ELSE step(h).skip)
     \/ step(h).op = "perhaps" /\ \E n \in {0, step(h).skip} : Advance(h, n)
     \/ step(h).op \in {"ensure", "must"} /\ Advance(h, 0)
     \/ step(h).op = "unsupported" /\ Fails(h)
  /\ UNCHANGED <<doing, seen>>

DriverStep(h) ==
  /\ stage[h] = "act"
  /\ \/ Calls(h) \/ Asks(h) \/ Finishes(h) \/ Awaits(h) \/ Lingers(h)
     \/ WaitsForEver(h) \/ Reaches(h) \/ Reads(h) \/ Branches(h)
  /\ UNCHANGED <<native, up, fresh, op, faults, blinded>> /\ Alone

\* A call to the platform fails.
CallFails(h) ==
  /\ stage[h] = "act" /\ step(h).op \notin {"ifseen", "perhaps", "unsupported"}
  /\ Fault
  /\ Fails(h)
  /\ UNCHANGED <<platform, op, seen, blinded>> /\ Alone

HostStep(h) ==
  \/ Check(h) \/ WaitFor(h) \/ IsStopped(h) \/ IsRunning(h) \/ WaitForDocker(h)
  \/ GetStateForUpgrade(h) \/ Work(h) \/ StopForIso(h) \/ CopyIso(h) \/ RebootGuest(h) \/ RestartService(h)
  \/ DriverStep(h)

--------------------------------------------------------------------------------
(* The command.                                                             *)

\* Wrong variant: machineCommand returns an error without sending it.
ReceiveOk(h) ==
  /\ main = "running" /\ stage[h] = "send" /\ out[h] = "ok"
  /\ stage' = [stage EXCEPT ![h] = "done"]
  /\ got' = got \cup {h}
  /\ UNCHANGED <<fleet, cmd, platform, op, at, seen, polls, out, main, saved, faults, blinded, meddled, ignored>>

\* runActionForeachMachine takes the answers in the order in which they come.
Receive(h) ==
  /\ main = "running" /\ stage[h] = "send"
  /\ stage' = [stage EXCEPT ![h] = "done"]
  /\ got' = got \cup {h}
  /\ UNCHANGED <<fleet, cmd, platform, op, at, seen, polls, out, main, saved, faults, blinded, meddled, ignored>>

Rest == UNCHANGED <<fleet, cmd, platform, goroutine, got, blinded, meddled, ignored>>

\* Wrong variant: the error of the last host decides.
CollectedLast ==
  /\ main = "running" /\ got = Hosts
  /\ main' = IF out[Len(fleet)] = "err" THEN "error" ELSE "saving"
  /\ UNCHANGED <<saved, faults>> /\ Rest

\* All answers are there; one error among them, and nothing is saved.
Collected ==
  /\ main = "running" /\ got = Hosts
  /\ main' = IF \E h \in Hosts : out[h] = "err" THEN "error" ELSE "saving"
  /\ UNCHANGED <<saved, faults>> /\ Rest

\* The hosts are saved in their order; the first failure ends the command.
SaveHost ==
  /\ main = "saving"
  /\ LET h == Cardinality(saved) + 1
     IN \/ /\ saved' = saved \cup {h}
           /\ main' = IF h = Len(fleet) THEN "ok" ELSE main
           /\ UNCHANGED faults
        \/ Fault /\ main' = "error" /\ UNCHANGED saved
  /\ Rest

--------------------------------------------------------------------------------
(* The platform, the guest and others.                                      *)

Outside == UNCHANGED <<fleet, cmd, goroutine, main, got, saved, blinded>>

\* A state in between becomes visible.
Shows(h) ==
  /\ doing[h] \in {"on", "off", "reboot"}
  /\ native[h] \notin Driver(h).via[doing[h]]
  /\ \E n \in Driver(h).via[doing[h]] : native' = [native EXCEPT ![h] = n]
  /\ UNCHANGED <<doing, up, fresh, faults, meddled, ignored>> /\ Outside

\* The machine is on or off, as was asked.
Settle(h, b, new) ==
  /\ native' = [native EXCEPT ![h] = IF b THEN Driver(h).on ELSE Driver(h).off]
  /\ up' = [up EXCEPT ![h] = b]
  /\ fresh' = [fresh EXCEPT ![h] = new]

OperationDone(h) ==
  /\ doing[h] \in {"on", "off", "reboot", "resume", "guestoff"}
  /\ doing' = [doing EXCEPT ![h] = "none"]
  /\ Settle(h, doing[h] \notin {"off", "guestoff"},
            fresh[h] \/ doing[h] = "reboot" \/ (doing[h] = "on" /\ ~up[h]))
  /\ UNCHANGED <<faults, meddled, ignored>> /\ Outside

OperationFails(h) ==
  /\ doing[h] \in {"on", "off", "reboot", "resume"}
  /\ Fault
  /\ doing' = [doing EXCEPT ![h] = "failed"]
  /\ Settle(h, up[h], fresh[h])
  /\ UNCHANGED <<meddled, ignored>> /\ Outside

\* The guest does not do what it was asked to; who waits for it is told.
GuestIgnores(h) ==
  /\ doing[h] \in {"guestoff", "guestreboot"}
  /\ Fault
  /\ doing' = [doing EXCEPT ![h] = "failed"]
  /\ ignored' = ignored \cup {h}
  /\ UNCHANGED <<native, up, fresh, meddled>> /\ Outside

\* Somebody switches the machine on or off.
Meddle(h) ==
  /\ doing[h] \in {"none", "failed"}
  /\ Fault
  /\ meddled' = meddled \cup {h}
  /\ Settle(h, ~up[h], fresh[h] \/ ~up[h])
  /\ UNCHANGED <<doing, ignored>> /\ Outside

\* A guest that was told to reboot goes down, and comes up again; the platform does not see it.
GuestDown(h) ==
  /\ doing[h] = "guestreboot"
  /\ doing' = [doing EXCEPT ![h] = "booting"]
  /\ up' = [up EXCEPT ![h] = FALSE]
  /\ UNCHANGED <<native, fresh, faults, meddled, ignored>> /\ Outside

GuestUp(h) ==
  /\ doing[h] = "booting"
  /\ doing' = [doing EXCEPT ![h] = "none"]
  /\ Settle(h, TRUE, TRUE)
  /\ UNCHANGED <<faults, meddled, ignored>> /\ Outside

PlatformStep(h) == Shows(h) \/ OperationDone(h) \/ GuestDown(h) \/ GuestUp(h)

--------------------------------------------------------------------------------

\* What goes on by itself: goroutines that can run, the command, accepted requests.
Progress ==
  \/ \E h \in Hosts : HostStep(h) \/ Receive(h) \/ PlatformStep(h)
  \/ Collected \/ SaveHost

Next ==
  \/ Progress
  \/ \E h \in Hosts : CallFails(h) \/ OperationFails(h) \/ GuestIgnores(h) \/ Meddle(h)

\* As long as something can go on, something does.
Spec == Init /\ [][Next]_vars /\ WF_vars(Progress)

--------------------------------------------------------------------------------
(* Properties.                                                              *)

Stages == {"check", "act", "wait", "isstopped", "isrunning", "docker", "again", "getstate", "work",
           "copyiso", "service", "send", "done"}

TypeOK ==
  /\ \A h \in Hosts :
       /\ native[h] \in DOMAIN Driver(h).state
       /\ doing[h] \in {"none", "on", "off", "reboot", "resume", "guestoff", "guestreboot", "booting", "failed"}
       /\ up[h] \in BOOLEAN /\ fresh[h] \in BOOLEAN
       /\ stage[h] \in Stages
       /\ op[h] \in {"start", "stop", "restart", "kill", "isostop", "isostart"}
       /\ at[h] \in 1..Len(Program(h))
       /\ seen[h] \in States
       /\ polls[h] \in 0..MaxPolls - 1
       /\ out[h] \in {"none", "ok", "err"}
  /\ main \in {"running", "saving", "ok", "error"}
  /\ got \subseteq Hosts /\ saved \subseteq Hosts /\ blinded \subseteq Hosts
  /\ meddled \subseteq Hosts /\ ignored \subseteq Hosts
  /\ faults \in 0..MaxFaults

\* The answer stands: nobody else has switched the machine.
Answered(h, c) == cmd \in c /\ out[h] = "ok" /\ h \notin meddled /\ h \notin blinded

\* A start that succeeded has left the machine running, and GetState says so; a stop or kill
\* that succeeded has left it off (host.go:96: the driver's operation only asks for it, the poll
\* after it is what the answer rests on).  So has an upgrade, which stops and starts a machine
\* whose image it replaces (boot2docker.go:71), left it running, but for a guest that is still
\* about to come up from the reboot that nobody waits for (rancheros.go:172).
OkMeansState ==
  \A h \in Hosts :
    /\ Answered(h, {"start"}) => up[h] /\ GetState(h) = "Running"
    /\ Answered(h, {"upgrade"}) => (up[h] \/ doing[h] = "booting") /\ GetState(h) = "Running"
    /\ Answered(h, {"stop", "kill"}) => ~up[h] /\ GetState(h) = "Stopped"

\* A restart that found the machine running and succeeded has rebooted it, although
\* GetState may say Running all the time (host.go:153): the driver has to wait for the
\* reboot.  Those of MayBeEager do not.
RestartReboots ==
  \A h \in Hosts :
    Answered(h, {"restart"}) /\ op[h] = "restart" /\ fleet[h] \notin MayBeEager => fresh[h]

\* The command succeeds only if it did for every host, and then all are saved; if it failed
\* for one, no host is saved, those that succeeded included (commands.go:131).
AllOrNoneSaved ==
  /\ main = "ok" => saved = Hosts
  /\ saved # {} => \A h \in Hosts : out[h] = "ok"

\* The command ends, whatever fails.  Only a driver that polls for ever keeps it waiting,
\* and only if the guest ignores the power button or somebody switches the machine.
CommandEnds ==
  \/ <>(main \in {"ok", "error"})
  \/ <>[](\E h \in Hosts : fleet[h] \in MayHang /\ h \in meddled \cup ignored)
================================================================================
