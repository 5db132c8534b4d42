---------------------------- MODULE HostActionsProofs ----------------------------
(***************************************************************************)
(* Proofs about HostActions: for any drivers, any number of hosts and any   *)
(* bounds.                                                                  *)
(***************************************************************************)
EXTENDS HostActions, FiniteSetTheorems, TLAPS

\* The goroutines: what has been collected stays as it is.
Goroutines ==
  /\ fleet \in Fleets
  /\ stage \in [Hosts -> Stages]
  /\ out \in [Hosts -> {"none", "ok", "err"}]
  /\ \A h \in Hosts : stage[h] \in {"send", "done"} => out[h] \in {"ok", "err"}
  /\ got \subseteq Hosts
  /\ \A h \in got : stage[h] = "done"

\* The command: hosts are saved in their order, and only after a success of all.
Saving ==
  /\ main \in {"running", "saving", "ok", "error"}
  /\ main = "running" => saved = {}
  /\ main # "running" => got = Hosts
  /\ main \in {"saving", "ok"} \/ saved # {} => \A h \in Hosts : out[h] = "ok"
  /\ main = "saving" => \E n \in 0..Len(fleet) - 1 : saved = 1..n
  /\ main = "ok" => saved = Hosts

\* A step of one goroutine, which is not at its end.
Runs(h) ==
  /\ stage[h] \notin {"send", "done"}
  /\ UNCHANGED <<fleet, main, got, saved>>
  /\ \E s \in Stages \ {"done"} : stage' = [stage EXCEPT ![h] = s]
  /\ \/ out' = out /\ stage'[h] # "send"
     \/ \E o \in {"ok", "err"} : out' = [out EXCEPT ![h] = o]

\* Every step of a Host method, and every call that fails, is such a step.
LEMMA StepRuns ==
  ASSUME Goroutines, NEW h \in Hosts, HostStep(h) \/ CallFails(h)
  PROVE  Runs(h)
<1> USE DEF Goroutines, Runs, Stages, Alone, Go, Answer
<1>1. CASE Check(h)
  BY <1>1 DEF Check
<1>2. CASE WaitFor(h)
  BY <1>2 DEF WaitFor, AfterWait, Polled
<1>3. CASE IsStopped(h) \/ IsRunning(h)
  BY <1>3 DEF IsStopped, IsRunning
<1>4. CASE WaitForDocker(h)
  BY <1>4 DEF WaitForDocker
<1>5. CASE GetStateForUpgrade(h) \/ Work(h)
  BY <1>5 DEF GetStateForUpgrade, Work
<1>8. CASE StopForIso(h) \/ CopyIso(h) \/ RebootGuest(h) \/ RestartService(h)
  BY <1>8 DEF StopForIso, CopyIso, RebootGuest, RestartService
<1>6. CASE DriverStep(h)
  BY <1>6 DEF DriverStep, Calls, Asks, Finishes, Awaits, Lingers, WaitsForEver, Reaches, Reads, Branches,
              Advance, Fails, Polled
<1>7. CASE CallFails(h)
  BY <1>7 DEF CallFails, Advance, Fails
<1> QED
  BY <1>1, <1>2, <1>3, <1>4, <1>5, <1>6, <1>7, <1>8 DEF HostStep

\* Both parts are kept by every step.
LEMMA InvStep == Goroutines /\ Saving /\ [Next]_vars => Goroutines' /\ Saving'
<1> SUFFICES ASSUME Goroutines, Saving, [Next]_vars PROVE Goroutines' /\ Saving'
  OBVIOUS
<1>0. Len(fleet) \in Nat \ {0} /\ Hosts = 1..Len(fleet)
  BY FleetsAssumption DEF Goroutines, Hosts
<1>1. ASSUME NEW h \in Hosts, HostStep(h) \/ CallFails(h) PROVE Goroutines' /\ Saving'
  <2>1. Runs(h)
    BY <1>1, StepRuns
  <2>2. fleet' = fleet /\ Hosts' = Hosts /\ h \notin got /\ main = "running"
    BY <1>1, <2>1 DEF Runs, Goroutines, Saving, Hosts
  <2>3. Goroutines'
    BY <2>1, <2>2 DEF Runs, Goroutines, Stages
  <2>4. Saving'
    BY <2>1, <2>2 DEF Runs, Saving
  <2> QED
    BY <2>3, <2>4
<1>2. ASSUME NEW h \in Hosts, Receive(h) PROVE Goroutines' /\ Saving'
  <2>1. /\ UNCHANGED <<fleet, out, main, saved>> /\ Hosts' = Hosts /\ main = "running"
        /\ stage' = [stage EXCEPT ![h] = "done"] /\ got' = got \cup {h} /\ stage[h] = "send"
    BY <1>2 DEF Receive, Hosts
  <2>2. Goroutines'
    BY <2>1 DEF Goroutines, Stages
  <2>3. Saving'
    BY <2>1 DEF Saving
  <2> QED
    BY <2>2, <2>3
<1>3. CASE Collected
  <2>1. /\ UNCHANGED <<fleet, stage, out, got, saved>> /\ Hosts' = Hosts /\ main = "running" /\ got = Hosts
        /\ main' = IF \E h \in Hosts : out[h] = "err" THEN "error" ELSE "saving"
    BY <1>3 DEF Collected, Rest, goroutine, Hosts
  <2>2. Goroutines'
    BY <2>1 DEF Goroutines
  <2>3. saved = {} /\ saved = 1..0 /\ 0 \in 0..Len(fleet) - 1
    BY <1>0, <2>1 DEF Saving
  <2>4. main' = "saving" => \A h \in Hosts : out[h] = "ok"
    BY <2>1 DEF Goroutines
  <2>5. Saving'
    BY <2>1, <2>3, <2>4 DEF Saving
  <2> QED
    BY <2>2, <2>5
<1>4. CASE SaveHost
  <2>1. PICK n \in 0..Len(fleet) - 1 : saved = 1..n
    BY <1>4 DEF SaveHost, Saving
  <2>2. Cardinality(saved) = n
    BY <1>0, <2>1, FS_Interval
  <2>3. UNCHANGED <<fleet, stage, out, got>> /\ Hosts' = Hosts /\ main = "saving"
    BY <1>4 DEF SaveHost, Rest, goroutine, Hosts
  <2>4. Goroutines'
    BY <2>3 DEF Goroutines
  <2>5. CASE saved' = saved \cup {n + 1} /\ main' = IF n + 1 = Len(fleet) THEN "ok" ELSE main
    <3>1. saved' = 1..(n + 1)
      BY <1>0, <2>1, <2>5
    <3>2. n + 1 = Len(fleet) => saved' = Hosts
      BY <1>0, <3>1
    <3>3. n + 1 # Len(fleet) => n + 1 \in 0..Len(fleet) - 1
      BY <1>0, <2>1
    <3> QED
      BY <2>3, <2>4, <2>5, <3>1, <3>2, <3>3 DEF Saving
  <2>6. CASE main' = "error" /\ saved' = saved
    BY <2>3, <2>4, <2>6 DEF Saving
  <2> QED
    BY <1>4, <2>2, <2>5, <2>6 DEF SaveHost
<1>5. ASSUME UNCHANGED <<fleet, goroutine, main, got, saved>> PROVE Goroutines' /\ Saving'
  BY <1>5 DEF goroutine, Goroutines, Saving, Hosts
<1>6. ASSUME NEW h \in Hosts, PlatformStep(h) \/ OperationFails(h) \/ GuestIgnores(h) \/ Meddle(h)
      PROVE  UNCHANGED <<fleet, goroutine, main, got, saved>>
  BY <1>6 DEF PlatformStep, Shows, OperationDone, GuestDown, GuestUp, OperationFails, GuestIgnores, Meddle, Outside
<1>7. CASE UNCHANGED vars
  BY <1>5, <1>7 DEF vars
<1> QED
  BY <1>1, <1>2, <1>3, <1>4, <1>5, <1>6, <1>7 DEF Next, Progress

\* AllOrNoneSaved (commands.go:131): whatever the drivers and the platforms do, the command
\* succeeds only with every host saved, and saves none if it failed for one.
THEOREM SavedTogether == Spec => []AllOrNoneSaved
<1>1. ASSUME Init PROVE Goroutines /\ Saving
  <2>1. fleet \in Fleets /\ Hosts = DOMAIN fleet /\ main = "running" /\ got = {} /\ saved = {}
    BY <1>1 DEF Init, Hosts
  <2>2. stage = [h \in Hosts |-> First(cmd)] /\ out = [h \in Hosts |-> "none"]
    BY <1>1 DEF Init, Hosts
  <2>3. First(cmd) \in Stages \ {"send", "done"}
    BY DEF First, Stages
  <2> QED
    BY <2>1, <2>2, <2>3 DEF Goroutines, Saving, Stages
<1>2. Goroutines /\ Saving => AllOrNoneSaved
  BY DEF Saving, AllOrNoneSaved
<1> QED
  BY <1>1, <1>2, InvStep, PTL DEF Spec

--------------------------------------------------------------------------------
(* Types.                                                                   *)

\* The goroutines and the platform have an entry for every host.
Shape ==
  /\ fleet \in Fleets
  /\ DOMAIN native = Hosts /\ DOMAIN doing = Hosts /\ DOMAIN up = Hosts /\ DOMAIN fresh = Hosts
  /\ DOMAIN stage = Hosts /\ DOMAIN op = Hosts /\ DOMAIN at = Hosts /\ DOMAIN seen = Hosts
  /\ DOMAIN polls = Hosts /\ DOMAIN out = Hosts

\* The entries of h in TypeOK.
HostOK(h) ==
  /\ native[h] \in DOMAIN Driver(h).state
  /\ doing[h] \in {"none", "on", "off", "reboot", "resume", "guestoff", "guestreboot", "booting", "failed"}
  /\ up[h] \in BOOLEAN /\ fresh[h] \in BOOLEAN
  /\ stage[h] \in Stages
  /\ op[h] \in {"start", "stop", "restart", "kill", "isostop", "isostart"}
  /\ at[h] \in 1..Len(Program(h))
  /\ seen[h] \in States
  /\ polls[h] \in 0..MaxPolls - 1
  /\ out[h] \in {"none", "ok", "err"}

\* The rest of it.
CommandOK ==
  /\ main \in {"running", "saving", "ok", "error"}
  /\ got \subseteq Hosts /\ saved \subseteq Hosts /\ blinded \subseteq Hosts
  /\ meddled \subseteq Hosts /\ ignored \subseteq Hosts
  /\ faults \in 0..MaxFaults

LEMMA TypeParts == TypeOK <=> (\A h \in Hosts : HostOK(h)) /\ CommandOK
  BY DEF TypeOK, HostOK, CommandOK

\* Only the entry of h changes from f to f1.
Only(f, f1, h) == DOMAIN f1 = DOMAIN f /\ \A g \in DOMAIN f \ {h} : f1[g] = f[g]

Local(h) ==
  /\ fleet' = fleet /\ cmd' = cmd
  /\ Only(native, native', h) /\ Only(doing, doing', h) /\ Only(up, up', h) /\ Only(fresh, fresh', h)
  /\ Only(stage, stage', h) /\ Only(op, op', h) /\ Only(at, at', h) /\ Only(seen, seen', h)
  /\ Only(polls, polls', h) /\ Only(out, out', h)

SameRow(g) ==
  /\ native'[g] = native[g] /\ doing'[g] = doing[g] /\ up'[g] = up[g] /\ fresh'[g] = fresh[g]
  /\ stage'[g] = stage[g] /\ op'[g] = op[g] /\ at'[g] = at[g] /\ seen'[g] = seen[g]
  /\ polls'[g] = polls[g] /\ out'[g] = out[g]

\* A step of one host leaves the others alone.
LEMMA LocalRows ==
  ASSUME Shape, NEW h \in Hosts, Local(h)
  PROVE  Shape' /\ Hosts' = Hosts /\ \A g \in Hosts \ {h} : SameRow(g)
<1>1. Hosts' = Hosts
  BY DEF Local, Hosts
<1>2. Shape'
  BY <1>1 DEF Shape, Local, Only
<1>3. \A g \in Hosts \ {h} : SameRow(g)
  BY DEF Shape, Local, Only, SameRow
<1> QED
  BY <1>1, <1>2, <1>3

\* What is known of a host depends on its own entries.
LEMMA SameType ==
  ASSUME fleet' = fleet, NEW g, HostOK(g), SameRow(g)
  PROVE  HostOK(g)'
  BY DEF HostOK, SameRow, Driver, Program

\* The driver of a host is one of the table.
LEMMA Tables ==
  ASSUME Shape, NEW h \in Hosts
  PROVE  /\ fleet[h] \in DOMAIN Platform
         /\ Driver(h).blind \in States
         /\ \A n \in DOMAIN Driver(h).state : Driver(h).state[n] \in States
         /\ {Driver(h).on, Driver(h).off} \cup Driver(h).other \subseteq DOMAIN Driver(h).state
         /\ \A g \in {"on", "off", "reboot"} : Driver(h).via[g] \subseteq DOMAIN Driver(h).state
         /\ \A o \in Operations :
              /\ Len(Driver(h)[o]) \in Nat \ {0} /\ DOMAIN Driver(h)[o] = 1..Len(Driver(h)[o])
              /\ \A i \in DOMAIN Driver(h)[o] :
                   /\ Driver(h)[o][i].skip \in Nat
                   /\ Driver(h)[o][i].op = "ask" => Driver(h)[o][i].res \in Goals
<1>1. fleet[h] \in DOMAIN Platform
  BY FleetsAssumption DEF Shape, Hosts
<1> QED
  BY <1>1, PlatformAssumption DEF Driver

\* A method of Host calls an operation of the driver.
LEMMA CalledType ==
  ASSUME NEW o \in {"start", "stop", "restart", "kill", "isostop", "isostart"}
  PROVE  /\ Called(o) \in Operations
         /\ o \in Operations => Called(o) = o
         /\ Called("isostop") = "stop" /\ Called("isostart") = "start"
  BY DEF Called, Operations

\* The step of a driver operation.
LEMMA Steps ==
  ASSUME Shape, NEW h \in Hosts, HostOK(h)
  PROVE  /\ Len(Program(h)) \in Nat \ {0} /\ DOMAIN Program(h) = 1..Len(Program(h))
         /\ at[h] \in DOMAIN Program(h)
         /\ step(h).skip \in Nat /\ (step(h).op = "ask" => step(h).res \in Goals)
         /\ GetState(h) \in States
<1>1. Called(op[h]) \in Operations
  BY CalledType DEF HostOK
<1>2. Len(Program(h)) \in Nat \ {0} /\ DOMAIN Program(h) = 1..Len(Program(h)) /\ at[h] \in DOMAIN Program(h)
  BY <1>1, Tables DEF Program, HostOK
<1>3. GetState(h) \in States
  BY Tables DEF GetState, HostOK
<1> QED
  BY <1>1, <1>2, <1>3, Tables DEF Program, step

\* How a goroutine turns: it answers, goes to stage st, goes to another step, or stays.
Sends(h, o) == stage'[h] = "send" /\ at'[h] = 1 /\ polls'[h] = 0 /\ out'[h] = o
Turns(h, st) == stage'[h] = st /\ at'[h] = 1 /\ polls'[h] = 0 /\ out'[h] = out[h]
Proceeds(h) == stage'[h] = stage[h] /\ at'[h] \in DOMAIN Program(h) /\ polls'[h] = 0 /\ out'[h] = out[h]
Stays(h) == stage'[h] = stage[h] /\ at'[h] = at[h] /\ polls'[h] \in 0..MaxPolls - 1 /\ out'[h] = out[h]

\* The entries of the goroutine that these change.
Turning(h) ==
  Only(stage, stage', h) /\ Only(at, at', h) /\ Only(polls, polls', h) /\ Only(out, out', h)

LEMMA GoCases ==
  ASSUME Shape, NEW h \in Hosts, NEW st, Go(h, st)
  PROVE  /\ Only(stage, stage', h) /\ Only(at, at', h) /\ Only(polls, polls', h)
         /\ stage'[h] = st /\ at'[h] = 1 /\ polls'[h] = 0
         /\ out' = out => Turning(h) /\ Turns(h, st)
         /\ \A o : out' = [out EXCEPT ![h] = o] /\ st = "send" => Turning(h) /\ Sends(h, o)
  BY DEF Go, Only, Shape, Turning, Turns, Sends

LEMMA PolledCases ==
  ASSUME Shape, NEW h \in Hosts, HostOK(h), Polled(h), polls[h] + 1 < MaxPolls
  PROVE  Turning(h) /\ Stays(h)
  BY PollsAssumption DEF Polled, Only, Shape, Turning, Stays, HostOK

LEMMA AdvanceCases ==
  ASSUME Shape, NEW h \in Hosts, HostOK(h), NEW n \in Nat, Advance(h, n)
  PROVE  /\ Turning(h)
         /\ Turns(h, "wait") \/ Proceeds(h)
         /\ at[h] + n + 1 \in DOMAIN Program(h) => stage'[h] = stage[h] /\ at'[h] = at[h] + n + 1
<1>1. /\ Len(Program(h)) \in Nat /\ DOMAIN Program(h) = 1..Len(Program(h)) /\ at[h] \in Nat \ {0}
  BY Steps
<1>2. CASE at[h] + n + 1 > Len(Program(h))
  <2>1. Go(h, "wait") /\ out' = out
    BY <1>2 DEF Advance
  <2> QED
    BY <1>1, <1>2, <2>1, GoCases
<1>3. CASE ~(at[h] + n + 1 > Len(Program(h)))
  <2>1. /\ at' = [at EXCEPT ![h] = at[h] + n + 1] /\ polls' = [polls EXCEPT ![h] = 0]
        /\ stage' = stage /\ out' = out
    BY <1>3 DEF Advance
  <2>2. at[h] + n + 1 \in DOMAIN Program(h)
    BY <1>1, <1>3
  <2>3. Turning(h)
    BY <2>1 DEF Turning, Only, Shape
  <2>4. at'[h] = at[h] + n + 1 /\ polls'[h] = 0
    BY <2>1 DEF Shape
  <2> QED
    BY <2>1, <2>2, <2>3, <2>4 DEF Proceeds
<1> QED
  BY <1>2, <1>3

\* A step that fails.
LEMMA FailsCases ==
  ASSUME Shape, NEW h \in Hosts, HostOK(h), Fails(h)
  PROVE  /\ Turning(h)
         /\ step(h).fail = "return" => Sends(h, "err")
         /\ Sends(h, "err") \/ Turns(h, "wait") \/ Proceeds(h) \/ Stays(h)
<1>1. CASE step(h).fail = "return"
  <2>1. Go(h, "send") /\ out' = [out EXCEPT ![h] = "err"]
    BY <1>1 DEF Fails, Answer
  <2> QED
    BY <2>1, GoCases
<1>2. CASE step(h).fail = "ignore"
  <2>1. Advance(h, 0)
    BY <1>2 DEF Fails
  <2> QED
    BY <1>2, <2>1, AdvanceCases
<1>3. CASE step(h).fail \notin {"return", "ignore"}
  <2>1. stage' = stage /\ at' = at /\ polls' = polls /\ out' = out
    BY <1>3 DEF Fails
  <2> QED
    BY <1>3, <2>1 DEF Turning, Only, Stays, HostOK
<1> QED
  BY <1>1, <1>2, <1>3

\* A step of a driver operation: the platform may get a request, and the driver goes past
\* a wait only when it is over.
Acts(h) ==
  /\ Local(h) /\ op'[h] = op[h] /\ seen'[h] \in States
  /\ native'[h] = native[h] /\ up'[h] = up[h] /\ fresh'[h] = fresh[h]
  /\ \/ doing'[h] = doing[h]
     \/ doing[h] = "failed" /\ doing'[h] = "none"
     \/ /\ step(h).op = "ask" /\ Accepts(h, step(h).res)
        /\ doing'[h] = IF Idle(h, step(h).res) THEN "none" ELSE step(h).res
        /\ at[h] + 1 \in DOMAIN Program(h) => stage'[h] = stage[h] /\ at'[h] = at[h] + 1
  /\ \/ Sends(h, "err")
     \/ Stays(h)
     \/ /\ Turns(h, "wait") \/ Proceeds(h)
        /\ step(h).op = "finish" /\ step(h).fail = "return" => doing[h] \in {"none", "failed"}
        /\ step(h).op = "while" /\ step(h).fail = "return" => GetState(h) # step(h).res

LEMMA ActCases ==
  ASSUME Shape, NEW h \in Hosts, HostOK(h), DriverStep(h) \/ CallFails(h)
  PROVE  Acts(h) /\ stage[h] = "act"
<1>0. /\ stage[h] = "act" /\ UNCHANGED <<fleet, cmd, native, up, fresh, op>>
      /\ step(h).skip \in Nat /\ GetState(h) \in States /\ seen[h] \in States
  BY Steps DEF DriverStep, CallFails, Alone, platform, HostOK
<1> DEFINE Going == Turns(h, "wait") \/ Proceeds(h)
           NotEarly == /\ step(h).op = "finish" /\ step(h).fail = "return" => doing[h] \in {"none", "failed"}
                       /\ step(h).op = "while" /\ step(h).fail = "return" => GetState(h) # step(h).res
           Asked == /\ step(h).op = "ask" /\ Accepts(h, step(h).res)
                    /\ doing'[h] = IF Idle(h, step(h).res) THEN "none" ELSE step(h).res
                    /\ at[h] + 1 \in DOMAIN Program(h) => stage'[h] = stage[h] /\ at'[h] = at[h] + 1
<1>1. ASSUME Turning(h), Only(doing, doing', h), Only(seen, seen', h), seen'[h] \in States,
             doing'[h] = doing[h] \/ (doing[h] = "failed" /\ doing'[h] = "none") \/ Asked,
             Sends(h, "err") \/ Stays(h) \/ (Going /\ NotEarly)
      PROVE  Acts(h)
  BY <1>0, <1>1 DEF Acts, Local, Turning, Only
<1>2. ASSUME UNCHANGED <<doing, seen>>
      PROVE  Only(doing, doing', h) /\ Only(seen, seen', h) /\ seen'[h] \in States /\ doing'[h] = doing[h]
  BY <1>0, <1>2 DEF Only
<1>3. CASE CallFails(h)
  <2>1. UNCHANGED <<doing, seen>> /\ Fails(h)
    BY <1>3 DEF CallFails, platform
  <2>2. Turning(h) /\ (Sends(h, "err") \/ Stays(h) \/ (Going /\ NotEarly))
    BY <2>1, FailsCases
  <2> QED
    BY <1>0, <1>1, <1>2, <2>1, <2>2
<1>4. CASE DriverStep(h)
  <2>1. CASE Calls(h)
    <3>1. Turning(h) /\ Going /\ NotEarly /\ UNCHANGED <<doing, seen>>
      BY <2>1, AdvanceCases DEF Calls
    <3> QED
      BY <1>0, <1>1, <1>2, <3>1
  <2>2. CASE Asks(h)
    <3>1. CASE Accepts(h, step(h).res)
      <4>1. /\ doing' = [doing EXCEPT ![h] = IF Idle(h, step(h).res) THEN "none" ELSE step(h).res]
            /\ Advance(h, 0) /\ seen' = seen /\ step(h).op = "ask"
        BY <2>2, <3>1 DEF Asks
      <4>2. Turning(h) /\ Going /\ NotEarly
        BY <4>1, AdvanceCases
      <4>3. at[h] + 0 + 1 = at[h] + 1
        BY Steps
      <4>4. at[h] + 1 \in DOMAIN Program(h) => stage'[h] = stage[h] /\ at'[h] = at[h] + 1
        BY <4>1, <4>3, AdvanceCases
      <4>5. Only(doing, doing', h) /\ doing'[h] = IF Idle(h, step(h).res) THEN "none" ELSE step(h).res
        BY <4>1 DEF Only, Shape
      <4>6. Only(seen, seen', h) /\ seen'[h] \in States
        BY <1>0, <4>1 DEF Only
      <4> QED
        BY <1>0, <1>1, <3>1, <4>1, <4>2, <4>4, <4>5, <4>6
    <3>2. CASE ~Accepts(h, step(h).res)
      <4>1. UNCHANGED <<doing, seen>> /\ Fails(h) /\ step(h).op = "ask"
        BY <2>2, <3>2 DEF Asks
      <4>2. Turning(h) /\ NotEarly /\ (Sends(h, "err") \/ Stays(h) \/ Going)
        BY <4>1, FailsCases
      <4> QED
        BY <1>0, <1>1, <1>2, <4>1, <4>2
    <3> QED
      BY <3>1, <3>2
  <2>3. CASE Finishes(h)
    <3>1. /\ step(h).op = "finish" /\ doing[h] \in {"none", "failed"} /\ seen' = seen
          /\ doing' = [doing EXCEPT ![h] = "none"] /\ (Fails(h) \/ Advance(h, 0))
      BY <2>3 DEF Finishes
    <3>2. Turning(h) /\ NotEarly /\ (Sends(h, "err") \/ Stays(h) \/ Going)
      BY <3>1, FailsCases, AdvanceCases
    <3>3. Only(doing, doing', h) /\ doing'[h] = "none"
      BY <3>1 DEF Only, Shape
    <3>4. Only(seen, seen', h) /\ seen'[h] \in States
      BY <1>0, <3>1 DEF Only
    <3> QED
      BY <1>0, <1>1, <3>1, <3>2, <3>3, <3>4
  <2>4. CASE Awaits(h) \/ Lingers(h)
    <3>1. UNCHANGED <<doing, seen>> /\ step(h).op \in {"await", "linger"}
      BY <2>4 DEF Awaits, Lingers
    <3>2. Advance(h, 0) \/ (Polled(h) /\ polls[h] + 1 < MaxPolls) \/ Answer(h, "err")
      <4>1. polls[h] + 1 <= MaxPolls /\ polls[h] \in Nat /\ MaxPolls \in Nat
        BY PollsAssumption DEF HostOK
      <4> QED
        BY <2>4, <4>1 DEF Awaits, Lingers
    <3>3. Answer(h, "err") => Turning(h) /\ Sends(h, "err")
      BY GoCases DEF Answer
    <3>4. Turning(h) /\ NotEarly /\ (Sends(h, "err") \/ Stays(h) \/ Going)
      BY <3>1, <3>2, <3>3, AdvanceCases, PolledCases
    <3> QED
      BY <1>0, <1>1, <1>2, <3>1, <3>4
  <2>5. CASE WaitsForEver(h)
    <3>1. Advance(h, 0) /\ UNCHANGED <<doing, seen>> /\ NotEarly
      BY <2>5 DEF WaitsForEver
    <3>2. Turning(h) /\ Going
      BY <3>1, AdvanceCases
    <3> QED
      BY <1>0, <1>1, <1>2, <3>1, <3>2
  <2>6. CASE Reaches(h)
    <3>1. (Advance(h, 0) \/ Fails(h)) /\ UNCHANGED <<doing, seen>> /\ NotEarly
      BY <2>6 DEF Reaches
    <3>2. Turning(h) /\ (Sends(h, "err") \/ Stays(h) \/ Going)
      BY <3>1, FailsCases, AdvanceCases
    <3> QED
      BY <1>0, <1>1, <1>2, <3>1, <3>2
  <2>7. CASE Reads(h)
    <3>1. Advance(h, 0) /\ doing' = doing /\ NotEarly /\ seen' = [seen EXCEPT ![h] = GetState(h)]
      BY <2>7 DEF Reads
    <3>2. Turning(h) /\ Going
      BY <3>1, AdvanceCases
    <3>3. Only(seen, seen', h) /\ seen'[h] \in States /\ Only(doing, doing', h) /\ doing'[h] = doing[h]
      BY <1>0, <3>1 DEF Only, Shape
    <3> QED
      BY <1>0, <1>1, <3>1, <3>2, <3>3
  <2>8. CASE Branches(h)
    <3>1. UNCHANGED <<doing, seen>> /\ NotEarly /\ (Fails(h) \/ \E n \in Nat : Advance(h, n))
      BY <1>0, <2>8 DEF Branches
    <3>2. Turning(h) /\ (Sends(h, "err") \/ Stays(h) \/ Going)
      BY <3>1, FailsCases, AdvanceCases
    <3> QED
      BY <1>0, <1>1, <1>2, <3>1, <3>2
  <2> QED
    BY <1>0, <1>4, <2>1, <2>2, <2>3, <2>4, <2>5, <2>6, <2>7, <2>8 DEF DriverStep
<1> QED
  BY <1>0, <1>3, <1>4

\* A look at the machine.
LEMMA LookCases ==
  ASSUME NEW h \in Hosts, NEW s, Looks(h, s), CommandOK
  PROVE  /\ s = GetState(h) \/ h \in blinded'
         /\ blinded \subseteq blinded' /\ blinded' \subseteq Hosts /\ faults' \in 0..MaxFaults
  BY PollsAssumption DEF Looks, Fault, CommandOK

\* A step of Host's own methods: the machine is at most looked at.
Method(h) ==
  /\ Local(h) /\ native'[h] = native[h] /\ doing'[h] = doing[h] /\ up'[h] = up[h] /\ fresh'[h] = fresh[h]
  /\ UNCHANGED <<main, got, saved, meddled, ignored>>
  /\ blinded \subseteq blinded' /\ blinded' \subseteq Hosts /\ faults' \in 0..MaxFaults

\* The state that was seen is s, unless the lookup failed.
Seen(h, s) == GetState(h) = s \/ h \in blinded'

LEMMA MethodSteps ==
  ASSUME Shape, CommandOK, NEW h \in Hosts, Turning(h), UNCHANGED <<platform, op, seen>>, Alone,
         blinded \subseteq blinded', blinded' \subseteq Hosts, faults' \in 0..MaxFaults
  PROVE  Method(h) /\ op'[h] = op[h] /\ seen'[h] = seen[h]
  BY DEF Method, Local, Turning, Only, platform, Alone

LEMMA CheckCases ==
  ASSUME Shape, CommandOK, NEW h \in Hosts, Check(h)
  PROVE  /\ Method(h) /\ op'[h] = op[h] /\ seen'[h] = seen[h]
         /\ Sends(h, "err") \/ (Turns(h, "act") /\ (GetState(h) # Desired(op[h]) \/ h \in blinded'))
<1>1. PICK s : /\ Looks(h, s)
               /\ IF s = Desired(op[h]) THEN Answer(h, "err") ELSE Go(h, "act") /\ UNCHANGED out
  BY DEF Check
<1>2. CASE s = Desired(op[h])
  <2>1. Turning(h) /\ Sends(h, "err")
    BY <1>1, <1>2, GoCases DEF Answer
  <2> QED
    BY <1>1, <2>1, LookCases, MethodSteps DEF Check
<1>3. CASE s # Desired(op[h])
  <2>1. Turning(h) /\ Turns(h, "act")
    BY <1>1, <1>3, GoCases
  <2> QED
    BY <1>1, <1>3, <2>1, LookCases, MethodSteps DEF Check
<1> QED
  BY <1>2, <1>3

LEMMA WaitCases ==
  ASSUME Shape, CommandOK, NEW h \in Hosts, HostOK(h), WaitFor(h)
  PROVE  /\ Method(h) /\ op'[h] = op[h] /\ seen'[h] = seen[h]
         /\ \/ Sends(h, "err") \/ Stays(h)
            \/ /\ Seen(h, Desired(op[h]))
               /\ \/ op[h] \in {"stop", "kill"} /\ Sends(h, "ok")
                  \/ op[h] = "start" /\ Turns(h, "docker")
                  \/ op[h] = "restart" /\ Turns(h, "again")
                  \/ op[h] = "isostop" /\ Turns(h, "copyiso")
                  \/ op[h] = "isostart" /\ Turns(h, "service")
<1>1. PICK s : /\ Looks(h, s)
               /\ IF s = Desired(op[h]) THEN AfterWait(h)
                  ELSE IF polls[h] + 1 < MaxPolls THEN Polled(h)
                  ELSE Answer(h, "err")
  BY DEF WaitFor
<1>2. CASE s = Desired(op[h])
  <2>1. AfterWait(h) /\ Seen(h, Desired(op[h]))
    BY <1>1, <1>2, LookCases DEF Seen
  <2>2. CASE op[h] \in {"stop", "kill"}
    <3>1. Turning(h) /\ Sends(h, "ok")
      BY <2>1, <2>2, GoCases DEF AfterWait, Answer
    <3> QED
      BY <1>1, <2>1, <2>2, <3>1, LookCases, MethodSteps DEF WaitFor
  <2>3. CASE op[h] = "start"
    <3>1. Turning(h) /\ Turns(h, "docker")
      BY <2>1, <2>3, GoCases DEF AfterWait
    <3> QED
      BY <1>1, <2>1, <2>3, <3>1, LookCases, MethodSteps DEF WaitFor
  <2>4. CASE op[h] = "restart"
    <3>1. Turning(h) /\ Turns(h, "again")
      BY <2>1, <2>4, GoCases DEF AfterWait
    <3> QED
      BY <1>1, <2>1, <2>4, <3>1, LookCases, MethodSteps DEF WaitFor
  <2>5. CASE op[h] = "isostop"
    <3>1. Turning(h) /\ Turns(h, "copyiso")
      BY <2>1, <2>5, GoCases DEF AfterWait
    <3> QED
      BY <1>1, <2>1, <2>5, <3>1, LookCases, MethodSteps DEF WaitFor
  <2>6. CASE op[h] = "isostart"
    <3>1. Turning(h) /\ Turns(h, "service")
      BY <2>1, <2>6, GoCases DEF AfterWait
    <3> QED
      BY <1>1, <2>1, <2>6, <3>1, LookCases, MethodSteps DEF WaitFor
  <2> QED
    BY <2>2, <2>3, <2>4, <2>5, <2>6 DEF HostOK
<1>3. CASE s # Desired(op[h])
  <2>1. Turning(h) /\ (Sends(h, "err") \/ Stays(h))
    BY <1>1, <1>3, GoCases, PolledCases DEF Answer
  <2> QED
    BY <1>1, <2>1, LookCases, MethodSteps DEF WaitFor
<1> QED
  BY <1>2, <1>3

LEMMA RestartCases ==
  ASSUME Shape, CommandOK, NEW h \in Hosts, HostOK(h), IsStopped(h) \/ IsRunning(h)
  PROVE  /\ Method(h) /\ seen'[h] \in States
         /\ \/ stage[h] = "isstopped" /\ op'[h] = op[h] /\ (Turns(h, "check") \/ Turns(h, "isrunning"))
            \/ stage[h] = "isrunning" /\ op'[h] = "restart" /\ Turns(h, "act") /\ Seen(h, "Running")
            \/ stage[h] = "isrunning" /\ op'[h] = op[h] /\ Turns(h, "again")
<1>1. CASE IsStopped(h)
  <2>1. PICK s : Looks(h, s) /\ Go(h, IF s = "Stopped" THEN "check" ELSE "isrunning")
    BY <1>1 DEF IsStopped
  <2>2. Turning(h) /\ (Turns(h, "check") \/ Turns(h, "isrunning"))
    <3>1. out' = out
      BY <1>1 DEF IsStopped
    <3>2. CASE s = "Stopped"
      <4>1. Go(h, "check")
        BY <2>1, <3>2
      <4> QED
        BY <3>1, <4>1, GoCases
    <3>3. CASE s # "Stopped"
      <4>1. Go(h, "isrunning")
        BY <2>1, <3>3
      <4> QED
        BY <3>1, <4>1, GoCases
    <3> QED
      BY <3>2, <3>3
  <2>3. Method(h) /\ op'[h] = op[h] /\ seen'[h] = seen[h]
    BY <1>1, <2>1, <2>2, LookCases, MethodSteps DEF IsStopped
  <2> QED
    BY <1>1, <2>2, <2>3 DEF IsStopped, HostOK
<1>2. CASE IsRunning(h)
  <2>1. PICK s \in {GetState(h), Driver(h).blind} :
          /\ Looks(h, s)
          /\ seen' = [seen EXCEPT ![h] = s]
          /\ IF s = "Running" THEN Go(h, "act") /\ op' = [op EXCEPT ![h] = "restart"]
             ELSE Go(h, "again") /\ UNCHANGED op
    BY <1>2 DEF IsRunning
  <2>2. out' = out /\ UNCHANGED platform /\ Alone /\ stage[h] = "isrunning"
    BY <1>2 DEF IsRunning
  <2>3. s \in States
    BY <2>1, Tables, Steps
  <2>4. Only(seen, seen', h) /\ seen'[h] \in States
    BY <2>1, <2>3 DEF Only, Shape
  <2>5. CASE s = "Running"
    <3>1. Turning(h) /\ Turns(h, "act")
      BY <2>1, <2>2, <2>5, GoCases
    <3>2. Only(op, op', h) /\ op'[h] = "restart"
      BY <2>1, <2>5 DEF Only, Shape
    <3>3. Method(h)
      BY <2>1, <2>2, <2>4, <3>1, <3>2, LookCases DEF Method, Local, Turning, Only, platform, Alone
    <3>4. Seen(h, "Running")
      BY <2>1, <2>5, LookCases DEF Seen
    <3> QED
      BY <2>2, <2>4, <3>1, <3>2, <3>3, <3>4
  <2>6. CASE s # "Running"
    <3>1. Turning(h) /\ Turns(h, "again")
      BY <2>1, <2>2, <2>6, GoCases
    <3>2. Only(op, op', h) /\ op'[h] = op[h]
      BY <2>1, <2>6 DEF Only
    <3>3. Method(h)
      BY <2>1, <2>2, <2>4, <3>1, <3>2, LookCases DEF Method, Local, Turning, Only, platform, Alone
    <3> QED
      BY <2>2, <2>4, <3>1, <3>2, <3>3
  <2> QED
    BY <2>5, <2>6
<1> QED
  BY <1>1, <1>2

LEMMA EndCases ==
  ASSUME Shape, CommandOK, NEW h \in Hosts, WaitForDocker(h) \/ GetStateForUpgrade(h) \/ Work(h)
  PROVE  /\ Method(h) /\ op'[h] = op[h] /\ seen'[h] = seen[h]
         /\ \/ Sends(h, "err")
            \/ stage[h] = "docker" /\ cmd = "restart" /\ Turns(h, "again")
            \/ stage[h] \in {"docker", "again"} /\ cmd = "upgrade" /\ Turns(h, "work")
            \/ stage[h] \in {"docker", "again"} /\ cmd # "upgrade" /\ Reachable(h) /\ Sends(h, "ok")
            \/ stage[h] = "getstate" /\ GetState(h) = "Running" /\ Turns(h, "work")
            \/ stage[h] = "getstate" /\ Turns(h, "check")
            \/ stage[h] = "work" /\ (Reachable(h) \/ cmd = "ip") /\ Sends(h, "ok")
<1>0. \A o : Answer(h, o) => Turning(h) /\ Sends(h, o)
  BY GoCases DEF Answer
<1>1. CASE WaitForDocker(h)
  <2>1. UNCHANGED <<platform, op, seen, faults, blinded>> /\ Alone /\ stage[h] \in {"docker", "again"}
    BY <1>1 DEF WaitForDocker
  <2>2. \/ Answer(h, "err")
        \/ stage[h] = "docker" /\ cmd = "restart" /\ Go(h, "again") /\ UNCHANGED out
        \/ cmd = "upgrade" /\ Go(h, "work") /\ UNCHANGED out
        \/ cmd # "upgrade" /\ Reachable(h) /\ Answer(h, "ok")
    BY <1>1 DEF WaitForDocker
  <2>3. Turning(h)
    BY <1>0, <2>2, GoCases
  <2>4. Method(h) /\ op'[h] = op[h] /\ seen'[h] = seen[h]
    BY <2>1, <2>3, MethodSteps DEF CommandOK
  <2> QED
    BY <1>0, <2>1, <2>2, <2>4, GoCases
<1>2. CASE GetStateForUpgrade(h)
  <2>1. UNCHANGED <<platform, op, seen, blinded>> /\ Alone /\ stage[h] = "getstate" /\ faults' \in 0..MaxFaults
    BY <1>2, PollsAssumption DEF GetStateForUpgrade, Fault, CommandOK
  <2>2. \/ Answer(h, "err")
        \/ GetState(h) = "Running" /\ Go(h, "work") /\ UNCHANGED out
        \/ Go(h, "check") /\ UNCHANGED out
    BY <1>2 DEF GetStateForUpgrade
  <2>3. Turning(h)
    BY <1>0, <2>2, GoCases
  <2>4. Method(h) /\ op'[h] = op[h] /\ seen'[h] = seen[h]
    BY <2>1, <2>3, MethodSteps DEF CommandOK
  <2> QED
    BY <1>0, <2>1, <2>2, <2>4, GoCases
<1>3. CASE Work(h)
  <2>1. UNCHANGED <<platform, op, seen, faults, blinded>> /\ Alone /\ stage[h] = "work"
    BY <1>3 DEF Work
  <2>2. Answer(h, "err") \/ ((Reachable(h) \/ cmd = "ip") /\ Answer(h, "ok"))
    BY <1>3 DEF Work
  <2>3. Turning(h)
    BY <1>0, <2>2
  <2>4. Method(h) /\ op'[h] = op[h] /\ seen'[h] = seen[h]
    BY <2>1, <2>3, MethodSteps DEF CommandOK
  <2> QED
    BY <1>0, <2>1, <2>2, <2>4
<1> QED
  BY <1>1, <1>2, <1>3

\* The upgrade of an image, and the end of an upgrade.
LEMMA IsoCases ==
  ASSUME Shape, CommandOK, NEW h \in Hosts, StopForIso(h) \/ CopyIso(h) \/ RestartService(h)
  PROVE  /\ Method(h) /\ seen'[h] = seen[h]
         /\ \/ /\ StopForIso(h) /\ stage[h] = "work" /\ cmd = "upgrade" /\ Reachable(h)
               /\ op'[h] = "isostop" /\ Turns(h, "act")
            \/ stage[h] = "copyiso" /\ op'[h] = "isostart" /\ Turns(h, "act")
            \/ stage[h] \in {"copyiso", "service"} /\ op'[h] = op[h] /\ Sends(h, "err")
            \/ stage[h] = "service" /\ op'[h] = op[h] /\ Reachable(h) /\ Sends(h, "ok")
<1>0. \A o : Answer(h, o) => Turning(h) /\ Sends(h, o)
  BY GoCases DEF Answer
<1>1. /\ UNCHANGED <<platform, seen, faults, blinded>> /\ Alone
      /\ faults' \in 0..MaxFaults /\ blinded' \subseteq Hosts
  BY DEF StopForIso, CopyIso, RestartService, CommandOK
<1>2. ASSUME Turning(h), Only(op, op', h) PROVE Method(h) /\ seen'[h] = seen[h]
  BY <1>1, <1>2 DEF Method, Local, Turning, Only, platform, Alone
<1>3. CASE StopForIso(h)
  <2>1. /\ stage[h] = "work" /\ cmd = "upgrade" /\ Reachable(h) /\ op' = [op EXCEPT ![h] = "isostop"]
        /\ Go(h, "act") /\ out' = out
    BY <1>3 DEF StopForIso
  <2>2. Only(op, op', h) /\ op'[h] = "isostop"
    BY <2>1 DEF Only, Shape
  <2>3. Turning(h) /\ Turns(h, "act")
    BY <2>1, GoCases
  <2> QED
    BY <1>2, <1>3, <2>1, <2>2, <2>3
<1>4. CASE CopyIso(h)
  <2>1. /\ stage[h] = "copyiso"
        /\ \/ op' = [op EXCEPT ![h] = "isostart"] /\ Go(h, "act") /\ out' = out
           \/ Answer(h, "err") /\ op' = op
    BY <1>4 DEF CopyIso
  <2>2. CASE op' = [op EXCEPT ![h] = "isostart"] /\ Go(h, "act") /\ out' = out
    <3>1. Only(op, op', h) /\ op'[h] = "isostart"
      BY <2>2 DEF Only, Shape
    <3>2. Turning(h) /\ Turns(h, "act")
      BY <2>2, GoCases
    <3> QED
      BY <1>2, <2>1, <3>1, <3>2
  <2>3. CASE Answer(h, "err") /\ op' = op
    BY <1>0, <1>2, <2>1, <2>3 DEF Only
  <2> QED
    BY <2>1, <2>2, <2>3
<1>5. CASE RestartService(h)
  <2>1. stage[h] = "service" /\ op' = op /\ ((Reachable(h) /\ Answer(h, "ok")) \/ Answer(h, "err"))
    BY <1>5 DEF RestartService
  <2>2. Only(op, op', h) /\ Turning(h)
    BY <1>0, <2>1 DEF Only
  <2> QED
    BY <1>0, <1>2, <2>1, <2>2
<1> QED
  BY <1>3, <1>4, <1>5

\* The guest is told to reboot.
Tells(h) ==
  /\ Local(h) /\ native'[h] = native[h] /\ up'[h] = up[h] /\ fresh'[h] = fresh[h]
  /\ op'[h] = op[h] /\ seen'[h] = seen[h]
  /\ stage[h] = "work" /\ cmd = "upgrade" /\ Reachable(h) /\ Turns(h, "service")
  /\ doing'[h] = IF doing[h] \in {"on", "off", "reboot"} THEN doing[h] ELSE "guestreboot"
  /\ UNCHANGED <<main, got, saved, faults, blinded, meddled, ignored>>

LEMMA RebootCases ==
  ASSUME Shape, NEW h \in Hosts, RebootGuest(h)
  PROVE  Tells(h)
<1>1. /\ stage[h] = "work" /\ cmd = "upgrade" /\ Reachable(h) /\ Go(h, "service") /\ out' = out
      /\ doing' = [doing EXCEPT ![h] = IF doing[h] \in {"on", "off", "reboot"} THEN doing[h] ELSE "guestreboot"]
      /\ UNCHANGED <<native, up, fresh, op, seen, faults, blinded>> /\ Alone
  BY DEF RebootGuest
<1>2. Turning(h) /\ Turns(h, "service")
  BY <1>1, GoCases
<1>3. /\ Only(doing, doing', h)
      /\ doing'[h] = IF doing[h] \in {"on", "off", "reboot"} THEN doing[h] ELSE "guestreboot"
  BY <1>1 DEF Only, Shape
<1> QED
  BY <1>1, <1>2, <1>3 DEF Tells, Local, Turning, Only, Alone

\* What the platform, the guest or somebody else does to a machine.
Changes(h) ==
  \/ /\ doing[h] \in {"on", "off", "reboot"} /\ native[h] \notin Driver(h).via[doing[h]]
     /\ native'[h] \in Driver(h).via[doing[h]] /\ doing'[h] = doing[h] /\ up'[h] = up[h]
  \/ /\ doing[h] \in Goals /\ doing'[h] = "none"
     /\ up'[h] = (doing[h] \notin {"off", "guestoff"})
     /\ native'[h] = IF up'[h] THEN Driver(h).on ELSE Driver(h).off
  \/ /\ doing[h] \in Goals \ {"guestoff"} /\ doing'[h] = "failed"
     /\ up'[h] = up[h] /\ native'[h] = IF up[h] THEN Driver(h).on ELSE Driver(h).off
  \/ /\ doing[h] \in {"guestoff", "guestreboot"} /\ doing'[h] = "failed"
     /\ up'[h] = up[h] /\ native'[h] = native[h]
  \/ /\ doing[h] = "guestreboot" /\ doing'[h] = "booting" /\ up'[h] = FALSE /\ native'[h] = native[h]
  \/ /\ doing[h] = "booting" /\ doing'[h] = "none" /\ up'[h] = TRUE /\ native'[h] = Driver(h).on
  \/ /\ doing[h] \in {"none", "failed"} /\ doing'[h] = doing[h] /\ h \in meddled'
     /\ up'[h] = (~up[h]) /\ native'[h] = IF up'[h] THEN Driver(h).on ELSE Driver(h).off

\* A guest that comes up is fresh, and stays so.
Renews(h) ==
  /\ fresh[h] => fresh'[h]
  /\ doing'[h] = "none" /\ (doing[h] = "reboot" \/ (doing[h] = "on" /\ ~up[h])) => fresh'[h]

Happens(h) ==
  /\ Local(h) /\ Changes(h) /\ fresh'[h] \in BOOLEAN /\ Renews(h)
  /\ UNCHANGED <<goroutine, main, got, saved, blinded>>
  /\ meddled \subseteq meddled' /\ meddled' \subseteq Hosts /\ ignored' \subseteq Hosts
  /\ faults' \in 0..MaxFaults

LEMMA HappenCases ==
  ASSUME Shape, CommandOK, NEW h \in Hosts, HostOK(h),
         PlatformStep(h) \/ OperationFails(h) \/ GuestIgnores(h) \/ Meddle(h)
  PROVE  Happens(h)
<1>0. /\ fleet' = fleet /\ cmd' = cmd /\ UNCHANGED <<goroutine, main, got, saved, blinded>>
      /\ meddled \subseteq meddled' /\ meddled' \subseteq Hosts /\ ignored' \subseteq Hosts
      /\ faults' \in 0..MaxFaults
  <2>1. CASE PlatformStep(h)
    BY <2>1 DEF PlatformStep, Shows, OperationDone, GuestDown, GuestUp, Outside, CommandOK
  <2>2. CASE OperationFails(h) \/ GuestIgnores(h) \/ Meddle(h)
    BY <2>2, PollsAssumption DEF OperationFails, GuestIgnores, Meddle, Outside, Fault, CommandOK
  <2> QED
    BY <2>1, <2>2
<1>1. ASSUME Only(native, native', h), Only(doing, doing', h), Only(up, up', h), Only(fresh, fresh', h),
             Changes(h), fresh'[h] \in BOOLEAN, Renews(h)
      PROVE  Happens(h)
  <2>1. Local(h)
    BY <1>0, <1>1 DEF Local, Only, goroutine
  <2> QED
    BY <1>0, <1>1, <2>1 DEF Happens
<1>2. ASSUME NEW b, NEW new \in BOOLEAN, Settle(h, b, new)
      PROVE  /\ Only(native, native', h) /\ Only(up, up', h) /\ Only(fresh, fresh', h)
             /\ native'[h] = (IF b THEN Driver(h).on ELSE Driver(h).off) /\ up'[h] = b
             /\ fresh'[h] \in BOOLEAN /\ fresh'[h] = new
  BY <1>2 DEF Settle, Only, Shape
<1>3. CASE Shows(h)
  <2>1. PICK n \in Driver(h).via[doing[h]] : native' = [native EXCEPT ![h] = n]
    BY <1>3 DEF Shows
  <2>2. UNCHANGED <<doing, up, fresh>> /\ doing[h] \in {"on", "off", "reboot"} /\ native[h] \notin Driver(h).via[doing[h]]
    BY <1>3 DEF Shows
  <2>3. Changes(h)
    BY <2>1, <2>2 DEF Changes, Shape
  <2>4. Only(native, native', h) /\ Only(doing, doing', h) /\ Only(up, up', h) /\ Only(fresh, fresh', h)
    BY <2>1, <2>2 DEF Only
  <2> QED
    BY <1>1, <2>2, <2>3, <2>4 DEF HostOK, Renews
<1>4. CASE OperationDone(h)
  <2> DEFINE b == doing[h] \notin {"off", "guestoff"}
             new == fresh[h] \/ doing[h] = "reboot" \/ (doing[h] = "on" /\ ~up[h])
  <2>1. doing[h] \in Goals /\ doing' = [doing EXCEPT ![h] = "none"] /\ Settle(h, b, new)
    BY <1>4 DEF OperationDone, Goals
  <2>2. new \in BOOLEAN
    OBVIOUS
  <2>3. Only(doing, doing', h) /\ doing'[h] = "none"
    BY <2>1 DEF Only, Shape
  <2>4. /\ Only(native, native', h) /\ Only(up, up', h) /\ Only(fresh, fresh', h)
        /\ native'[h] = (IF b THEN Driver(h).on ELSE Driver(h).off) /\ up'[h] = b
        /\ fresh'[h] \in BOOLEAN /\ fresh'[h] = new
    <3> HIDE DEF b, new
    <3> QED
      BY <1>2, <2>1, <2>2
  <2>5. Changes(h)
    BY <2>1, <2>3, <2>4 DEF Changes
  <2>6. Renews(h)
    BY <2>4 DEF Renews
  <2> QED
    BY <1>1, <2>3, <2>4, <2>5, <2>6
<1>5. CASE OperationFails(h)
  <2>1. doing[h] \in Goals \ {"guestoff"} /\ doing' = [doing EXCEPT ![h] = "failed"] /\ Settle(h, up[h], fresh[h])
    BY <1>5 DEF OperationFails, Goals
  <2>2. Only(doing, doing', h) /\ doing'[h] = "failed"
    BY <2>1 DEF Only, Shape
  <2>3. fresh[h] \in BOOLEAN
    BY DEF HostOK
  <2>4. /\ Only(native, native', h) /\ Only(up, up', h) /\ Only(fresh, fresh', h)
        /\ native'[h] = (IF up[h] THEN Driver(h).on ELSE Driver(h).off) /\ up'[h] = up[h]
        /\ fresh'[h] \in BOOLEAN /\ fresh'[h] = fresh[h]
    BY <1>2, <2>1, <2>3
  <2>5. Changes(h)
    BY <2>1, <2>2, <2>4 DEF Changes
  <2>6. Renews(h)
    BY <2>2, <2>4 DEF Renews
  <2> QED
    BY <1>1, <2>2, <2>4, <2>5, <2>6
<1>6. CASE GuestIgnores(h)
  <2>1. /\ doing[h] \in {"guestoff", "guestreboot"} /\ doing' = [doing EXCEPT ![h] = "failed"]
        /\ UNCHANGED <<native, up, fresh>>
    BY <1>6 DEF GuestIgnores
  <2>2. Only(native, native', h) /\ Only(doing, doing', h) /\ Only(up, up', h) /\ Only(fresh, fresh', h)
    BY <2>1 DEF Only
  <2>3. Changes(h)
    BY <2>1 DEF Changes, Shape
  <2> QED
    BY <1>1, <2>1, <2>2, <2>3 DEF HostOK, Renews
<1>7. CASE Meddle(h)
  <2>1. /\ doing[h] \in {"none", "failed"} /\ doing' = doing /\ Settle(h, ~up[h], fresh[h] \/ ~up[h])
        /\ h \in meddled'
    BY <1>7 DEF Meddle
  <2>2. (fresh[h] \/ ~up[h]) \in BOOLEAN
    OBVIOUS
  <2>3. /\ Only(native, native', h) /\ Only(up, up', h) /\ Only(fresh, fresh', h)
        /\ native'[h] = (IF ~up[h] THEN Driver(h).on ELSE Driver(h).off) /\ up'[h] = (~up[h])
        /\ fresh'[h] \in BOOLEAN /\ fresh'[h] = (fresh[h] \/ ~up[h])
    BY <1>2, <2>1, <2>2
  <2>4. Changes(h) /\ Only(doing, doing', h)
    BY <2>1, <2>3 DEF Changes, Only
  <2>5. Renews(h)
    BY <2>1, <2>3 DEF Renews
  <2> QED
    BY <1>1, <2>3, <2>4, <2>5
<1>8. CASE GuestDown(h)
  <2>1. /\ doing[h] = "guestreboot" /\ doing' = [doing EXCEPT ![h] = "booting"]
        /\ up' = [up EXCEPT ![h] = FALSE] /\ UNCHANGED <<native, fresh>>
    BY <1>8 DEF GuestDown
  <2>2. Only(native, native', h) /\ Only(doing, doing', h) /\ Only(up, up', h) /\ Only(fresh, fresh', h)
    BY <2>1 DEF Only
  <2>3. Changes(h)
    BY <2>1 DEF Changes, Shape
  <2> QED
    BY <1>1, <2>1, <2>2, <2>3 DEF HostOK, Renews
<1>9. CASE GuestUp(h)
  <2>1. doing[h] = "booting" /\ doing' = [doing EXCEPT ![h] = "none"] /\ Settle(h, TRUE, TRUE)
    BY <1>9 DEF GuestUp
  <2>2. Only(doing, doing', h) /\ doing'[h] = "none"
    BY <2>1 DEF Only, Shape
  <2>3. /\ Only(native, native', h) /\ Only(up, up', h) /\ Only(fresh, fresh', h)
        /\ native'[h] = Driver(h).on /\ up'[h] = TRUE /\ fresh'[h] = TRUE
    BY <1>2, <2>1
  <2>4. Changes(h) /\ Renews(h)
    BY <2>1, <2>2, <2>3 DEF Changes, Renews
  <2> QED
    BY <1>1, <2>2, <2>3, <2>4
<1> QED
  BY <1>3, <1>4, <1>5, <1>6, <1>7, <1>8, <1>9 DEF PlatformStep

\* The command takes an answer.
LEMMA ReceiveCases ==
  ASSUME Shape, NEW h \in Hosts, Receive(h)
  PROVE  /\ Local(h) /\ UNCHANGED <<platform, op, at, seen, polls, out>>
         /\ stage[h] = "send" /\ stage'[h] = "done" /\ got' = got \cup {h}
         /\ UNCHANGED <<main, saved, faults, blinded, meddled, ignored>>
  BY DEF Receive, Local, Only, Shape, platform

\* The command goes on by itself.
LEMMA RestCases ==
  ASSUME Shape, Goroutines, Saving, CommandOK, Collected \/ SaveHost
  PROVE  CommandOK' /\ UNCHANGED <<fleet, cmd, platform, goroutine, blinded, meddled, ignored>>
<1>1. UNCHANGED <<fleet, cmd, platform, goroutine, got, blinded, meddled, ignored>> /\ Hosts' = Hosts
  BY DEF Collected, SaveHost, Rest, Hosts
<1>2. faults' \in 0..MaxFaults
  BY PollsAssumption DEF Collected, SaveHost, Fault, CommandOK
<1>3. main' \in {"running", "saving", "ok", "error"} /\ saved' \subseteq Hosts
  <2>1. CASE Collected
    BY <2>1 DEF Collected, CommandOK
  <2>2. CASE SaveHost
    <3>1. PICK n \in 0..Len(fleet) - 1 : saved = 1..n
      BY <2>2 DEF SaveHost, Saving
    <3>2. Len(fleet) \in Nat \ {0} /\ Hosts = 1..Len(fleet)
      BY FleetsAssumption DEF Goroutines, Hosts
    <3>3. Cardinality(saved) = n /\ n + 1 \in Hosts
      BY <3>1, <3>2, FS_Interval
    <3> QED
      BY <2>2, <3>3 DEF SaveHost, CommandOK
  <2> QED
    BY <2>1, <2>2
<1> QED
  BY <1>1, <1>2, <1>3 DEF CommandOK

\* The entries of h after a step.
LEMMA ActType ==
  ASSUME Shape, NEW h \in Hosts, HostOK(h), Acts(h), stage[h] = "act"
  PROVE  HostOK(h)'
<1>1. /\ Driver(h)' = Driver(h) /\ Program(h)' = Program(h)
      /\ Len(Program(h)) \in Nat \ {0} /\ DOMAIN Program(h) = 1..Len(Program(h))
  BY Steps DEF Acts, Local, Driver, Program
<1>2. doing'[h] \in {"none", "on", "off", "reboot", "resume", "guestoff", "guestreboot", "booting", "failed"}
  BY Steps DEF Acts, HostOK, Goals
<1>3. stage'[h] \in Stages /\ at'[h] \in 1..Len(Program(h)) /\ polls'[h] \in 0..MaxPolls - 1 /\ out'[h] \in {"none", "ok", "err"}
  BY <1>1, PollsAssumption DEF Acts, Sends, Turns, Stays, Proceeds, HostOK, Stages
<1> QED
  BY <1>1, <1>2, <1>3 DEF Acts, HostOK

LEMMA MethodType ==
  ASSUME Shape, CommandOK, NEW h \in Hosts, HostOK(h), Method(h), seen'[h] \in States,
         op'[h] \in {"start", "stop", "restart", "kill", "isostop", "isostart"}, op'[h] = op[h] \/ at'[h] = 1,
         Sends(h, "ok") \/ Sends(h, "err") \/ Stays(h) \/ \E st \in Stages : Turns(h, st)
  PROVE  HostOK(h)'
<1>1. Driver(h)' = Driver(h) /\ Program(h)' = Driver(h)[Called(op'[h])]
  BY DEF Method, Local, Driver, Program
<1>2. Len(Driver(h)[Called(op'[h])]) \in Nat \ {0}
  BY CalledType, Tables
<1>3. stage'[h] \in Stages /\ polls'[h] \in 0..MaxPolls - 1 /\ out'[h] \in {"none", "ok", "err"}
  BY PollsAssumption DEF Sends, Turns, Stays, HostOK, Stages
<1>4. at'[h] \in 1..Len(Driver(h)[Called(op'[h])])
  BY <1>2 DEF Sends, Turns, Stays, HostOK, Program
<1> QED
  BY <1>1, <1>3, <1>4 DEF Method, HostOK

LEMMA HappenType ==
  ASSUME Shape, NEW h \in Hosts, HostOK(h), Happens(h)
  PROVE  HostOK(h)'
<1>1. Driver(h)' = Driver(h) /\ Program(h)' = Program(h)
  BY DEF Happens, Local, Driver, Program, goroutine
<1>2. native'[h] \in DOMAIN Driver(h).state
  BY Tables DEF Happens, Changes, HostOK
<1>3. doing'[h] \in {"none", "on", "off", "reboot", "resume", "guestoff", "guestreboot", "booting", "failed"} /\ up'[h] \in BOOLEAN
  BY DEF Happens, Changes, HostOK
<1> QED
  BY <1>1, <1>2, <1>3 DEF Happens, HostOK, goroutine

\* Nobody forgets that a lookup failed, or that somebody switched the machine.
Grows == blinded \subseteq blinded' /\ meddled \subseteq meddled'

LEMMA MethodCases ==
  ASSUME Shape, CommandOK, NEW h \in Hosts, HostOK(h), HostStep(h), ~DriverStep(h), ~RebootGuest(h)
  PROVE  Method(h) /\ HostOK(h)'
<1>0. op[h] \in {"start", "stop", "restart", "kill", "isostop", "isostart"} /\ seen[h] \in States
  BY DEF HostOK
<1>1. CASE Check(h)
  <2>1. Method(h) /\ op'[h] = op[h] /\ seen'[h] = seen[h] /\ (Sends(h, "err") \/ Turns(h, "act"))
    BY <1>1, CheckCases
  <2> QED
    BY <1>0, <2>1, MethodType DEF Stages
<1>2. CASE WaitFor(h)
  <2>1. /\ Method(h) /\ op'[h] = op[h] /\ seen'[h] = seen[h]
        /\ \/ Sends(h, "ok") \/ Sends(h, "err") \/ Stays(h) \/ Turns(h, "docker") \/ Turns(h, "again")
           \/ Turns(h, "copyiso") \/ Turns(h, "service")
    BY <1>2, WaitCases
  <2> QED
    BY <1>0, <2>1, MethodType DEF Stages
<1>3. CASE IsStopped(h) \/ IsRunning(h)
  <2>1. /\ Method(h) /\ seen'[h] \in States /\ (op'[h] = op[h] \/ (op'[h] = "restart" /\ at'[h] = 1))
        /\ Turns(h, "check") \/ Turns(h, "isrunning") \/ Turns(h, "act") \/ Turns(h, "again")
    BY <1>0, <1>3, RestartCases DEF Turns
  <2> QED
    BY <1>0, <2>1, MethodType DEF Stages
<1>4. CASE WaitForDocker(h) \/ GetStateForUpgrade(h) \/ Work(h)
  <2>1. /\ Method(h) /\ op'[h] = op[h] /\ seen'[h] = seen[h]
        /\ Sends(h, "ok") \/ Sends(h, "err") \/ Turns(h, "again") \/ Turns(h, "work") \/ Turns(h, "check")
    BY <1>4, EndCases
  <2> QED
    BY <1>0, <2>1, MethodType DEF Stages
<1>5. CASE StopForIso(h) \/ CopyIso(h) \/ RestartService(h)
  <2>1. /\ Method(h) /\ seen'[h] = seen[h]
        /\ op'[h] = op[h] \/ (op'[h] \in {"isostop", "isostart"} /\ at'[h] = 1)
        /\ Sends(h, "ok") \/ Sends(h, "err") \/ Turns(h, "act")
    BY <1>5, IsoCases DEF Turns
  <2> QED
    BY <1>0, <2>1, MethodType DEF Stages
<1> QED
  BY <1>1, <1>2, <1>3, <1>4, <1>5 DEF HostStep

LEMMA TellsType ==
  ASSUME Shape, NEW h \in Hosts, HostOK(h), Tells(h)
  PROVE  HostOK(h)'
<1>1. Driver(h)' = Driver(h) /\ Program(h)' = Program(h) /\ Len(Program(h)) \in Nat \ {0}
  BY Steps DEF Tells, Local, Driver, Program
<1>2. stage'[h] \in Stages /\ at'[h] \in 1..Len(Program(h)) /\ polls'[h] \in 0..MaxPolls - 1
  BY <1>1, PollsAssumption DEF Tells, Turns, Stages
<1> QED
  BY <1>1, <1>2 DEF Tells, Turns, HostOK

\* A step of h, seen from the other hosts and from the command.
Moves(h) == Local(h) /\ HostOK(h)' /\ CommandOK' /\ Grows

LEMMA MoveCases ==
  ASSUME Shape, Goroutines, Saving, TypeOK, Next
  PROVE  \/ \E h \in Hosts : Moves(h)
         \/ CommandOK' /\ UNCHANGED <<fleet, cmd, platform, goroutine, blinded, meddled>>
<1>0. CommandOK /\ \A h \in Hosts : HostOK(h)
  BY TypeParts
<1>1. ASSUME NEW h \in Hosts, DriverStep(h) \/ CallFails(h) PROVE Moves(h)
  <2>1. Acts(h) /\ HostOK(h)' /\ Local(h)
    BY <1>0, <1>1, ActCases, ActType DEF Acts
  <2>2. UNCHANGED <<main, got, saved, blinded, meddled, ignored>> /\ Hosts' = Hosts /\ faults' \in 0..MaxFaults
    BY <1>0, <1>1, PollsAssumption DEF DriverStep, CallFails, Alone, Fault, CommandOK, Hosts
  <2> QED
    BY <1>0, <2>1, <2>2 DEF Moves, Grows, CommandOK
<1>6. ASSUME NEW h \in Hosts, RebootGuest(h) PROVE Moves(h)
  <2>1. Tells(h) /\ HostOK(h)' /\ Hosts' = Hosts
    BY <1>0, <1>6, RebootCases, TellsType DEF Tells, Local, Hosts
  <2> QED
    BY <1>0, <2>1 DEF Moves, Grows, Tells, CommandOK
<1>2. ASSUME NEW h \in Hosts, HostStep(h), ~DriverStep(h), ~RebootGuest(h) PROVE Moves(h)
  <2>1. Method(h) /\ HostOK(h)' /\ Hosts' = Hosts
    BY <1>0, <1>2, MethodCases DEF Method, Local, Hosts
  <2> QED
    BY <1>0, <2>1 DEF Moves, Grows, Method, CommandOK
<1>3. ASSUME NEW h \in Hosts, PlatformStep(h) \/ OperationFails(h) \/ GuestIgnores(h) \/ Meddle(h) PROVE Moves(h)
  <2>1. Happens(h) /\ HostOK(h)' /\ Hosts' = Hosts
    BY <1>0, <1>3, HappenCases, HappenType DEF Happens, Local, Hosts
  <2> QED
    BY <1>0, <2>1 DEF Moves, Grows, Happens, CommandOK
<1>4. ASSUME NEW h \in Hosts, Receive(h) PROVE Moves(h)
  <2>1. /\ Local(h) /\ UNCHANGED <<platform, op, at, seen, polls, out>> /\ stage'[h] = "done"
        /\ got' = got \cup {h} /\ UNCHANGED <<main, saved, faults, blinded, meddled, ignored>>
        /\ Hosts' = Hosts /\ Driver(h)' = Driver(h) /\ Program(h)' = Program(h)
    BY <1>4, ReceiveCases DEF Local, Hosts, Driver, Program
  <2>2. HostOK(h)'
    BY <1>0, <2>1 DEF HostOK, platform, Stages
  <2> QED
    BY <1>0, <2>1, <2>2 DEF Moves, Grows, CommandOK
<1>5. ASSUME Collected \/ SaveHost
      PROVE  CommandOK' /\ UNCHANGED <<fleet, cmd, platform, goroutine, blinded, meddled>>
  BY <1>0, <1>5, RestCases
<1> QED
  BY <1>1, <1>2, <1>3, <1>4, <1>5, <1>6 DEF Next, Progress

\* Nothing happens to any host.
LEMMA AllSame ==
  ASSUME Shape, UNCHANGED <<fleet, cmd, platform, goroutine>>
  PROVE  Shape' /\ Hosts' = Hosts /\ \A g \in Hosts : SameRow(g)
  BY DEF platform, goroutine, Shape, SameRow, Hosts

LEMMA TypeStep ==
  ASSUME Shape, Goroutines, Saving, TypeOK, [Next]_vars
  PROVE  Shape' /\ TypeOK'
<1>0. CommandOK /\ \A h \in Hosts : HostOK(h)
  BY TypeParts
<1>1. ASSUME NEW h \in Hosts, Moves(h) PROVE Shape' /\ TypeOK'
  <2>1. Shape' /\ Hosts' = Hosts /\ fleet' = fleet /\ \A g \in Hosts \ {h} : SameRow(g)
    BY <1>1, LocalRows DEF Moves, Local
  <2>2. ASSUME NEW g \in Hosts PROVE HostOK(g)'
    BY <1>0, <1>1, <2>1, SameType DEF Moves
  <2>3. (\A g \in Hosts : HostOK(g))'
    BY <2>1, <2>2
  <2> QED
    BY <1>1, <2>1, <2>3 DEF Moves, TypeOK, HostOK, CommandOK
<1>2. ASSUME CommandOK', UNCHANGED <<fleet, cmd, platform, goroutine>> PROVE Shape' /\ TypeOK'
  <2>1. Shape' /\ Hosts' = Hosts /\ \A g \in Hosts : SameRow(g)
    BY <1>2, AllSame
  <2>2. (\A g \in Hosts : HostOK(g))'
    BY <1>0, <1>2, <2>1, SameType
  <2> QED
    BY <1>2, <2>1, <2>2 DEF TypeOK, HostOK, CommandOK
<1>3. CASE UNCHANGED vars
  <2>1. CommandOK' /\ UNCHANGED <<fleet, cmd, platform, goroutine>>
    BY <1>0, <1>3 DEF vars, CommandOK, Hosts
  <2> QED
    BY <1>2, <2>1
<1> QED
  BY <1>1, <1>2, <1>3, MoveCases

\* A machine before the command.
LEMMA RestType ==
  ASSUME NEW d \in DOMAIN Platform, NEW m \in AtRest(Platform[d])
  PROVE  /\ m.native \in DOMAIN Platform[d].state /\ m.doing \in {"none", "off"} /\ m.up \in BOOLEAN
         /\ m.doing = "none" =>
              \/ m.native \in Platform[d].other /\ m.up = (m.native \in Platform[d].up)
              \/ m.native = IF m.up THEN Platform[d].on ELSE Platform[d].off
         /\ m.doing = "off" => m.up /\ m.native \in {Platform[d].on} \cup Platform[d].via["off"]
<1>1. /\ {Platform[d].on, Platform[d].off} \cup Platform[d].other \subseteq DOMAIN Platform[d].state
      /\ Platform[d].via["off"] \subseteq DOMAIN Platform[d].state
  BY PlatformAssumption
<1>2. CASE m = [native |-> Platform[d].on, doing |-> "none", up |-> TRUE]
  BY <1>1, <1>2
<1>3. CASE m = [native |-> Platform[d].off, doing |-> "none", up |-> FALSE]
  BY <1>1, <1>3
<1>4. ASSUME NEW n \in Platform[d].other, m = [native |-> n, doing |-> "none", up |-> n \in Platform[d].up]
      PROVE  /\ m.native \in DOMAIN Platform[d].state /\ m.doing = "none" /\ m.up \in BOOLEAN
             /\ m.native \in Platform[d].other /\ m.up = (m.native \in Platform[d].up)
  BY <1>1, <1>4
<1>5. ASSUME NEW n \in {Platform[d].on} \cup Platform[d].via["off"], m = [native |-> n, doing |-> "off", up |-> TRUE]
      PROVE  /\ m.native \in DOMAIN Platform[d].state /\ m.doing = "off" /\ m.up \in BOOLEAN
             /\ m.up /\ m.native \in {Platform[d].on} \cup Platform[d].via["off"]
  BY <1>1, <1>5
<1>6. \/ m = [native |-> Platform[d].on, doing |-> "none", up |-> TRUE]
      \/ m = [native |-> Platform[d].off, doing |-> "none", up |-> FALSE]
      \/ \E n \in Platform[d].other : m = [native |-> n, doing |-> "none", up |-> n \in Platform[d].up]
      \/ \E n \in {Platform[d].on} \cup Platform[d].via["off"] : m = [native |-> n, doing |-> "off", up |-> TRUE]
  BY Zenon DEF AtRest
<1>7. CASE \E n \in Platform[d].other : m = [native |-> n, doing |-> "none", up |-> n \in Platform[d].up]
  BY <1>4, <1>7
<1>8. CASE \E n \in {Platform[d].on} \cup Platform[d].via["off"] : m = [native |-> n, doing |-> "off", up |-> TRUE]
  BY <1>5, <1>8
<1> QED
  BY <1>2, <1>3, <1>6, <1>7, <1>8

\* The hosts at the start.
LEMMA InitRows ==
  ASSUME Init
  PROVE  /\ Shape
         /\ \A h \in Hosts : fleet[h] \in DOMAIN Platform /\ \E m \in AtRest(Driver(h)) :
              native[h] = m.native /\ doing[h] = m.doing /\ up[h] = m.up
         /\ \A h \in Hosts :
              /\ fresh[h] = FALSE /\ stage[h] = First(cmd) /\ at[h] = 1 /\ polls[h] = 0 /\ seen[h] = "None"
              /\ op[h] = (IF cmd \in {"stop", "kill"} THEN cmd ELSE "start") /\ out[h] = "none"
<1>1. PICK m \in [Hosts -> UNION {AtRest(Platform[fleet[h]]) : h \in Hosts}] :
        /\ \A h \in Hosts : m[h] \in AtRest(Platform[fleet[h]])
        /\ native = [h \in Hosts |-> m[h].native]
        /\ doing = [h \in Hosts |-> m[h].doing]
        /\ up = [h \in Hosts |-> m[h].up]
  BY DEF Init, Hosts
<1>2. /\ fleet \in Fleets /\ fresh = [h \in Hosts |-> FALSE] /\ stage = [h \in Hosts |-> First(cmd)]
      /\ op = [h \in Hosts |-> IF cmd \in {"stop", "kill"} THEN cmd ELSE "start"]
      /\ at = [h \in Hosts |-> 1] /\ seen = [h \in Hosts |-> "None"] /\ polls = [h \in Hosts |-> 0]
      /\ out = [h \in Hosts |-> "none"]
  BY DEF Init, Hosts
<1>3. Shape
  BY <1>1, <1>2 DEF Shape
<1>4. ASSUME NEW h \in Hosts PROVE fleet[h] \in DOMAIN Platform
  BY <1>2, FleetsAssumption DEF Hosts
<1>5. ASSUME NEW h \in Hosts
      PROVE  \E r \in AtRest(Driver(h)) : native[h] = r.native /\ doing[h] = r.doing /\ up[h] = r.up
  <2>1. m[h] \in AtRest(Driver(h)) /\ native[h] = m[h].native /\ doing[h] = m[h].doing /\ up[h] = m[h].up
    BY <1>1, <1>5 DEF Driver
  <2> QED
    BY <2>1
<1> QED
  BY <1>2, <1>3, <1>4, <1>5

LEMMA InitType ==
  ASSUME Init
  PROVE  Shape /\ Goroutines /\ Saving /\ TypeOK
<1>1. /\ fleet \in Fleets /\ main = "running" /\ got = {} /\ saved = {} /\ faults = 0 /\ blinded = {}
      /\ ignored = {} /\ meddled \subseteq Hosts
      /\ stage = [h \in Hosts |-> First(cmd)] /\ out = [h \in Hosts |-> "none"]
  BY DEF Init, Hosts
<1>2. First(cmd) \in Stages \ {"send", "done"}
  BY DEF First, Stages
<1>3. Goroutines /\ Saving
  BY <1>1, <1>2 DEF Goroutines, Saving, Stages
<1>4. CommandOK
  BY <1>1, PollsAssumption DEF CommandOK
<1>5. ASSUME NEW h \in Hosts PROVE HostOK(h)
  <2>1. PICK m \in AtRest(Driver(h)) : native[h] = m.native /\ doing[h] = m.doing /\ up[h] = m.up
    BY InitRows
  <2>2. /\ native[h] \in DOMAIN Driver(h).state /\ doing[h] \in {"none", "off"} /\ up[h] \in BOOLEAN
    BY <2>1, RestType, InitRows DEF Driver
  <2>3. op[h] \in {"start", "stop", "restart", "kill", "isostop", "isostart"}
    BY InitRows
  <2>4. at[h] \in 1..Len(Program(h))
    <3>1. Len(Driver(h)[Called(op[h])]) \in Nat \ {0}
      BY <2>3, CalledType, InitRows, Tables
    <3>2. at[h] = 1
      BY InitRows
    <3> QED
      BY <3>1, <3>2 DEF Program
  <2>5. fresh[h] \in BOOLEAN /\ stage[h] \in Stages /\ seen[h] \in States /\ polls[h] \in 0..MaxPolls - 1 /\ out[h] = "none"
    <3>1. fresh[h] = FALSE /\ stage[h] = First(cmd) /\ seen[h] = "None" /\ polls[h] = 0 /\ out[h] = "none"
      BY InitRows
    <3>2. 0 \in 0..MaxPolls - 1
      BY PollsAssumption
    <3> QED
      BY <1>2, <3>1, <3>2 DEF States
  <2> QED
    BY <2>2, <2>3, <2>4, <2>5 DEF HostOK
<1> QED
  BY <1>3, <1>4, <1>5, InitRows, TypeParts

\* TypeOK: a driver operation never runs past its last step, a bounded wait never polls too
\* often, and the answers, the saved hosts and the failures stay within their bounds, for any
\* drivers whose operations have steps and whose states libmachine knows.
THEOREM TypeCorrect == Spec => []TypeOK
<1>1. Init => Shape /\ Goroutines /\ Saving /\ TypeOK
  BY InitType
<1>2. Shape /\ Goroutines /\ Saving /\ TypeOK /\ [Next]_vars => (Shape /\ Goroutines /\ Saving /\ TypeOK)'
  BY TypeStep, InvStep
<1> QED
  BY <1>1, <1>2, PTL DEF Spec

--------------------------------------------------------------------------------
(* What the answers of start, upgrade, stop and kill rest on.               *)

\* The platform shows what it is like: a machine at rest is on, off or in one of the other
\* states, and one that is to go down is up until it has.
PlatformInv(h) ==
  /\ doing[h] \in {"none", "failed", "guestoff", "resume"} =>
       \/ native[h] \in Driver(h).other /\ up[h] = (native[h] \in Driver(h).up)
       \/ native[h] = IF up[h] THEN Driver(h).on ELSE Driver(h).off
  /\ doing[h] \in {"off", "guestoff"} => up[h]
  /\ doing[h] = "off" =>
       native[h] \in {Driver(h).on} \cup (Driver(h).other \cap Driver(h).up) \cup Driver(h).via["off"]
  /\ doing[h] \in {"guestreboot", "booting"} => native[h] = Driver(h).on /\ up[h] = (doing[h] = "guestreboot")

\* The driver waits for the platform to finish; or for the guest to go down.
AtFinish(h) == stage[h] = "act" /\ step(h).op = "finish" /\ step(h).fail = "return"
AtWhile(h) == stage[h] = "act" /\ step(h).op = "while" /\ step(h).res = "Running" /\ step(h).fail = "return"

\* The guest was told to reboot, and is not up again yet.
Rebooting(h) == doing[h] \in {"guestreboot", "booting"}

\* A machine that is being started, by start or by upgrade, before or after its image is replaced.
StartInv(h) ==
  /\ op[h] \in {"start", "isostart"} /\ doing[h] # "reboot"
  /\ stage[h] \in {"check", "act", "wait", "docker", "getstate", "work", "service", "send", "done"}
  /\ stage[h] \in {"check", "getstate"} => doing[h] \in {"none", "failed", "off"}
  /\ doing[h] = "off" => native[h] \in Driver(h).via["off"] /\ GetState(h) # "Running"
  /\ doing[h] = "on" =>
       /\ \E i \in DOMAIN Program(h) : AsksFor(fleet[h], "start", i, "on")
       /\ native[h] \in {Driver(h).off} \cup Driver(h).other \cup Driver(h).via["on"]
  /\ stage[h] \in {"act", "wait"} =>
       /\ doing[h] = "guestoff" => AtWhile(h) \/ GetState(h) # "Running"
       /\ doing[h] = "resume" => AtFinish(h)
       /\ ~Rebooting(h)
  /\ stage[h] \in {"docker", "work"} => doing[h] \in {"none", "failed"}
  /\ stage[h] = "service" => doing[h] \in {"none", "failed"} \/ (cmd = "upgrade" /\ Rebooting(h))
  /\ out[h] = "ok" =>
       /\ native[h] = Driver(h).on
       /\ (up[h] /\ doing[h] \in {"none", "failed"}) \/ (cmd = "upgrade" /\ Rebooting(h))

\* A machine that is being stopped, by stop or kill or by upgrade, which replaces its image.
StopInv(h) ==
  /\ (op[h] = cmd /\ cmd \in {"stop", "kill"}) \/ (op[h] = "isostop" /\ cmd = "upgrade")
  /\ stage[h] \in {"check", "act", "wait", "copyiso", "send", "done"}
  /\ stage[h] = "check" => doing[h] \in {"none", "failed", "off"} /\ (doing[h] = "off" => native[h] \in Driver(h).via["off"])
  /\ stage[h] \in {"act", "wait"} /\ doing[h] \in {"on", "resume", "reboot"} => AtFinish(h)
  /\ stage[h] \in {"act", "wait"} /\ doing[h] = "off" =>
       \/ AtFinish(h)
       \/ HonestDown(fleet[h])
       \/ native[h] \in Driver(h).via["off"] /\ GetState(h) # "Stopped"
  /\ stage[h] = "copyiso" => op[h] = "isostop" /\ doing[h] \in {"none", "failed"}
  /\ out[h] = "ok" =>
       op[h] # "isostop" /\ ~up[h] /\ GetState(h) = "Stopped" /\ doing[h] \in {"none", "failed"}

\* Nobody has switched the machine, and the driver has seen it.
Untouched(h) == h \notin meddled /\ h \notin blinded

\* What is known of a host.
AnswerHolds(h) ==
  /\ PlatformInv(h)
  /\ out[h] = "ok" => stage[h] \in {"send", "done"}
  /\ cmd \in {"start", "upgrade"} /\ op[h] # "isostop" /\ Untouched(h) => StartInv(h)
  /\ (cmd \in {"stop", "kill"} \/ op[h] = "isostop") /\ Untouched(h) => StopInv(h)

AnswerInv == \A h \in Hosts : AnswerHolds(h)

\* It depends on the entries of the host, and on whether it was touched.
LEMMA SameAnswer ==
  ASSUME fleet' = fleet, cmd' = cmd, Grows, NEW g, AnswerHolds(g), SameRow(g)
  PROVE  AnswerHolds(g)'
<1>1. /\ Driver(g)' = Driver(g) /\ Program(g)' = Program(g) /\ GetState(g)' = GetState(g) /\ step(g)' = step(g)
  BY DEF SameRow, Driver, Program, GetState, step
<1>2. PlatformInv(g)'
  BY <1>1 DEF AnswerHolds, PlatformInv, SameRow
<1>3. Untouched(g)' => Untouched(g)
  BY DEF Untouched, Grows
<1>4. AtFinish(g)' = AtFinish(g) /\ AtWhile(g)' = AtWhile(g)
  BY <1>1 DEF AtFinish, AtWhile, SameRow
<1>5. StartInv(g) => StartInv(g)'
  BY <1>1, <1>4 DEF StartInv, SameRow, AsksFor, Rebooting
<1>6. StopInv(g) => StopInv(g)'
  BY <1>1, <1>4 DEF StopInv, SameRow, HonestDown
<1> QED
  BY <1>2, <1>3, <1>5, <1>6 DEF AnswerHolds, SameRow

\* What the table says of the driver of a host.
LEMMA Answers ==
  ASSUME Shape, NEW h \in Hosts
  PROVE  /\ Driver(h).state[Driver(h).on] = "Running"
         /\ \A n \in Driver(h).other : Driver(h).state[n] = "Stopped" => n \notin Driver(h).up
         /\ \A i \in DOMAIN Driver(h)["start"] :
              /\ ~AsksFor(fleet[h], "start", i, "off") /\ ~AsksFor(fleet[h], "start", i, "reboot")
              /\ AsksFor(fleet[h], "start", i, "guestoff") => WaitsDown(fleet[h], "start", i)
              /\ AsksFor(fleet[h], "start", i, "resume") => Watched(fleet[h], "start", i)
              /\ AsksFor(fleet[h], "start", i, "on") =>
                   \A n \in {Driver(h).off} \cup Driver(h).other \cup Driver(h).via["on"] :
                     Driver(h).state[n] # "Running"
         /\ \A o \in {"stop", "kill"} : \A i \in DOMAIN Driver(h)[o] : \A g \in Goals \ {"guestoff"} :
              AsksFor(fleet[h], o, i, g) => Watched(fleet[h], o, i) \/ (g = "off" /\ HonestDown(fleet[h]))
<1>1. fleet[h] \in DOMAIN Platform
  BY Tables
<1> QED
  BY <1>1, AnswerAssumption DEF Driver

\* The platform's part.
LEMMA PlatformActs ==
  ASSUME Shape, NEW h \in Hosts, HostOK(h), PlatformInv(h), Acts(h)
  PROVE  PlatformInv(h)'
<1>1. Driver(h)' = Driver(h) /\ native'[h] = native[h] /\ up'[h] = up[h]
  BY DEF Acts, Local, Driver
<1>2. CASE doing'[h] = doing[h] \/ (doing[h] = "failed" /\ doing'[h] = "none")
  BY <1>1, <1>2 DEF PlatformInv
<1>3. CASE /\ Accepts(h, step(h).res) /\ step(h).op = "ask"
           /\ doing'[h] = IF Idle(h, step(h).res) THEN "none" ELSE step(h).res
  <2>1. doing[h] \in {"none", "failed", "guestoff"} /\ (step(h).res = "guestoff" => up[h])
    BY <1>3 DEF Accepts
  <2>2. \/ native[h] \in Driver(h).other /\ up[h] = (native[h] \in Driver(h).up)
        \/ native[h] = IF up[h] THEN Driver(h).on ELSE Driver(h).off
    BY <2>1 DEF PlatformInv
  <2>3. doing'[h] = "off" => up[h]
    BY <1>3 DEF Idle
  <2>4. doing'[h] = "guestoff" => up[h]
    BY <1>3, <2>1
  <2>5. doing'[h] \notin {"guestreboot", "booting"}
    BY <1>3, Steps DEF Goals
  <2> QED
    BY <1>1, <2>2, <2>3, <2>4, <2>5 DEF PlatformInv
<1> QED
  BY <1>2, <1>3 DEF Acts

LEMMA PlatformHappens ==
  ASSUME Shape, NEW h \in Hosts, HostOK(h), PlatformInv(h), Happens(h)
  PROVE  PlatformInv(h)'
<1>1. Driver(h)' = Driver(h)
  BY DEF Happens, Local, Driver
<1> QED
  BY <1>1 DEF Happens, Changes, PlatformInv, HostOK, Goals

LEMMA PlatformMethod ==
  ASSUME Shape, NEW h \in Hosts, PlatformInv(h), Method(h)
  PROVE  PlatformInv(h)'
<1>1. Driver(h)' = Driver(h)
  BY DEF Method, Local, Driver
<1> QED
  BY <1>1 DEF Method, PlatformInv

LEMMA PlatformTells ==
  ASSUME Shape, NEW h \in Hosts, HostOK(h), PlatformInv(h), Tells(h)
  PROVE  PlatformInv(h)'
<1>1. Driver(h)' = Driver(h)
  BY DEF Tells, Local, Driver
<1>2. doing[h] \notin {"on", "off", "reboot"} => native[h] = Driver(h).on /\ up[h] = TRUE
  BY DEF Tells, Reachable, PlatformInv, HostOK
<1> QED
  BY <1>1, <1>2 DEF Tells, PlatformInv

\* A step of the driver's Start.
LEMMA StartActs ==
  ASSUME Shape, NEW h \in Hosts, HostOK(h), PlatformInv(h), StartInv(h), Acts(h), stage[h] = "act", out[h] # "ok"
  PROVE  StartInv(h)'
<1>1. /\ Driver(h)' = Driver(h) /\ Program(h)' = Program(h) /\ GetState(h)' = GetState(h) /\ fleet' = fleet
      /\ native'[h] = native[h] /\ up'[h] = up[h] /\ op'[h] = op[h] /\ op[h] \in {"start", "isostart"}
      /\ Program(h) = Platform[fleet[h]]["start"] /\ at[h] \in DOMAIN Program(h) /\ cmd' = cmd
  BY Steps DEF Acts, Local, Driver, Program, GetState, StartInv, Called
<1>2. stage'[h] \in {"act", "wait", "send"} /\ out'[h] # "ok"
  BY DEF Acts, Sends, Turns, Stays, Proceeds
<1>3. \/ doing'[h] = doing[h] \/ doing'[h] = "none"
      \/ /\ doing'[h] = step(h).res /\ step(h).op = "ask" /\ Accepts(h, step(h).res) /\ ~Idle(h, step(h).res)
         /\ at[h] + 1 \in DOMAIN Program(h) => stage'[h] = stage[h] /\ at'[h] = at[h] + 1
  BY DEF Acts
<1>4. CASE doing'[h] = "none"
  BY <1>1, <1>2, <1>4 DEF StartInv, Rebooting
<1>5. CASE doing'[h] = doing[h]
  <2>1. /\ doing'[h] # "reboot"
        /\ doing'[h] = "off" => native[h] \in Driver(h).via["off"] /\ GetState(h) # "Running"
        /\ doing'[h] = "on" =>
             /\ \E i \in DOMAIN Program(h) : AsksFor(fleet[h], "start", i, "on")
             /\ native[h] \in {Driver(h).off} \cup Driver(h).other \cup Driver(h).via["on"]
    BY <1>5 DEF StartInv
  <2>2. ASSUME stage'[h] \in {"act", "wait"}, doing'[h] = "guestoff" PROVE AtWhile(h)' \/ GetState(h) # "Running"
    <3>1. AtWhile(h) \/ GetState(h) # "Running"
      BY <1>5, <2>2 DEF StartInv
    <3>2. CASE AtWhile(h) /\ Stays(h)
      BY <1>1, <3>2 DEF AtWhile, Stays, step
    <3>3. CASE AtWhile(h) /\ ~Stays(h)
      BY <2>2, <3>3 DEF AtWhile, Acts, Sends
    <3> QED
      BY <3>1, <3>2, <3>3
  <2>3. ASSUME stage'[h] \in {"act", "wait"}, doing'[h] = "resume" PROVE AtFinish(h)'
    <3>1. AtFinish(h)
      BY <1>5, <2>3 DEF StartInv
    <3>2. Stays(h)
      BY <1>5, <2>3, <3>1 DEF AtFinish, Acts, Sends
    <3> QED
      BY <1>1, <3>1, <3>2 DEF AtFinish, Stays, step
  <2>4. ~Rebooting(h)'
    BY <1>5 DEF StartInv, Rebooting
  <2> QED
    BY <1>1, <1>2, <2>1, <2>2, <2>3, <2>4 DEF StartInv
<1>6. CASE /\ doing'[h] = step(h).res /\ step(h).op = "ask" /\ Accepts(h, step(h).res) /\ ~Idle(h, step(h).res)
           /\ at[h] + 1 \in DOMAIN Program(h) => stage'[h] = stage[h] /\ at'[h] = at[h] + 1
  <2>1. AsksFor(fleet[h], "start", at[h], doing'[h])
    BY <1>1, <1>6 DEF AsksFor, step
  <2>2. doing'[h] # "off" /\ doing'[h] # "reboot"
    BY <1>1, <2>1, Answers DEF Driver
  <2>3. doing'[h] = "on" => native[h] \in {Driver(h).off} \cup Driver(h).other
    BY <1>6 DEF Accepts, Idle, PlatformInv
  <2>4. doing'[h] = "on" => \E i \in DOMAIN Program(h) : AsksFor(fleet[h], "start", i, "on")
    BY <1>1, <2>1
  <2>5. ASSUME doing'[h] = "guestoff" PROVE AtWhile(h)'
    <3>1. WaitsDown(fleet[h], "start", at[h])
      BY <1>1, <2>1, <2>5, Answers DEF Driver
    <3>2. at'[h] = at[h] + 1 /\ stage'[h] = "act"
      BY <1>1, <1>6, <3>1 DEF WaitsDown
    <3> QED
      BY <1>1, <3>1, <3>2 DEF WaitsDown, AtWhile, step
  <2>6. ASSUME doing'[h] = "resume" PROVE AtFinish(h)'
    <3>1. Watched(fleet[h], "start", at[h])
      BY <1>1, <2>1, <2>6, Answers DEF Driver
    <3>2. at'[h] = at[h] + 1 /\ stage'[h] = "act"
      BY <1>1, <1>6, <3>1 DEF Watched
    <3> QED
      BY <1>1, <3>1, <3>2 DEF Watched, AtFinish, step
  <2>7. ~Rebooting(h)'
    BY <1>6, Steps DEF Rebooting, Goals
  <2> QED
    BY <1>1, <1>2, <2>2, <2>3, <2>4, <2>5, <2>6, <2>7 DEF StartInv
<1> QED
  BY <1>3, <1>4, <1>5, <1>6

\* The machine while it is being started, and after that.
LEMMA StartHappens ==
  ASSUME Shape, NEW h \in Hosts, HostOK(h), PlatformInv(h), StartInv(h), Happens(h), h \notin meddled'
  PROVE  StartInv(h)'
<1>1. /\ Driver(h)' = Driver(h) /\ Program(h)' = Program(h) /\ fleet' = fleet /\ cmd' = cmd
      /\ stage'[h] = stage[h] /\ op'[h] = op[h] /\ at'[h] = at[h] /\ out'[h] = out[h]
      /\ GetState(h)' = Driver(h).state[native'[h]]
  BY DEF Happens, Local, Driver, Program, GetState, goroutine
<1>2. CASE doing'[h] \in {"none", "failed"}
  <2>1. ASSUME out[h] = "ok" PROVE up'[h] /\ native'[h] = Driver(h).on
    <3>1. doing[h] \in {"none", "failed", "guestreboot", "booting"} /\ native[h] = Driver(h).on
      BY <2>1 DEF StartInv, Rebooting
    <3>2. CASE doing[h] = "guestreboot"
      <4>1. up[h]
        BY <3>2 DEF PlatformInv
      <4> QED
        BY <1>2, <3>1, <3>2, <4>1 DEF Happens, Changes, Goals
    <3>3. CASE doing[h] # "guestreboot"
      BY <1>2, <3>1, <3>3 DEF Happens, Changes, Goals
    <3> QED
      BY <3>2, <3>3
  <2>2. ~Rebooting(h)'
    BY <1>2 DEF Rebooting
  <2> QED
    BY <1>1, <1>2, <2>1, <2>2 DEF StartInv
<1>3. CASE doing'[h] \notin {"none", "failed", "booting"}
  <2>1. /\ doing[h] \in {"on", "off", "reboot"} /\ native[h] \notin Driver(h).via[doing[h]]
        /\ native'[h] \in Driver(h).via[doing[h]] /\ doing'[h] = doing[h] /\ up'[h] = up[h]
    BY <1>3 DEF Happens, Changes
  <2>2. doing[h] = "on" /\ native'[h] \in Driver(h).via["on"]
    BY <2>1 DEF StartInv
  <2>3. ~Rebooting(h)' /\ ~Rebooting(h)
    BY <2>1, <2>2 DEF Rebooting
  <2> QED
    BY <1>1, <2>1, <2>2, <2>3 DEF StartInv
<1>4. CASE doing'[h] = "booting"
  <2>1. doing[h] = "guestreboot" /\ native'[h] = native[h]
    BY <1>4 DEF Happens, Changes, Goals
  <2>2. Rebooting(h) /\ Rebooting(h)'
    BY <1>4, <2>1 DEF Rebooting
  <2>3. stage[h] \in {"service", "send", "done"}
    BY <2>1, <2>2 DEF StartInv
  <2> QED
    BY <1>1, <1>4, <2>1, <2>2, <2>3 DEF StartInv
<1> QED
  BY <1>2, <1>3, <1>4

\* A step of Start or Upgrade itself.
LEMMA StartMethod ==
  ASSUME Shape, CommandOK, NEW h \in Hosts, HostOK(h), PlatformInv(h), StartInv(h), HostStep(h), ~DriverStep(h),
         ~RebootGuest(h), ~StopForIso(h), out[h] = "ok" => stage[h] \in {"send", "done"}, h \notin blinded', cmd \in {"start", "upgrade"}
  PROVE  StartInv(h)'
<1>1. Method(h) /\ out[h] # "ok" /\ stage[h] \notin {"isstopped", "isrunning", "again", "copyiso", "send", "done"}
  <2>1. stage[h] \notin {"send", "done"}
    BY DEF HostStep, Check, WaitFor, IsStopped, IsRunning, WaitForDocker, GetStateForUpgrade, Work, CopyIso, RestartService
  <2> QED
    BY <2>1, MethodCases DEF StartInv
<1>2. /\ Driver(h)' = Driver(h) /\ GetState(h)' = GetState(h) /\ fleet' = fleet /\ cmd' = cmd
      /\ native'[h] = native[h] /\ up'[h] = up[h] /\ doing'[h] = doing[h]
      /\ op[h] \in {"start", "isostart"} /\ Rebooting(h)' = Rebooting(h)
  BY <1>1 DEF StartInv, Rebooting, Method, Local, Driver, GetState
<1>3. ASSUME op'[h] = op[h] PROVE Program(h)' = Program(h)
  BY <1>2, <1>3 DEF Program
<1> DEFINE Resting == doing[h] \in {"none", "failed"}
<1>4. ASSUME op'[h] = op[h], out'[h] # "ok", stage'[h] \in {"act", "wait", "check", "docker", "work", "service", "send"},
             stage'[h] = "check" => doing[h] \in {"none", "failed", "off"},
             stage'[h] \in {"act", "wait"} =>
               \/ doing[h] \in {"none", "failed", "off"}
               \/ stage[h] = "wait" /\ stage'[h] = "wait",
             stage'[h] \in {"docker", "work", "service"} => Resting
      PROVE  StartInv(h)'
  <2>1. (AtWhile(h) => stage[h] = "act") /\ (AtFinish(h) => stage[h] = "act")
    BY DEF AtWhile, AtFinish
  <2>2. doing[h] \in {"none", "failed", "off"} => ~Rebooting(h)
    BY DEF Rebooting
  <2> QED
    BY <1>1, <1>2, <1>3, <1>4, <2>1, <2>2 DEF StartInv
<1>5. ASSUME op'[h] = op[h], Sends(h, "ok"), native[h] = Driver(h).on,
             (Resting /\ up[h]) \/ (cmd = "upgrade" /\ Rebooting(h))
      PROVE  StartInv(h)'
  BY <1>1, <1>2, <1>3, <1>5 DEF StartInv, Sends, Rebooting
<1>6. CASE Check(h)
  <2>1. stage[h] = "check" /\ op'[h] = op[h] /\ (Sends(h, "err") \/ Turns(h, "act"))
    BY <1>6, CheckCases DEF Check
  <2>2. stage'[h] \in {"send", "act"} /\ out'[h] # "ok" /\ doing[h] \in {"none", "failed", "off"}
    BY <1>1, <2>1 DEF Sends, Turns, StartInv
  <2> QED
    BY <1>4, <2>1, <2>2
<1>7. CASE WaitFor(h)
  <2>1. /\ stage[h] = "wait" /\ op'[h] = op[h]
        /\ Sends(h, "err") \/ Stays(h) \/ (GetState(h) = "Running" /\ (Turns(h, "docker") \/ Turns(h, "service")))
    BY <1>1, <1>2, <1>7, WaitCases DEF WaitFor, Seen, Desired
  <2>2. CASE Sends(h, "err") \/ Stays(h)
    <3>1. stage'[h] \in {"send", "wait"} /\ out'[h] # "ok"
      BY <1>1, <2>1, <2>2 DEF Sends, Stays
    <3> QED
      BY <1>4, <2>1, <3>1
  <2>3. CASE GetState(h) = "Running" /\ (Turns(h, "docker") \/ Turns(h, "service"))
    <3>1. doing[h] # "on"
      <4>1. SUFFICES ASSUME doing[h] = "on" PROVE FALSE
        OBVIOUS
      <4>2. PICK i \in DOMAIN Program(h) : AsksFor(fleet[h], "start", i, "on")
        BY <4>1 DEF StartInv
      <4>3. i \in DOMAIN Driver(h)["start"]
        BY <1>2, <4>2 DEF Program, Called
      <4> QED
        BY <2>3, <4>1, <4>2, <4>3, Answers DEF StartInv, GetState
    <3>2. Resting
      BY <2>1, <2>3, <3>1 DEF StartInv, AtWhile, AtFinish, Rebooting, HostOK
    <3>3. stage'[h] \in {"docker", "service"} /\ out'[h] # "ok"
      BY <1>1, <2>3 DEF Turns
    <3> QED
      BY <1>4, <2>1, <3>2, <3>3
  <2> QED
    BY <2>1, <2>2, <2>3
<1>8. CASE WaitForDocker(h) \/ GetStateForUpgrade(h) \/ Work(h)
  <2>1. /\ op'[h] = op[h]
        /\ \/ Sends(h, "err")
           \/ stage[h] = "docker" /\ Turns(h, "work")
           \/ stage[h] = "getstate" /\ GetState(h) = "Running" /\ Turns(h, "work")
           \/ stage[h] = "getstate" /\ Turns(h, "check")
           \/ stage[h] \in {"docker", "work"} /\ Reachable(h) /\ Sends(h, "ok")
    BY <1>1, <1>8, EndCases
  <2>2. stage[h] \in {"docker", "work"} => Resting
    BY DEF StartInv
  <2>3. stage[h] = "getstate" => doing[h] \in {"none", "failed", "off"} /\ (GetState(h) = "Running" => Resting)
    BY DEF StartInv
  <2>4. CASE ~Sends(h, "ok")
    <3>1. out'[h] # "ok" /\ stage'[h] \in {"send", "work", "check"}
      BY <1>1, <2>1, <2>4 DEF Sends, Turns
    <3>2. stage'[h] = "check" => stage[h] = "getstate"
      BY <2>1, <2>4 DEF Sends, Turns
    <3>3. stage'[h] = "work" => Resting
      BY <2>1, <2>2, <2>3, <2>4 DEF Sends, Turns
    <3> QED
      BY <1>4, <2>1, <2>3, <3>1, <3>2, <3>3
  <2>5. CASE Sends(h, "ok")
    <3>1. stage[h] \in {"docker", "work"} /\ Reachable(h)
      BY <1>1, <2>1, <2>5 DEF Sends, Turns
    <3>2. Resting /\ up[h] /\ native[h] = Driver(h).on
      BY <2>2, <3>1 DEF Reachable, PlatformInv
    <3> QED
      BY <1>5, <2>1, <2>5, <3>2 DEF Sends
  <2> QED
    BY <2>4, <2>5
<1>9. CASE RestartService(h)
  <2>1. stage[h] = "service" /\ op'[h] = op[h] /\ (Sends(h, "err") \/ (Reachable(h) /\ Sends(h, "ok")))
    BY <1>9, IsoCases DEF RestartService
  <2>2. Resting \/ (cmd = "upgrade" /\ Rebooting(h))
    BY <2>1 DEF StartInv
  <2>3. CASE Sends(h, "err")
    BY <1>4, <2>1, <2>3 DEF Sends
  <2>4. CASE Reachable(h) /\ Sends(h, "ok")
    <3>1. up[h] /\ native[h] = Driver(h).on
      BY <2>2, <2>4 DEF Reachable, PlatformInv, Rebooting
    <3> QED
      BY <1>5, <2>1, <2>2, <2>4, <3>1
  <2> QED
    BY <2>1, <2>3, <2>4
<1> QED
  BY <1>1, <1>6, <1>7, <1>8, <1>9 DEF HostStep, IsStopped, IsRunning, CopyIso

\* The guest is told to reboot, and the upgrade goes on.
LEMMA StartTells ==
  ASSUME Shape, NEW h \in Hosts, HostOK(h), PlatformInv(h), StartInv(h), Tells(h), out[h] # "ok"
  PROVE  StartInv(h)'
<1>1. /\ doing[h] \in {"none", "failed"} /\ doing'[h] = "guestreboot" /\ stage'[h] = "service" /\ out'[h] # "ok"
      /\ op'[h] = op[h] /\ cmd = "upgrade" /\ cmd' = cmd
  BY DEF Tells, Turns, Local, StartInv
<1>2. Rebooting(h)'
  BY <1>1 DEF Rebooting
<1> QED
  BY <1>1, <1>2 DEF StartInv

\* The machine is stopped for a new image.
LEMMA StopsForIso ==
  ASSUME Shape, CommandOK, NEW h \in Hosts, StartInv(h), StopForIso(h), out[h] # "ok"
  PROVE  StopInv(h)' /\ op'[h] = "isostop"
<1>1. Method(h) /\ stage[h] = "work" /\ cmd = "upgrade" /\ op'[h] = "isostop" /\ Turns(h, "act")
  BY IsoCases DEF StopForIso
<1>2. doing'[h] \in {"none", "failed"} /\ cmd' = "upgrade" /\ stage'[h] = "act" /\ out'[h] # "ok"
  BY <1>1 DEF Method, Local, Turns, StartInv
<1> QED
  BY <1>1, <1>2 DEF StopInv


\* A step of the driver's Stop or Kill.
LEMMA StopActs ==
  ASSUME Shape, NEW h \in Hosts, HostOK(h), PlatformInv(h), StopInv(h), Acts(h), stage[h] = "act", out[h] # "ok"
  PROVE  StopInv(h)'
<1> DEFINE o == Called(op[h])
<1>1. /\ Driver(h)' = Driver(h) /\ Program(h)' = Program(h) /\ GetState(h)' = GetState(h) /\ fleet' = fleet
      /\ native'[h] = native[h] /\ up'[h] = up[h] /\ op'[h] = op[h] /\ cmd' = cmd
      /\ Program(h) = Platform[fleet[h]][o] /\ at[h] \in DOMAIN Program(h)
  BY Steps DEF Acts, Local, Driver, Program, GetState
<1>7. o \in {"stop", "kill"}
  BY DEF StopInv, Called
<1>2. stage'[h] \in {"act", "wait", "send"} /\ out'[h] # "ok"
  BY DEF Acts, Sends, Turns, Stays, Proceeds
<1>3. \/ doing'[h] = doing[h] \/ doing'[h] = "none"
      \/ /\ doing'[h] = step(h).res /\ step(h).op = "ask" /\ Accepts(h, step(h).res) /\ ~Idle(h, step(h).res)
         /\ at[h] + 1 \in DOMAIN Program(h) => stage'[h] = stage[h] /\ at'[h] = at[h] + 1
  BY DEF Acts
<1>4. CASE doing'[h] = "none"
  BY <1>1, <1>2, <1>4 DEF StopInv
<1>5. CASE doing'[h] = doing[h]
  <2>1. ASSUME AtFinish(h), stage'[h] \in {"act", "wait"}, doing[h] \in {"on", "off", "resume", "reboot"}
        PROVE  AtFinish(h)'
    <3>1. Stays(h)
      BY <2>1 DEF AtFinish, Acts, Sends
    <3> QED
      BY <1>1, <2>1, <3>1 DEF AtFinish, Stays, step
  <2>2. HonestDown(fleet[h])' = HonestDown(fleet[h])
    BY <1>1 DEF HonestDown
  <2> QED
    BY <1>1, <1>2, <1>5, <2>1, <2>2 DEF StopInv
<1>6. CASE /\ doing'[h] = step(h).res /\ step(h).op = "ask" /\ Accepts(h, step(h).res) /\ ~Idle(h, step(h).res)
           /\ at[h] + 1 \in DOMAIN Program(h) => stage'[h] = stage[h] /\ at'[h] = at[h] + 1
  <2>1. AsksFor(fleet[h], o, at[h], doing'[h]) /\ doing'[h] \in Goals
    BY <1>1, <1>6, Steps DEF AsksFor, step
  <2>2. doing'[h] # "guestoff" => Watched(fleet[h], o, at[h]) \/ (doing'[h] = "off" /\ HonestDown(fleet[h]))
    BY <1>1, <1>7, <2>1, Answers DEF Driver
  <2>3. ASSUME Watched(fleet[h], o, at[h]) PROVE AtFinish(h)'
    <3>1. at'[h] = at[h] + 1 /\ stage'[h] = "act"
      BY <1>1, <1>6, <2>3 DEF Watched
    <3> QED
      BY <1>1, <2>3, <3>1 DEF Watched, AtFinish, step
  <2>4. HonestDown(fleet[h])' = HonestDown(fleet[h])
    BY <1>1 DEF HonestDown
  <2> QED
    BY <1>1, <1>2, <2>1, <2>2, <2>3, <2>4 DEF StopInv
<1> QED
  BY <1>3, <1>4, <1>5, <1>6

LEMMA StopHappens ==
  ASSUME Shape, NEW h \in Hosts, HostOK(h), StopInv(h), Happens(h), h \notin meddled'
  PROVE  StopInv(h)'
<1>1. /\ Driver(h)' = Driver(h) /\ Program(h)' = Program(h) /\ fleet' = fleet /\ cmd' = cmd
      /\ stage'[h] = stage[h] /\ op'[h] = op[h] /\ at'[h] = at[h] /\ out'[h] = out[h]
  BY DEF Happens, Local, Driver, Program, goroutine
<1>2. AtFinish(h)' = AtFinish(h) /\ HonestDown(fleet[h])' = HonestDown(fleet[h])
  BY <1>1 DEF AtFinish, HonestDown, step
<1>3. out[h] # "ok"
  BY DEF StopInv, Happens, Changes, Goals
<1>4. CASE doing'[h] \in {"none", "failed"}
  BY <1>1, <1>3, <1>4 DEF StopInv
<1>6. CASE doing'[h] = "booting"
  <2>1. doing[h] = "guestreboot"
    BY <1>6 DEF Happens, Changes, Goals
  <2>2. stage[h] \notin {"check", "copyiso"}
    BY <2>1 DEF StopInv
  <2> QED
    BY <1>1, <1>3, <1>6, <2>2 DEF StopInv
<1>5. CASE doing'[h] \notin {"none", "failed", "booting"}
  <2>1. /\ doing[h] \in {"on", "off", "reboot"} /\ native[h] \notin Driver(h).via[doing[h]]
        /\ native'[h] \in Driver(h).via[doing[h]] /\ doing'[h] = doing[h]
    BY <1>5 DEF Happens, Changes
  <2> QED
    BY <1>1, <1>2, <1>3, <2>1 DEF StopInv
<1> QED
  BY <1>4, <1>5, <1>6

\* A step of Stop or Kill itself; with the new image in place, an upgrade starts the machine.
LEMMA StopMethod ==
  ASSUME Shape, CommandOK, NEW h \in Hosts, HostOK(h), PlatformInv(h), StopInv(h), HostStep(h), ~DriverStep(h),
         out[h] = "ok" => stage[h] \in {"send", "done"}, h \notin blinded'
  PROVE  (op'[h] = op[h] /\ StopInv(h)') \/ (op'[h] = "isostart" /\ cmd = "upgrade" /\ StartInv(h)')
<1>1. Check(h) \/ WaitFor(h) \/ CopyIso(h)
  BY DEF HostStep, Check, WaitFor, IsStopped, IsRunning, WaitForDocker, GetStateForUpgrade, Work,
         StopForIso, CopyIso, RebootGuest, RestartService, StopInv
<1>2. Method(h) /\ out[h] # "ok" /\ stage[h] \in {"check", "wait", "copyiso"} /\ Desired(op[h]) = "Stopped"
  <2>1. stage[h] \in {"check", "wait", "copyiso"}
    BY <1>1 DEF Check, WaitFor, CopyIso
  <2>2. ~RebootGuest(h)
    BY <2>1 DEF RebootGuest
  <2> QED
    BY <2>1, <2>2, MethodCases DEF StopInv, Desired
<1>3. /\ Driver(h)' = Driver(h) /\ GetState(h)' = GetState(h) /\ fleet' = fleet /\ cmd' = cmd
      /\ native'[h] = native[h] /\ up'[h] = up[h] /\ doing'[h] = doing[h]
  BY <1>2 DEF Method, Local, Driver, GetState
<1>4. HonestDown(fleet[h])' = HonestDown(fleet[h])
  BY <1>3 DEF HonestDown
<1>5. CASE Check(h)
  <2>1. stage[h] = "check" /\ op'[h] = op[h] /\ (Sends(h, "err") \/ (Turns(h, "act") /\ GetState(h) # "Stopped"))
    BY <1>2, <1>5, CheckCases DEF Check
  <2>2. /\ stage'[h] \in {"send", "act"} /\ out'[h] # "ok" /\ (stage'[h] = "act" => GetState(h) # "Stopped")
        /\ doing[h] \in {"none", "failed", "off"} /\ (doing[h] = "off" => native[h] \in Driver(h).via["off"])
    BY <1>2, <2>1 DEF Sends, Turns, StopInv
  <2> QED
    BY <1>2, <1>3, <2>1, <2>2 DEF StopInv
<1>6. CASE WaitFor(h)
  <2>1. /\ stage[h] = "wait" /\ op'[h] = op[h]
        /\ \/ Sends(h, "err") \/ Stays(h)
           \/ /\ GetState(h) = "Stopped"
              /\ (op[h] # "isostop" /\ Sends(h, "ok")) \/ (op[h] = "isostop" /\ Turns(h, "copyiso"))
    BY <1>2, <1>6, WaitCases DEF WaitFor, Seen, StopInv
  <2>2. CASE Sends(h, "err")
    BY <1>2, <1>3, <2>1, <2>2 DEF StopInv, Sends
  <2>3. CASE Stays(h)
    <3>1. ~AtFinish(h)
      BY <2>1 DEF AtFinish
    <3> QED
      BY <1>2, <1>3, <1>4, <2>1, <2>3, <3>1 DEF StopInv, Stays
  <2>4. CASE /\ GetState(h) = "Stopped"
             /\ (op[h] # "isostop" /\ Sends(h, "ok")) \/ (op[h] = "isostop" /\ Turns(h, "copyiso"))
    <3>1. native[h] # Driver(h).on /\ (native[h] \in Driver(h).other => native[h] \notin Driver(h).up)
      BY <2>4, Answers DEF GetState
    <3>2. doing[h] \notin {"on", "resume", "reboot"}
      BY <2>1 DEF StopInv, AtFinish
    <3>3. doing[h] # "off"
      BY <2>1, <2>4, <3>1 DEF StopInv, AtFinish, PlatformInv, HonestDown, Driver, GetState
    <3>4. doing[h] # "guestoff"
      BY <3>1 DEF PlatformInv
    <3>5. doing[h] \in {"none", "failed"}
      BY <3>1, <3>2, <3>3, <3>4 DEF HostOK, PlatformInv
    <3>6. ~up[h]
      BY <3>1, <3>5 DEF PlatformInv
    <3> QED
      BY <1>2, <1>3, <2>1, <2>4, <3>5, <3>6 DEF StopInv, Sends, Turns
  <2> QED
    BY <2>1, <2>2, <2>3, <2>4
<1>7. CASE CopyIso(h)
  <2>1. /\ stage[h] = "copyiso"
        /\ (op'[h] = "isostart" /\ Turns(h, "act")) \/ (op'[h] = op[h] /\ Sends(h, "err"))
    BY <1>7, IsoCases DEF CopyIso
  <2>2. op[h] = "isostop" /\ cmd = "upgrade" /\ doing'[h] \in {"none", "failed"} /\ out'[h] # "ok"
    BY <1>2, <1>3, <2>1 DEF StopInv, Sends, Turns
  <2>3. CASE op'[h] = "isostart" /\ Turns(h, "act")
    <3>1. stage'[h] = "act" /\ ~Rebooting(h)'
      BY <2>2, <2>3 DEF Turns, Rebooting
    <3>2. StartInv(h)'
      BY <2>2, <2>3, <3>1 DEF StartInv
    <3> QED
      BY <2>2, <2>3, <3>2
  <2>4. CASE op'[h] = op[h] /\ Sends(h, "err")
    BY <1>3, <2>2, <2>4 DEF StopInv, Sends
  <2> QED
    BY <2>1, <2>3, <2>4
<1> QED
  BY <1>1, <1>5, <1>6, <1>7

\* An answer is sent.
LEMMA OkSent ==
  ASSUME Shape, CommandOK, NEW h \in Hosts, HostOK(h), HostStep(h) \/ CallFails(h),
         out[h] = "ok" => stage[h] \in {"send", "done"}
  PROVE  out[h] # "ok" /\ (out'[h] = "ok" => stage'[h] = "send")
<1>1. out[h] # "ok"
  BY DEF HostStep, Check, WaitFor, IsStopped, IsRunning, WaitForDocker, GetStateForUpgrade, Work,
         StopForIso, CopyIso, RebootGuest, RestartService, DriverStep, CallFails
<1>2. CASE DriverStep(h) \/ CallFails(h)
  BY <1>1, <1>2, ActCases DEF Acts, Sends, Stays, Turns, Proceeds
<1>3. CASE Check(h)
  BY <1>1, <1>3, CheckCases DEF Sends, Turns
<1>4. CASE WaitFor(h)
  BY <1>1, <1>4, WaitCases DEF Sends, Turns, Stays
<1>5. CASE IsStopped(h) \/ IsRunning(h)
  BY <1>1, <1>5, RestartCases DEF Turns
<1>6. CASE WaitForDocker(h) \/ GetStateForUpgrade(h) \/ Work(h)
  BY <1>1, <1>6, EndCases DEF Sends, Turns
<1>7. CASE StopForIso(h) \/ CopyIso(h) \/ RestartService(h)
  BY <1>1, <1>7, IsoCases DEF Sends, Turns
<1>8. CASE RebootGuest(h)
  BY <1>1, <1>8, RebootCases DEF Tells, Turns
<1> QED
  BY <1>1, <1>2, <1>3, <1>4, <1>5, <1>6, <1>7, <1>8 DEF HostStep

\* What is known of h after a step of h.
LEMMA AnswerMoves ==
  ASSUME Shape, CommandOK, NEW h \in Hosts, HostOK(h), AnswerHolds(h),
         \/ HostStep(h) \/ CallFails(h) \/ Receive(h) \/ PlatformStep(h)
         \/ OperationFails(h) \/ GuestIgnores(h) \/ Meddle(h)
  PROVE  Local(h) /\ Grows /\ AnswerHolds(h)'
<1>0. PlatformInv(h) /\ (out[h] = "ok" => stage[h] \in {"send", "done"})
  BY DEF AnswerHolds
<1>1. CASE DriverStep(h) \/ CallFails(h)
  <2>1. Acts(h) /\ stage[h] = "act" /\ Local(h) /\ cmd' = cmd /\ op'[h] = op[h]
    BY <1>1, ActCases DEF Acts, Local
  <2>2. Grows /\ Untouched(h)' = Untouched(h)
    BY <1>1 DEF DriverStep, CallFails, Alone, Grows, Untouched
  <2>3. PlatformInv(h)' /\ out[h] # "ok" /\ (out'[h] = "ok" => stage'[h] = "send")
    BY <1>0, <1>1, <2>1, PlatformActs, OkSent DEF HostStep
  <2>4. StartInv(h) => StartInv(h)'
    BY <1>0, <2>1, <2>3, StartActs
  <2>5. StopInv(h) => StopInv(h)'
    BY <1>0, <2>1, <2>3, StopActs
  <2> QED
    BY <2>1, <2>2, <2>3, <2>4, <2>5 DEF AnswerHolds
<1>5. CASE RebootGuest(h)
  <2>1. Tells(h) /\ Local(h) /\ cmd' = cmd /\ op'[h] = op[h] /\ stage[h] = "work" /\ stage'[h] = "service" /\ out'[h] = out[h]
    BY <1>5, RebootCases DEF Tells, Local, Turns
  <2>2. Grows /\ Untouched(h)' = Untouched(h) /\ out[h] # "ok" /\ ~StopInv(h)
    BY <1>0, <2>1 DEF Tells, Grows, Untouched, StopInv
  <2>3. PlatformInv(h)'
    BY <1>0, <2>1, PlatformTells
  <2>4. StartInv(h) => StartInv(h)'
    BY <1>0, <2>1, <2>2, StartTells
  <2> QED
    BY <2>1, <2>2, <2>3, <2>4 DEF AnswerHolds
<1>2. CASE HostStep(h) /\ ~DriverStep(h) /\ ~RebootGuest(h)
  <2>1. Method(h) /\ Local(h) /\ cmd' = cmd
    BY <1>2, MethodCases DEF Method, Local
  <2>2. Grows /\ (Untouched(h)' => Untouched(h) /\ h \notin blinded')
    BY <2>1 DEF Method, Grows, Untouched
  <2>3. PlatformInv(h)' /\ out[h] # "ok" /\ (out'[h] = "ok" => stage'[h] = "send")
    BY <1>0, <1>2, <2>1, PlatformMethod, OkSent
  <2>4. SUFFICES ASSUME Untouched(h)', cmd \in {"start", "upgrade", "stop", "kill"} \/ op'[h] = "isostop"
                 PROVE  IF cmd \in {"stop", "kill"} \/ op'[h] = "isostop" THEN StopInv(h)' ELSE StartInv(h)'
    BY <2>1, <2>2, <2>3 DEF AnswerHolds
  <2>5. cmd \in {"start", "upgrade", "stop", "kill"} \/ op[h] = "isostop"
    <3>1. op'[h] = op[h] \/ op'[h] # "isostop" \/ StopForIso(h)
      BY <1>2, CheckCases, WaitCases, RestartCases, EndCases, IsoCases DEF HostStep
    <3> QED
      BY <2>4, <3>1 DEF StopForIso
  <2>6. IF cmd \in {"stop", "kill"} \/ op[h] = "isostop" THEN StopInv(h) ELSE StartInv(h)
    BY <2>2, <2>4, <2>5 DEF AnswerHolds
  <2>7. CASE cmd \in {"stop", "kill"} \/ op[h] = "isostop"
    <3>1. (op'[h] = op[h] /\ StopInv(h)') \/ (op'[h] = "isostart" /\ cmd = "upgrade" /\ StartInv(h)')
      BY <1>0, <1>2, <2>2, <2>4, <2>6, <2>7, StopMethod
    <3> QED
      BY <2>7, <3>1
  <2>8. CASE ~(cmd \in {"stop", "kill"} \/ op[h] = "isostop") /\ StopForIso(h)
    <3>1. StopInv(h)' /\ op'[h] = "isostop"
      BY <2>3, <2>6, <2>8, StopsForIso
    <3> QED
      BY <3>1
  <2>9. CASE ~(cmd \in {"stop", "kill"} \/ op[h] = "isostop") /\ ~StopForIso(h)
    <3>1. StartInv(h)'
      BY <1>0, <1>2, <2>2, <2>4, <2>5, <2>6, <2>9, StartMethod
    <3>2. op'[h] # "isostop"
      BY <3>1 DEF StartInv
    <3> QED
      BY <2>9, <3>1, <3>2
  <2> QED
    BY <2>7, <2>8, <2>9
<1>3. CASE Receive(h)
  <2>1. /\ Local(h) /\ UNCHANGED <<platform, op, at, seen, polls, out>> /\ stage[h] = "send" /\ stage'[h] = "done"
        /\ UNCHANGED <<blinded, meddled>> /\ fleet' = fleet /\ cmd' = cmd
    BY <1>3, ReceiveCases DEF Local
  <2>2. Driver(h)' = Driver(h) /\ GetState(h)' = GetState(h) /\ Program(h)' = Program(h)
    BY <2>1 DEF Driver, GetState, Program, platform
  <2>3. PlatformInv(h)'
    BY <1>0, <2>1, <2>2 DEF PlatformInv, platform
  <2>4. StartInv(h) => StartInv(h)'
    BY <2>1, <2>2 DEF StartInv, Rebooting, platform
  <2>5. StopInv(h) => StopInv(h)'
    BY <2>1, <2>2 DEF StopInv, platform
  <2> QED
    BY <2>1, <2>3, <2>4, <2>5 DEF AnswerHolds, Grows, Untouched
<1>4. CASE PlatformStep(h) \/ OperationFails(h) \/ GuestIgnores(h) \/ Meddle(h)
  <2>1. Happens(h) /\ Local(h) /\ cmd' = cmd /\ Grows /\ stage'[h] = stage[h] /\ op'[h] = op[h] /\ out'[h] = out[h]
    BY <1>4, HappenCases DEF Happens, Local, Grows, goroutine
  <2>2. Untouched(h)' => Untouched(h) /\ h \notin meddled'
    BY <2>1 DEF Grows, Untouched
  <2>3. PlatformInv(h)'
    BY <1>0, <2>1, PlatformHappens
  <2>4. StartInv(h) /\ h \notin meddled' => StartInv(h)'
    BY <1>0, <2>1, StartHappens
  <2>5. StopInv(h) /\ h \notin meddled' => StopInv(h)'
    BY <2>1, StopHappens
  <2> QED
    BY <2>1, <2>2, <2>3, <2>4, <2>5 DEF AnswerHolds
<1> QED
  BY <1>1, <1>2, <1>3, <1>4, <1>5

LEMMA AnswerStep ==
  ASSUME Shape, Goroutines, Saving, TypeOK, AnswerInv, [Next]_vars
  PROVE  AnswerInv'
<1>0. CommandOK /\ \A h \in Hosts : HostOK(h) /\ AnswerHolds(h)
  BY TypeParts DEF AnswerInv
<1>1. ASSUME NEW h \in Hosts,
             \/ HostStep(h) \/ CallFails(h) \/ Receive(h) \/ PlatformStep(h)
             \/ OperationFails(h) \/ GuestIgnores(h) \/ Meddle(h)
      PROVE  AnswerInv'
  <2>1. Local(h) /\ Grows /\ AnswerHolds(h)'
    BY <1>0, <1>1, AnswerMoves
  <2>2. Hosts' = Hosts /\ fleet' = fleet /\ cmd' = cmd /\ \A g \in Hosts \ {h} : SameRow(g)
    BY <2>1, LocalRows DEF Local
  <2>3. ASSUME NEW g \in Hosts PROVE AnswerHolds(g)'
    BY <1>0, <2>1, <2>2, SameAnswer
  <2> QED
    BY <2>2, <2>3 DEF AnswerInv
<1>2. ASSUME UNCHANGED <<fleet, cmd, platform, goroutine, blinded, meddled>> PROVE AnswerInv'
  <2>1. Hosts' = Hosts /\ fleet' = fleet /\ cmd' = cmd /\ Grows /\ \A g \in Hosts : SameRow(g)
    BY <1>2, AllSame DEF Grows
  <2>2. ASSUME NEW g \in Hosts PROVE AnswerHolds(g)'
    BY <1>0, <2>1, SameAnswer
  <2> QED
    BY <2>1, <2>2 DEF AnswerInv
<1>3. CASE Collected \/ SaveHost
  BY <1>0, <1>2, <1>3, RestCases
<1>4. CASE UNCHANGED vars
  BY <1>2, <1>4 DEF vars
<1> QED
  BY <1>1, <1>3, <1>4 DEF Next, Progress

LEMMA InitAnswer == Init => AnswerInv
<1> SUFFICES ASSUME Init, NEW h \in Hosts PROVE AnswerHolds(h)
  BY DEF AnswerInv
<1>0. Shape /\ fleet[h] \in DOMAIN Platform
  BY InitRows
<1>1. PICK m \in AtRest(Driver(h)) : native[h] = m.native /\ doing[h] = m.doing /\ up[h] = m.up
  BY InitRows
<1>2. /\ doing[h] \in {"none", "off"}
      /\ doing[h] = "none" =>
           \/ native[h] \in Driver(h).other /\ up[h] = (native[h] \in Driver(h).up)
           \/ native[h] = IF up[h] THEN Driver(h).on ELSE Driver(h).off
      /\ doing[h] = "off" => up[h] /\ native[h] \in {Driver(h).on} \cup Driver(h).via["off"]
  BY <1>0, <1>1, RestType DEF Driver
<1>3. stage[h] = First(cmd) /\ op[h] = (IF cmd \in {"stop", "kill"} THEN cmd ELSE "start") /\ out[h] = "none"
  BY InitRows
<1>4. h \notin meddled /\ doing[h] = "off" => GetState(h) # "Running" /\ native[h] \in Driver(h).via["off"]
  <2>1. meddled = {g \in Hosts : doing[g] = "off" /\ GetState(g) = "Running"}
    BY DEF Init, Hosts, GetState, Driver
  <2>2. GetState(h) # "Running" => native[h] # Driver(h).on
    BY <1>0, Answers DEF GetState
  <2> QED
    BY <1>2, <2>1, <2>2
<1>5. PlatformInv(h)
  BY <1>2 DEF PlatformInv
<1>6. cmd \in {"start", "upgrade"} /\ Untouched(h) => StartInv(h)
  BY <1>2, <1>3, <1>4 DEF StartInv, Untouched, First, Rebooting
<1>7. (cmd \in {"stop", "kill"} \/ op[h] = "isostop") /\ Untouched(h) => StopInv(h)
  BY <1>2, <1>3, <1>4 DEF StopInv, Untouched, First
<1> QED
  BY <1>3, <1>5, <1>6, <1>7 DEF AnswerHolds

\* OkMeansState (host.go:96): a start or upgrade that succeeded has left the machine running, but
\* for the guest that an upgrade told to reboot, and a stop or kill has left it off, however the
\* calls, the polls, the operations of the platform and the other hosts interleave and whatever
\* of it fails.  The drivers enter by AnswerAssumption only: what a state of the platform looks
\* like, and that an operation waits for what it asks for unless the poll can see that it is not
\* done.  The machine that an upgrade stops and starts between its polls is covered by the same
\* invariants as that of stop and of start.
THEOREM AnswersTrue == Spec => []OkMeansState
<1>1. Init => Shape /\ Goroutines /\ Saving /\ TypeOK /\ AnswerInv
  BY InitType, InitAnswer
<1>2. Shape /\ Goroutines /\ Saving /\ TypeOK /\ AnswerInv /\ [Next]_vars
        => (Shape /\ Goroutines /\ Saving /\ TypeOK /\ AnswerInv)'
  BY TypeStep, InvStep, AnswerStep
<1>3. Shape /\ AnswerInv => OkMeansState
  <2> SUFFICES ASSUME Shape, AnswerInv, NEW h \in Hosts
               PROVE  /\ Answered(h, {"start"}) => up[h] /\ GetState(h) = "Running"
                      /\ Answered(h, {"upgrade"}) => (up[h] \/ doing[h] = "booting") /\ GetState(h) = "Running"
                      /\ Answered(h, {"stop", "kill"}) => ~up[h] /\ GetState(h) = "Stopped"
    BY DEF OkMeansState
  <2>1. AnswerHolds(h) /\ Driver(h).state[Driver(h).on] = "Running"
    BY Answers DEF AnswerInv
  <2>4. Answered(h, {"start", "upgrade"}) => StartInv(h) /\ out[h] = "ok" /\ PlatformInv(h)
    BY <2>1 DEF Answered, AnswerHolds, Untouched, StopInv
  <2>2. /\ Answered(h, {"start"}) => up[h] /\ native[h] = Driver(h).on
        /\ Answered(h, {"upgrade"}) => (up[h] \/ doing[h] = "booting") /\ native[h] = Driver(h).on
    BY <2>4 DEF Answered, StartInv, Rebooting, PlatformInv
  <2>3. Answered(h, {"stop", "kill"}) => ~up[h] /\ GetState(h) = "Stopped"
    BY <2>1 DEF Answered, AnswerHolds, Untouched, StopInv
  <2> QED
    BY <2>1, <2>2, <2>3 DEF GetState
<1> QED
  BY <1>1, <1>2, <1>3, PTL DEF Spec
--------------------------------------------------------------------------------
(* What the answer of restart rests on.                                     *)

\* The machine has gone down and came up again, or will when it is switched on.
Down(h) == fresh[h] \/ (~up[h] /\ doing[h] \in {"none", "failed", "on"})

\* It was told to, and has not yet unless it is Down.
Told(h) == doing[h] \in {"off", "reboot", "guestoff", "failed"} \/ Down(h)

\* Nothing was done to it but to ask the guest: it looks like what it is.
Waiting(h) ==
  /\ doing[h] \in {"none", "failed", "guestoff", "resume"}
  /\ native[h] = IF up[h] THEN Driver(h).on ELSE Driver(h).off
  /\ doing[h] = "resume" => up[h]

\* What is known when the restart comes to step i, in each of the three ways to make sure that
\* the machine goes down.
Place(h, i) ==
  LET m == Platform[fleet[h]]["restart"]
  IN /\ \A g \in DOMAIN m : Forced(m, g) => (i = g + 1 => Told(h)) /\ (i > g + 1 => Down(h))
     /\ \A g \in DOMAIN m : WaitedFor(m, g) => (i <= g => Waiting(h)) /\ (i > g => Down(h))
     /\ \A g, b \in DOMAIN m : LookedAt(m, g, b) =>
          /\ i <= g => Waiting(h)
          /\ i = g + 1 => seen[h] = "Running" \/ Down(h)
          /\ i = b + 1 => Told(h)
          /\ i > b + 1 => Down(h)

\* A machine that is being restarted.
RestartInv(h) ==
  /\ stage[h] \in {"isstopped", "isrunning"} =>
       /\ op[h] = "start" /\ doing[h] \in {"none", "failed", "off"}
       /\ doing[h] = "off" => native[h] \in Driver(h).via["off"] /\ GetState(h) # "Running"
  /\ op[h] = "restart" =>
       /\ stage[h] \in {"act", "wait", "again", "send", "done"}
       /\ stage[h] = "act" => Place(h, at[h])
       /\ stage[h] \in {"wait", "again"} => Down(h)
       /\ out[h] = "ok" => fresh[h]

RestartHolds(h) == cmd = "restart" /\ fleet[h] \notin MayBeEager /\ Untouched(h) => RestartInv(h)

\* The next step is the one after n that are left out.
Passes(h, n) ==
  IF at[h] + n + 1 \in DOMAIN Program(h) THEN stage'[h] = stage[h] /\ at'[h] = at[h] + n + 1 ELSE stage'[h] = "wait"

\* How the driver gets past a step.
Past(h, n) ==
  /\ n \in {0, step(h).skip} /\ Passes(h, n) /\ out'[h] = out[h]
  /\ step(h).op \in {"ask", "read"} => n = 0
  /\ step(h).op = "ifseen" => n = IF seen[h] \in step(h).res THEN 0 ELSE step(h).skip
  /\ step(h).op = "read" /\ step(h).fail = "return" => seen'[h] = GetState(h)
  /\ step(h).fail = "return" /\ step(h).op = "ask" =>
       Accepts(h, step(h).res) /\ doing'[h] = IF Idle(h, step(h).res) THEN "none" ELSE step(h).res
  /\ step(h).fail = "return" /\ step(h).op = "finish" => doing[h] = "none"
  /\ step(h).fail = "return" /\ step(h).op = "while" => GetState(h) # step(h).res
  /\ ~(step(h).fail = "return" /\ step(h).op = "unsupported")

\* It stays at a step without a request.
Lasts(h) ==
  /\ Stays(h) /\ seen'[h] = seen[h]
  /\ doing'[h] = doing[h] \/ (doing[h] = "failed" /\ doing'[h] = "none" /\ step(h).fail # "return")

LEMMA AdvancePasses ==
  ASSUME Shape, NEW h \in Hosts, HostOK(h), NEW n \in Nat, Advance(h, n)
  PROVE  Passes(h, n) /\ out'[h] = out[h]
<1>1. /\ Len(Program(h)) \in Nat /\ DOMAIN Program(h) = 1..Len(Program(h)) /\ at[h] \in Nat \ {0}
  BY Steps
<1>2. CASE at[h] + n + 1 > Len(Program(h))
  BY <1>1, <1>2, GoCases DEF Advance, Passes
<1>3. CASE ~(at[h] + n + 1 > Len(Program(h)))
  BY <1>1, <1>3 DEF Advance, Passes, Shape
<1> QED
  BY <1>2, <1>3

\* A step that fails is the end, is tried again, or is passed over.
LEMMA FailsPasses ==
  ASSUME Shape, NEW h \in Hosts, HostOK(h), Fails(h)
  PROVE  \/ Sends(h, "err")
         \/ step(h).fail # "return" /\ (Stays(h) \/ (Passes(h, 0) /\ out'[h] = out[h]))
<1>1. CASE step(h).fail = "return"
  BY <1>1, FailsCases
<1>2. CASE step(h).fail = "ignore"
  BY <1>2, AdvancePasses DEF Fails
<1>3. CASE step(h).fail \notin {"return", "ignore"}
  <2>1. stage' = stage /\ at' = at /\ polls' = polls /\ out' = out
    BY <1>3 DEF Fails
  <2> QED
    BY <1>3, <2>1 DEF Stays, HostOK
<1> QED
  BY <1>1, <1>2, <1>3

\* A step of the driver's Restart ends it, or stays, or gets past.
LEMMA PassCases ==
  ASSUME Shape, NEW h \in Hosts, HostOK(h), DriverStep(h) \/ CallFails(h)
  PROVE  Sends(h, "err") \/ Lasts(h) \/ \E n \in Nat : Past(h, n)
<1>0. step(h).skip \in Nat /\ 0 \in Nat
  BY Steps
<1>1. ASSUME Fails(h), seen' = seen,
             doing'[h] = doing[h] \/ (doing[h] = "failed" /\ doing'[h] = "none")
      PROVE  Sends(h, "err") \/ Lasts(h) \/ (step(h).op # "ifseen" => Past(h, 0))
  BY <1>1, FailsPasses DEF Lasts, Past
<1>2. CASE CallFails(h)
  <2>1. Fails(h) /\ seen' = seen /\ doing' = doing /\ step(h).op # "ifseen"
    BY <1>2 DEF CallFails, platform
  <2> QED
    BY <1>0, <1>1, <2>1
<1>3. CASE Asks(h)
  <2>1. CASE Accepts(h, step(h).res)
    <3>1. /\ doing' = [doing EXCEPT ![h] = IF Idle(h, step(h).res) THEN "none" ELSE step(h).res]
          /\ Advance(h, 0) /\ step(h).op = "ask"
      BY <1>3, <2>1 DEF Asks
    <3>2. doing'[h] = IF Idle(h, step(h).res) THEN "none" ELSE step(h).res
      BY <3>1 DEF Shape
    <3> QED
      BY <1>0, <2>1, <3>1, <3>2, AdvancePasses DEF Past
  <2>2. CASE ~Accepts(h, step(h).res)
    <3>1. Fails(h) /\ seen' = seen /\ doing' = doing /\ step(h).op = "ask"
      BY <1>3, <2>2 DEF Asks
    <3> QED
      BY <1>0, <1>1, <3>1
  <2> QED
    BY <2>1, <2>2
<1>4. CASE Finishes(h)
  <2>1. step(h).op = "finish" /\ doing[h] \in {"none", "failed"} /\ seen' = seen /\ doing'[h] = "none"
    BY <1>4 DEF Finishes, Shape
  <2>2. CASE doing[h] = "failed"
    BY <1>0, <1>1, <1>4, <2>1, <2>2 DEF Finishes
  <2>3. CASE doing[h] = "none"
    BY <1>0, <1>4, <2>1, <2>3, AdvancePasses DEF Finishes, Past
  <2> QED
    BY <2>1, <2>2, <2>3
<1>5. CASE Awaits(h) \/ Lingers(h)
  <2>1. doing' = doing /\ seen' = seen /\ step(h).op \in {"await", "linger"}
    BY <1>5 DEF Awaits, Lingers
  <2>2. Advance(h, 0) \/ (Polled(h) /\ polls[h] + 1 < MaxPolls) \/ Answer(h, "err")
    <3>1. polls[h] + 1 <= MaxPolls /\ polls[h] \in Nat /\ MaxPolls \in Nat
      BY PollsAssumption DEF HostOK
    <3> QED
      BY <1>5, <3>1 DEF Awaits, Lingers
  <2>3. Answer(h, "err") => Sends(h, "err")
    BY GoCases DEF Answer
  <2> QED
    BY <1>0, <2>1, <2>2, <2>3, AdvancePasses, PolledCases DEF Past, Lasts
<1>6. CASE Calls(h) \/ WaitsForEver(h)
  BY <1>0, <1>6, AdvancePasses DEF Calls, WaitsForEver, Past
<1>7. CASE Reaches(h)
  <2>1. doing' = doing /\ seen' = seen /\ step(h).op = "reach" /\ (Advance(h, 0) \/ Fails(h))
    BY <1>7 DEF Reaches
  <2> QED
    BY <1>0, <1>1, <2>1, AdvancePasses DEF Past
<1>8. CASE Reads(h)
  <2>1. seen'[h] = GetState(h) /\ Advance(h, 0) /\ step(h).op = "read"
    BY <1>8 DEF Reads, Shape
  <2> QED
    BY <1>0, <2>1, AdvancePasses DEF Past
<1>9. CASE Branches(h)
  <2>1. doing' = doing /\ seen' = seen
    BY <1>9 DEF Branches
  <2>2. CASE step(h).op = "ifseen"
    <3> DEFINE n == IF seen[h] \in step(h).res THEN 0 ELSE step(h).skip
    <3>1. Advance(h, n) /\ n \in Nat
      BY <1>0, <1>9, <2>2 DEF Branches
    <3>2. Passes(h, n) /\ out'[h] = out[h]
      BY <3>1, AdvancePasses
    <3> QED
      BY <2>2, <3>1, <3>2 DEF Past
  <2>3. CASE step(h).op = "perhaps"
    BY <1>0, <1>9, <2>3, AdvancePasses DEF Branches, Past
  <2>4. CASE step(h).op \in {"ensure", "must"}
    BY <1>0, <1>9, <2>4, AdvancePasses DEF Branches, Past
  <2>5. CASE step(h).op = "unsupported"
    BY <1>0, <1>1, <1>9, <2>1, <2>5 DEF Branches
  <2> QED
    BY <1>9, <2>2, <2>3, <2>4, <2>5 DEF Branches
<1> QED
  BY <1>2, <1>3, <1>4, <1>5, <1>6, <1>7, <1>8, <1>9 DEF DriverStep
\* The restart's program.
LEMMA RestartProgram ==
  ASSUME Shape, NEW h \in Hosts, HostOK(h), op[h] = "restart"
  PROVE  /\ Program(h) = Platform[fleet[h]]["restart"] /\ step(h) = Platform[fleet[h]]["restart"][at[h]]
         /\ DOMAIN Platform[fleet[h]]["restart"] \subseteq Nat \ {0} /\ at[h] \in Nat \ {0}
         /\ at[h] \in DOMAIN Platform[fleet[h]]["restart"] /\ step(h).skip \in Nat
<1>1. Program(h) = Platform[fleet[h]]["restart"] /\ step(h) = Platform[fleet[h]]["restart"][at[h]]
  BY DEF Program, Driver, step, Called
<1> QED
  BY <1>1, Steps

\* What is known of the machine while the driver acts.
LEMMA DownActs ==
  ASSUME Shape, NEW h \in Hosts, HostOK(h), Acts(h), Down(h)
  PROVE  Down(h)'
<1>1. step(h).op = "ask" => step(h).res \in Goals
  BY Steps
<1>2. CASE fresh[h]
  BY <1>2 DEF Acts, Down
<1>3. CASE ~up[h] /\ doing[h] \in {"none", "failed", "on"}
  <2>1. ~up'[h]
    BY <1>3 DEF Acts
  <2>2. doing'[h] \in {"none", "failed", "on"}
    BY <1>1, <1>3 DEF Acts, Accepts, Idle, Goals
  <2> QED
    BY <2>1, <2>2 DEF Down
<1> QED
  BY <1>2, <1>3 DEF Down

LEMMA WaitingActs ==
  ASSUME NEW h \in Hosts, Acts(h), Waiting(h), PlatformInv(h),
         step(h).op = "ask" => step(h).res \in {"guestoff", "resume"}
  PROVE  Waiting(h)'
<1>1. Driver(h)' = Driver(h) /\ native'[h] = native[h] /\ up'[h] = up[h]
  BY DEF Acts, Local, Driver
<1>2. CASE doing'[h] = doing[h] \/ (doing[h] = "failed" /\ doing'[h] = "none")
  BY <1>1, <1>2 DEF Waiting
<1>3. CASE /\ step(h).op = "ask" /\ Accepts(h, step(h).res)
           /\ doing'[h] = IF Idle(h, step(h).res) THEN "none" ELSE step(h).res
  BY <1>1, <1>3 DEF Waiting, Accepts
<1> QED
  BY <1>2, <1>3 DEF Acts

\* And while the platform does.
LEMMA PlaceHappens ==
  ASSUME NEW h \in Hosts, HostOK(h), PlatformInv(h), Happens(h), h \notin meddled'
  PROVE  (Down(h) => Down(h)') /\ (Told(h) => Told(h)') /\ (Waiting(h) => Waiting(h)')
<1>1. Driver(h)' = Driver(h) /\ Changes(h) /\ Renews(h)
  BY DEF Happens, Local, Driver
<1>2. Down(h) => Down(h)'
  BY <1>1 DEF Changes, Renews, Down, Goals
<1>3. Told(h) => Told(h)'
  BY <1>1, <1>2 DEF Changes, Renews, Told, Down, Goals
<1>4. Waiting(h) => Waiting(h)'
  BY <1>1 DEF Changes, Waiting, Goals
<1> QED
  BY <1>2, <1>3, <1>4

\* A machine that is forced down has been told so.
LEMMA ForcePassed ==
  ASSUME Shape, NEW h \in Hosts, HostOK(h), op[h] = "restart", Acts(h), NEW n \in Nat, Past(h, n),
         NEW b, Forces(Platform[fleet[h]]["restart"], b)
  PROVE  /\ at[h] = b => n = 0 /\ Told(h)'
         /\ at[h] = b + 1 /\ Told(h) => Down(h)'
<1>0. step(h) = Platform[fleet[h]]["restart"][at[h]]
  BY RestartProgram
<1>1. ASSUME at[h] = b PROVE n = 0 /\ Told(h)'
  <2>1. step(h).op = "ask" /\ step(h).res \in {"off", "reboot", "guestoff"} /\ step(h).fail = "return"
    BY <1>0, <1>1 DEF Forces
  <2>2. n = 0 /\ doing'[h] = IF Idle(h, step(h).res) THEN "none" ELSE step(h).res
    BY <2>1 DEF Past
  <2>3. Idle(h, step(h).res) => ~up'[h]
    BY <2>1 DEF Idle, Acts
  <2> QED
    BY <2>1, <2>2, <2>3 DEF Told, Down
<1>2. ASSUME at[h] = b + 1, Told(h) PROVE Down(h)'
  <2>1. doing[h] = "none"
    BY <1>0, <1>2 DEF Forces, Past
  <2> QED
    BY <1>2, <2>1, DownActs DEF Told
<1> QED
  BY <1>1, <1>2

\* What is known at the next step.
LEMMA PlacePast ==
  ASSUME Shape, NEW h \in Hosts, HostOK(h), PlatformInv(h), op[h] = "restart", Acts(h), Place(h, at[h]),
         NEW n \in Nat, Past(h, n), NEW j, j = at[h] + n + 1
  PROVE  Place(h, j)'
<1> DEFINE m == Platform[fleet[h]]["restart"]
           i == at[h]
<1>0. /\ DOMAIN m \subseteq Nat \ {0} /\ i \in DOMAIN m /\ i \in Nat /\ m[i] = step(h) /\ m[i].skip \in Nat
      /\ fleet' = fleet /\ j \in Nat /\ i < j
  BY RestartProgram DEF Acts, Local
<1>1. ASSUME NEW g \in DOMAIN m, Unavoidable(m, g), i < g PROVE j <= g
  <2>1. i \in 1..g - 1 /\ n \in {0, m[i].skip} /\ g \in Nat
    BY <1>0, <1>1 DEF Past
  <2>2. i + m[i].skip < g
    BY <1>1, <2>1 DEF Unavoidable
  <2> QED
    BY <1>0, <2>1, <2>2
<1>2. ASSUME NEW g \in DOMAIN m, AsksGuest(m, g), i < g, Waiting(h) PROVE Waiting(h)'
  <2>1. i \in 1..g - 1
    BY <1>0, <1>2
  <2>2. step(h).op = "ask" => step(h).res \in {"guestoff", "resume"}
    BY <1>0, <1>2, <2>1 DEF AsksGuest
  <2> QED
    BY <1>2, <2>2, WaitingActs
<1>3. ASSUME NEW g \in DOMAIN m, Forced(m, g)
      PROVE  (j = g + 1 => Told(h)') /\ (j > g + 1 => Down(h)')
  <2>1. Unavoidable(m, g) /\ Forces(m, g) /\ g \in Nat
    BY <1>0, <1>3 DEF Forced
  <2>2. (i = g + 1 => Told(h)) /\ (i > g + 1 => Down(h))
    BY <1>3 DEF Place
  <2>3. (i = g => n = 0 /\ Told(h)') /\ (i = g + 1 /\ Told(h) => Down(h)')
    BY <2>1, ForcePassed
  <2>4. i > g + 1 => Down(h)'
    BY <2>2, DownActs
  <2>5. i < g => j <= g
    BY <1>1, <2>1
  <2> HIDE DEF m
  <2> QED
    BY <1>0, <2>1, <2>2, <2>3, <2>4, <2>5
<1>4. ASSUME NEW g \in DOMAIN m, WaitedFor(m, g)
      PROVE  (j <= g => Waiting(h)') /\ (j > g => Down(h)')
  <2>1. Unavoidable(m, g) /\ AsksGuest(m, g) /\ g \in Nat
    BY <1>0, <1>4 DEF WaitedFor
  <2>2. (i <= g => Waiting(h)) /\ (i > g => Down(h))
    BY <1>4 DEF Place
  <2>3. i > g => Down(h)'
    BY <2>2, DownActs
  <2>4. i < g => j <= g /\ Waiting(h)'
    BY <1>0, <1>1, <1>2, <2>1, <2>2
  <2>5. ASSUME i = g PROVE Down(h)'
    <3>1. GetState(h) # "Running"
      BY <1>0, <1>4, <2>5 DEF WaitedFor, Past
    <3>2. ~up[h]
      BY <1>0, <2>1, <2>2, <2>5, <3>1, Answers DEF Waiting, GetState
    <3>3. Down(h)
      BY <1>0, <2>1, <2>2, <2>5, <3>2 DEF Waiting, Down, PlatformInv
    <3> QED
      BY <3>3, DownActs
  <2> HIDE DEF m
  <2> QED
    BY <1>0, <2>1, <2>3, <2>4, <2>5
<1>5. ASSUME NEW g \in DOMAIN m, NEW b \in DOMAIN m, LookedAt(m, g, b)
      PROVE  /\ j <= g => Waiting(h)'
             /\ j = g + 1 => seen'[h] = "Running" \/ Down(h)'
             /\ j = b + 1 => Told(h)'
             /\ j > b + 1 => Down(h)'
  <2>1. /\ Unavoidable(m, g) /\ AsksGuest(m, g) /\ Forces(m, b) /\ g \in Nat /\ b \in Nat /\ g + 1 < b
        /\ m[g + 1].op = "ifseen" /\ m[g + 1].res = {"Running"} /\ g + 1 + m[g + 1].skip = b + 1
        /\ \A k \in g + 2..b - 1 : k + m[k].skip < b
    BY <1>0, <1>5 DEF LookedAt
  <2>2. /\ i <= g => Waiting(h)
        /\ i = g + 1 => seen[h] = "Running" \/ Down(h)
        /\ i = b + 1 => Told(h)
        /\ i > b + 1 => Down(h)
    BY <1>5 DEF Place
  <2>3. i < g => j <= g /\ Waiting(h)'
    BY <1>0, <1>1, <1>2, <2>1, <2>2
  <2>4. ASSUME i = g PROVE n = 0 /\ (seen'[h] = "Running" \/ Down(h)')
    <3>1. n = 0 /\ seen'[h] = GetState(h)
      BY <1>0, <1>5, <2>4 DEF LookedAt, Past
    <3>2. Waiting(h)
      BY <1>0, <2>1, <2>2, <2>4
    <3>3. up[h] => seen'[h] = "Running"
      BY <3>1, <3>2, Answers DEF Waiting, GetState
    <3>4. ~up[h] => Down(h)
      BY <3>2 DEF Waiting, Down, PlatformInv
    <3> QED
      BY <3>1, <3>3, <3>4, DownActs DEF HostOK
  <2>5. ASSUME i = g + 1 PROVE j = g + 2 \/ (j = b + 2 /\ Down(h)')
    <3>1. n = IF seen[h] \in {"Running"} THEN 0 ELSE m[i].skip
      BY <1>0, <2>1, <2>5 DEF Past
    <3>2. CASE seen[h] = "Running"
      BY <1>0, <2>1, <2>5, <3>1, <3>2
    <3>3. CASE seen[h] # "Running"
      <4>1. Down(h)'
        BY <2>2, <2>5, <3>3, DownActs
      <4>2. n = m[g + 1].skip
        BY <2>5, <3>1, <3>3
      <4> QED
        BY <1>0, <2>1, <2>5, <4>1, <4>2
    <3> QED
      BY <3>2, <3>3
  <2>6. ASSUME i \in g + 2..b - 1 PROVE j <= b
    <3>1. i + m[i].skip < b /\ n \in {0, m[i].skip}
      BY <1>0, <2>1, <2>6 DEF Past
    <3> QED
      BY <1>0, <2>1, <2>6, <3>1
  <2>7. (i = b => n = 0 /\ Told(h)') /\ (i = b + 1 /\ Told(h) => Down(h)')
    BY <2>1, ForcePassed
  <2>8. i > b + 1 => Down(h)'
    BY <2>2, DownActs
  <2> HIDE DEF m
  <2>9. i < g \/ i = g \/ i = g + 1 \/ i \in g + 2..b - 1 \/ i = b \/ i = b + 1 \/ i > b + 1
    BY <1>0, <2>1
  <2> QED
    BY <1>0, <2>1, <2>2, <2>3, <2>4, <2>5, <2>6, <2>7, <2>8, <2>9
<1>6. (fleet[h])' = fleet[h]
  BY <1>0
<1> QED
  BY <1>3, <1>4, <1>5, <1>6 DEF Place
\* Every way to make sure that the machine goes down is over before the last step is.
LEMMA PlaceEnd ==
  ASSUME NEW d \in DOMAIN Platform \ MayBeEager, NEW j \in Nat \ {0}, j \notin DOMAIN Platform[d]["restart"]
  PROVE  \E g \in DOMAIN Platform[d]["restart"] :
           \/ Forced(Platform[d]["restart"], g) /\ j > g + 1
           \/ WaitedFor(Platform[d]["restart"], g) /\ j > g
           \/ \E b \in DOMAIN Platform[d]["restart"] : LookedAt(Platform[d]["restart"], g, b) /\ j > b + 1
<1> DEFINE m == Platform[d]["restart"]
<1>0. Len(m) \in Nat /\ DOMAIN m = 1..Len(m)
  BY PlatformAssumption DEF Operations
<1>1. j > Len(m)
  BY <1>0
<1>2. PICK g \in DOMAIN m : Forced(m, g) \/ WaitedFor(m, g) \/ \E b \in DOMAIN m : LookedAt(m, g, b)
  BY RestartAssumption
<1>3. ASSUME NEW b, Forces(m, b) PROVE j > b + 1
  <2>1. b \in DOMAIN m /\ b + 1 \in DOMAIN m
    BY <1>3 DEF Forces
  <2> QED
    BY <1>0, <1>1, <2>1
<1>4. j > g
  BY <1>0, <1>1
<1>5. Forced(m, g) => Forces(m, g)
  BY DEF Forced
<1>6. \A b \in DOMAIN m : LookedAt(m, g, b) => Forces(m, b)
  BY DEF LookedAt
<1> QED
  BY <1>2, <1>3, <1>4, <1>5, <1>6

\* What is known at a step that lasts.
LEMMA PlaceLasts ==
  ASSUME Shape, NEW h \in Hosts, HostOK(h), PlatformInv(h), op[h] = "restart", Acts(h), NEW i, i = at[h],
         Place(h, i), Lasts(h)
  PROVE  Place(h, i)'
<1> DEFINE m == Platform[fleet[h]]["restart"]
<1>0. fleet' = fleet /\ seen'[h] = seen[h] /\ step(h) = m[i]
  BY RestartProgram DEF Acts, Local, Lasts
<1>1. Down(h) => Down(h)'
  BY DownActs
<1>2. Waiting(h) => Waiting(h)'
  <2>1. Driver(h)' = Driver(h) /\ native'[h] = native[h] /\ up'[h] = up[h]
    BY <1>0 DEF Acts, Driver
  <2> QED
    BY <2>1 DEF Waiting, Lasts
<1>3. Told(h) /\ step(h).fail = "return" => Told(h)'
  BY <1>1 DEF Told, Lasts
<1>4. \A g \in DOMAIN m : Forces(m, g) /\ i = g + 1 => step(h).fail = "return"
  BY <1>0 DEF Forces
<1>5. ASSUME NEW g \in DOMAIN m, Forced(m, g)
      PROVE  (i = g + 1 => Told(h)') /\ (i > g + 1 => Down(h)')
  BY <1>1, <1>3, <1>4, <1>5 DEF Place, Forced
<1>6. ASSUME NEW g \in DOMAIN m, WaitedFor(m, g)
      PROVE  (i <= g => Waiting(h)') /\ (i > g => Down(h)')
  BY <1>1, <1>2, <1>6 DEF Place
<1>7. ASSUME NEW g \in DOMAIN m, NEW b \in DOMAIN m, LookedAt(m, g, b)
      PROVE  /\ i <= g => Waiting(h)'
             /\ i = g + 1 => seen'[h] = "Running" \/ Down(h)'
             /\ i = b + 1 => Told(h)'
             /\ i > b + 1 => Down(h)'
  <2>1. Forces(m, b)
    BY <1>7 DEF LookedAt
  <2>2. /\ i <= g => Waiting(h)
        /\ i = g + 1 => seen[h] = "Running" \/ Down(h)
        /\ i = b + 1 => Told(h)
        /\ i > b + 1 => Down(h)
    BY <1>7 DEF Place
  <2> QED
    BY <1>0, <1>1, <1>2, <1>3, <1>4, <2>1, <2>2
<1> QED
  BY <1>0, <1>5, <1>6, <1>7 DEF Place

\* A step of the driver's Restart.
LEMMA RestartActs ==
  ASSUME Shape, NEW h \in Hosts, HostOK(h), PlatformInv(h), RestartInv(h), DriverStep(h) \/ CallFails(h),
         out[h] # "ok", fleet[h] \notin MayBeEager
  PROVE  RestartInv(h)'
<1>0. Acts(h) /\ stage[h] = "act" /\ op'[h] = op[h] /\ fleet' = fleet
  BY ActCases DEF Acts, Local
<1>1. stage'[h] \in {"act", "wait", "send"} /\ out'[h] # "ok"
  BY <1>0 DEF Acts, Sends, Turns, Stays, Proceeds
<1>2. CASE op[h] # "restart" \/ Sends(h, "err")
  BY <1>0, <1>1, <1>2 DEF RestartInv, Sends
<1>3. CASE op[h] = "restart" /\ Lasts(h)
  <2>1. PICK i : i = at[h]
    OBVIOUS
  <2>2. Place(h, i)'
    BY <1>0, <1>3, <2>1, PlaceLasts DEF RestartInv
  <2>3. stage'[h] = "act" /\ at'[h] = i
    BY <1>0, <1>3, <2>1 DEF Lasts, Stays
  <2>4. Place(h, at[h])'
    BY <2>2, <2>3
  <2> QED
    BY <1>0, <1>1, <2>3, <2>4 DEF RestartInv
<1>4. ASSUME op[h] = "restart", NEW n \in Nat, Past(h, n) PROVE RestartInv(h)'
  <2>1. PICK j : j = at[h] + n + 1
    OBVIOUS
  <2>2. Place(h, j)'
    BY <1>0, <1>4, <2>1, PlacePast DEF RestartInv
  <2>3. j \in Nat \ {0} /\ Program(h) = Platform[fleet[h]]["restart"]
    BY <1>4, <2>1, RestartProgram
  <2>4. CASE j \in DOMAIN Program(h)
    <3>1. stage'[h] = "act" /\ at'[h] = j
      BY <1>0, <1>4, <2>1, <2>4 DEF Past, Passes
    <3>2. Place(h, at[h])'
      BY <2>2, <3>1
    <3> QED
      BY <1>0, <1>1, <3>1, <3>2 DEF RestartInv
  <2>5. CASE j \notin DOMAIN Program(h)
    <3>1. stage'[h] = "wait"
      BY <1>4, <2>1, <2>5 DEF Past, Passes
    <3>2. Down(h)'
      <4>1. fleet[h] \in DOMAIN Platform \ MayBeEager /\ j \notin DOMAIN Platform[fleet[h]]["restart"]
        BY <2>3, <2>5, Tables
      <4>2. fleet'[h] = fleet[h]
        BY <1>0
      <4> QED
        BY <2>2, <2>3, <4>1, <4>2, PlaceEnd DEF Place
    <3> QED
      BY <1>0, <1>1, <3>1, <3>2 DEF RestartInv
  <2> QED
    BY <2>4, <2>5
<1> QED
  BY <1>2, <1>3, <1>4, PassCases

LEMMA RestartHappens ==
  ASSUME Shape, NEW h \in Hosts, HostOK(h), PlatformInv(h), RestartInv(h), Happens(h), h \notin meddled'
  PROVE  RestartInv(h)'
<1>1. /\ Driver(h)' = Driver(h) /\ fleet' = fleet /\ seen' = seen
      /\ stage'[h] = stage[h] /\ op'[h] = op[h] /\ at'[h] = at[h] /\ out'[h] = out[h]
      /\ GetState(h)' = Driver(h).state[native'[h]]
  BY DEF Happens, Local, Driver, GetState, goroutine
<1>2. (Down(h) => Down(h)') /\ (Told(h) => Told(h)') /\ (Waiting(h) => Waiting(h)')
  BY PlaceHappens
<1>3. Place(h, at[h]) => Place(h, at[h])'
  BY <1>1, <1>2 DEF Place
<1>4. fresh[h] => fresh'[h]
  BY DEF Happens, Renews
<1>5. ASSUME stage[h] \in {"isstopped", "isrunning"}
      PROVE  /\ op'[h] = "start" /\ doing'[h] \in {"none", "failed", "off"}
             /\ doing'[h] = "off" => native'[h] \in Driver(h).via["off"] /\ GetState(h)' # "Running"
  BY <1>1, <1>5 DEF RestartInv, Happens, Changes, Goals
<1> QED
  BY <1>1, <1>2, <1>3, <1>4, <1>5 DEF RestartInv

\* A step of Restart itself: what it sees before it calls the driver, and the wait for Docker.
LEMMA RestartMethod ==
  ASSUME Shape, CommandOK, NEW h \in Hosts, HostOK(h), PlatformInv(h), RestartInv(h), HostStep(h), ~DriverStep(h),
         out[h] = "ok" => stage[h] \in {"send", "done"}, h \notin blinded', cmd = "restart", fleet[h] \notin MayBeEager
  PROVE  RestartInv(h)'
<1>1. Method(h) /\ out[h] # "ok" /\ stage[h] \notin {"send", "done"}
  <2>1. stage[h] \notin {"send", "done"}
    BY DEF HostStep, Check, WaitFor, IsStopped, IsRunning, WaitForDocker, GetStateForUpgrade, Work,
           StopForIso, CopyIso, RebootGuest, RestartService
  <2>2. ~RebootGuest(h)
    BY DEF RebootGuest
  <2> QED
    BY <2>1, <2>2, MethodCases
<1>2. /\ Driver(h)' = Driver(h) /\ GetState(h)' = GetState(h) /\ fleet' = fleet
      /\ native'[h] = native[h] /\ up'[h] = up[h] /\ doing'[h] = doing[h] /\ fresh'[h] = fresh[h]
  BY <1>1 DEF Method, Local, Driver, GetState
<1>3. Down(h)' = Down(h)
  BY <1>2 DEF Down
<1>4. ASSUME op'[h] # "restart", stage'[h] \notin {"isstopped", "isrunning"} PROVE RestartInv(h)'
  BY <1>4 DEF RestartInv
<1>5. CASE Check(h)
  <2>1. stage[h] = "check" /\ op'[h] = op[h] /\ (Sends(h, "err") \/ Turns(h, "act"))
    BY <1>5, CheckCases DEF Check
  <2> QED
    BY <1>4, <2>1 DEF RestartInv, Sends, Turns
<1>6. CASE WaitFor(h)
  <2>1. /\ stage[h] = "wait" /\ op'[h] = op[h]
        /\ \/ Sends(h, "err") \/ Stays(h) \/ Turns(h, "again")
           \/ op[h] # "restart" /\ (Sends(h, "ok") \/ \E st \in {"docker", "copyiso", "service"} : Turns(h, st))
    BY <1>6, WaitCases DEF WaitFor
  <2>2. CASE op[h] # "restart"
    BY <1>4, <2>1, <2>2 DEF Sends, Stays, Turns
  <2>3. CASE op[h] = "restart"
    <3>1. stage'[h] \in {"send", "wait", "again"} /\ out'[h] # "ok" /\ Down(h)'
      BY <1>1, <1>3, <2>1, <2>3 DEF Sends, Stays, Turns, RestartInv
    <3> QED
      BY <3>1 DEF RestartInv
  <2> QED
    BY <2>2, <2>3
<1>7. CASE IsStopped(h) \/ IsRunning(h)
  <2>0. /\ op[h] = "start" /\ doing[h] \in {"none", "failed", "off"}
        /\ doing[h] = "off" => native[h] \in Driver(h).via["off"] /\ GetState(h) # "Running"
    BY <1>7 DEF IsStopped, IsRunning, RestartInv
  <2>1. \/ op'[h] = op[h] /\ (Turns(h, "check") \/ Turns(h, "isrunning") \/ Turns(h, "again"))
        \/ op'[h] = "restart" /\ Turns(h, "act") /\ GetState(h) = "Running"
    BY <1>7, RestartCases DEF Seen
  <2>2. CASE op'[h] = op[h] /\ (Turns(h, "check") \/ Turns(h, "isrunning") \/ Turns(h, "again"))
    BY <1>2, <2>0, <2>2 DEF RestartInv, Turns
  <2>3. CASE op'[h] = "restart" /\ Turns(h, "act") /\ GetState(h) = "Running"
    <3>1. doing[h] \in {"none", "failed"} /\ native[h] \notin Driver(h).other
      <4>1. fleet[h] \in DOMAIN Platform
        BY Tables
      <4>2. \A k \in Driver(h).other : Driver(h).state[k] # "Running"
        BY <4>1, RestartAssumption DEF Driver
      <4> QED
        BY <2>0, <2>3, <4>2 DEF GetState
    <3>2. Waiting(h)'
      BY <1>2, <3>1 DEF Waiting, PlatformInv
    <3>3. stage'[h] = "act" /\ at'[h] = 1 /\ out'[h] # "ok"
      BY <1>1, <2>3 DEF Turns
    <3>4. Place(h, 1)'
      <4> DEFINE m == Platform[fleet[h]]["restart"]
      <4>1. DOMAIN m \subseteq Nat \ {0}
        <5>1. DOMAIN m = 1..Len(m) /\ Len(m) \in Nat
          BY Tables DEF Driver, Operations
        <5> QED
          BY <5>1
      <4>2. \A g \in DOMAIN m : ~(1 = g + 1) /\ ~(1 > g + 1) /\ ~(1 > g)
        BY <4>1
      <4> QED
        BY <1>2, <3>2, <4>2 DEF Place
    <3> QED
      BY <3>3, <3>4 DEF RestartInv
  <2> QED
    BY <2>1, <2>2, <2>3
<1>8. CASE WaitForDocker(h) \/ GetStateForUpgrade(h) \/ Work(h)
  <2>1. /\ op'[h] = op[h]
        /\ \/ Sends(h, "err")
           \/ stage[h] = "docker" /\ Turns(h, "again")
           \/ stage[h] \in {"docker", "again"} /\ Reachable(h) /\ Sends(h, "ok")
           \/ stage[h] = "getstate" /\ (Turns(h, "work") \/ Turns(h, "check"))
           \/ stage[h] = "work" /\ Sends(h, "ok")
    BY <1>8, EndCases
  <2>2. CASE op[h] # "restart"
    BY <1>4, <2>1, <2>2 DEF Sends, Turns
  <2>3. CASE op[h] = "restart"
    <3>1. Sends(h, "err") \/ (stage[h] = "again" /\ Reachable(h) /\ Sends(h, "ok"))
      BY <2>1, <2>3 DEF RestartInv
    <3>2. Sends(h, "ok") => fresh[h]
      BY <2>3, <3>1 DEF Sends, RestartInv, Reachable, Down
    <3> QED
      BY <1>2, <2>1, <2>3, <3>1, <3>2 DEF Sends, RestartInv
  <2> QED
    BY <2>2, <2>3
<1>9. CASE StopForIso(h) \/ CopyIso(h) \/ RebootGuest(h) \/ RestartService(h)
  <2>1. CopyIso(h) \/ RestartService(h)
    BY <1>9 DEF StopForIso, RebootGuest
  <2>2. stage[h] \in {"copyiso", "service"}
    BY <2>1 DEF CopyIso, RestartService
  <2>3. op[h] # "restart"
    BY <2>2 DEF RestartInv
  <2>4. op'[h] \in {op[h], "isostart"} /\ stage'[h] \in {"act", "send"}
    BY <2>1, <2>2, IsoCases DEF Turns, Sends
  <2> QED
    BY <1>4, <2>3, <2>4
<1> QED
  BY <1>5, <1>6, <1>7, <1>8, <1>9 DEF HostStep

\* It depends on the entries of the host, and on whether it was touched.
LEMMA SameRestart ==
  ASSUME fleet' = fleet, cmd' = cmd, Grows, NEW g, RestartHolds(g), SameRow(g)
  PROVE  RestartHolds(g)'
<1>1. Driver(g)' = Driver(g) /\ GetState(g)' = GetState(g)
  BY DEF SameRow, Driver, GetState
<1>2. Untouched(g)' => Untouched(g)
  BY DEF Untouched, Grows
<1>3. (Down(g)' <=> Down(g)) /\ (Told(g)' <=> Told(g)) /\ (Waiting(g)' <=> Waiting(g))
  BY <1>1 DEF Down, Told, Waiting, SameRow
<1>4. Place(g, at[g]) => Place(g, at[g])'
  BY <1>3 DEF Place, SameRow
<1>5. RestartInv(g) => RestartInv(g)'
  BY <1>1, <1>3, <1>4 DEF RestartInv, SameRow
<1> QED
  BY <1>2, <1>5 DEF RestartHolds

\* What is known of h after a step of h.
LEMMA RestartMoves ==
  ASSUME Shape, CommandOK, NEW h \in Hosts, HostOK(h), AnswerHolds(h), RestartHolds(h),
         \/ HostStep(h) \/ CallFails(h) \/ Receive(h) \/ PlatformStep(h)
         \/ OperationFails(h) \/ GuestIgnores(h) \/ Meddle(h)
  PROVE  RestartHolds(h)'
<1>0. /\ PlatformInv(h) /\ (out[h] = "ok" => stage[h] \in {"send", "done"})
      /\ Local(h) /\ Grows /\ fleet' = fleet /\ cmd' = cmd
  BY AnswerMoves DEF AnswerHolds, Local
<1>1. SUFFICES ASSUME cmd = "restart", fleet[h] \notin MayBeEager, Untouched(h)', Untouched(h), RestartInv(h)
               PROVE  RestartInv(h)'
  <2>1. Untouched(h)' => Untouched(h)
    BY <1>0 DEF Untouched, Grows
  <2> QED
    BY <1>0, <2>1 DEF RestartHolds
<1>2. CASE DriverStep(h) \/ CallFails(h)
  <2>1. out[h] # "ok"
    BY <1>0, <1>2, OkSent DEF HostStep
  <2> QED
    BY <1>0, <1>1, <1>2, <2>1, RestartActs
<1>3. CASE HostStep(h) /\ ~DriverStep(h)
  BY <1>0, <1>1, <1>3, RestartMethod DEF Untouched
<1>4. CASE Receive(h)
  <2>1. /\ UNCHANGED <<platform, op, at, seen, polls, out>> /\ stage[h] = "send" /\ stage'[h] = "done"
    BY <1>4, ReceiveCases
  <2> QED
    BY <1>1, <2>1 DEF RestartInv, platform
<1>5. CASE PlatformStep(h) \/ OperationFails(h) \/ GuestIgnores(h) \/ Meddle(h)
  <2>1. Happens(h)
    BY <1>5, HappenCases
  <2> QED
    BY <1>0, <1>1, <2>1, RestartHappens DEF Untouched
<1> QED
  BY <1>2, <1>3, <1>4, <1>5

AllRestarts == \A h \in Hosts : RestartHolds(h)

LEMMA RestartStep ==
  ASSUME Shape, Goroutines, Saving, TypeOK, AnswerInv, AllRestarts, [Next]_vars
  PROVE  AllRestarts'
<1>0. CommandOK /\ \A h \in Hosts : HostOK(h) /\ AnswerHolds(h) /\ RestartHolds(h)
  BY TypeParts DEF AnswerInv, AllRestarts
<1>1. ASSUME NEW h \in Hosts,
             \/ HostStep(h) \/ CallFails(h) \/ Receive(h) \/ PlatformStep(h)
             \/ OperationFails(h) \/ GuestIgnores(h) \/ Meddle(h)
      PROVE  AllRestarts'
  <2>1. Local(h) /\ Grows /\ RestartHolds(h)'
    BY <1>0, <1>1, AnswerMoves, RestartMoves
  <2>2. Hosts' = Hosts /\ fleet' = fleet /\ cmd' = cmd /\ \A g \in Hosts \ {h} : SameRow(g)
    BY <2>1, LocalRows DEF Local
  <2>3. ASSUME NEW g \in Hosts PROVE RestartHolds(g)'
    BY <1>0, <2>1, <2>2, SameRestart
  <2> QED
    BY <2>2, <2>3 DEF AllRestarts
<1>2. ASSUME UNCHANGED <<fleet, cmd, platform, goroutine, blinded, meddled>> PROVE AllRestarts'
  <2>1. Hosts' = Hosts /\ fleet' = fleet /\ cmd' = cmd /\ Grows /\ \A g \in Hosts : SameRow(g)
    BY <1>2, AllSame DEF Grows
  <2>2. ASSUME NEW g \in Hosts PROVE RestartHolds(g)'
    BY <1>0, <2>1, SameRestart
  <2> QED
    BY <2>1, <2>2 DEF AllRestarts
<1>3. CASE Collected \/ SaveHost
  BY <1>0, <1>2, <1>3, RestCases
<1>4. CASE UNCHANGED vars
  BY <1>2, <1>4 DEF vars
<1> QED
  BY <1>1, <1>3, <1>4 DEF Next, Progress

LEMMA InitRestart == Init => AllRestarts
<1> SUFFICES ASSUME Init, NEW h \in Hosts, cmd = "restart", Untouched(h) PROVE RestartInv(h)
  BY DEF AllRestarts, RestartHolds
<1>0. Shape
  BY InitRows
<1>1. PICK m \in AtRest(Driver(h)) : native[h] = m.native /\ doing[h] = m.doing /\ up[h] = m.up
  BY InitRows
<1>2. /\ doing[h] \in {"none", "off"}
      /\ doing[h] = "off" => native[h] \in {Driver(h).on} \cup Driver(h).via["off"]
  BY <1>0, <1>1, RestType, InitRows DEF Driver
<1>3. stage[h] = "isstopped" /\ op[h] = "start"
  BY InitRows DEF First
<1>4. doing[h] = "off" => GetState(h) # "Running" /\ native[h] \in Driver(h).via["off"]
  <2>1. meddled = {g \in Hosts : doing[g] = "off" /\ GetState(g) = "Running"}
    BY DEF Init, Hosts, GetState, Driver
  <2>2. GetState(h) # "Running" => native[h] # Driver(h).on
    BY <1>0, Answers DEF GetState
  <2> QED
    BY <1>2, <2>1, <2>2 DEF Untouched
<1> QED
  BY <1>2, <1>3, <1>4 DEF RestartInv

\* RestartReboots (host.go:153): a restart that found the machine running and succeeded has
\* rebooted it, for every driver whose Restart satisfies RestartAssumption, although the state
\* may be Running all the time and whatever fails in between.
THEOREM RestartsTrue == Spec => []RestartReboots
<1>1. Init => Shape /\ Goroutines /\ Saving /\ TypeOK /\ AnswerInv /\ AllRestarts
  BY InitType, InitAnswer, InitRestart
<1>2. Shape /\ Goroutines /\ Saving /\ TypeOK /\ AnswerInv /\ AllRestarts /\ [Next]_vars
        => (Shape /\ Goroutines /\ Saving /\ TypeOK /\ AnswerInv /\ AllRestarts)'
  BY TypeStep, InvStep, AnswerStep, RestartStep
<1>3. AllRestarts => RestartReboots
  BY DEF AllRestarts, RestartHolds, RestartInv, RestartReboots, Answered, Untouched
<1> QED
  BY <1>1, <1>2, <1>3, PTL DEF Spec
==================================================================================
