------------------------------ MODULE DriverLife ------------------------------
(***************************************************************************)
(* One machine of one driver: `create` and `rm`, repeated, with the        *)
(* failures a driver meets.  A create calls PreCreateCheck, saves the       *)
(* record of the machine, calls Create and saves the record again, now with *)
(* the ids the driver has learnt.  An rm loads the record, calls Remove and *)
(* deletes the record if that succeeds, or if --force is given.             *)
(*                                                                          *)
(* What the drivers do is the constant Table; module Drivers has the real   *)
(* ones.  A resource of the platform is a pair <<kind, id>>.  The id is 0   *)
(* for what is found by its name, and for what a user made; otherwise it is *)
(* the number of the create that made it.                                   *)
(***************************************************************************)
EXTENDS DriverConditions

CONSTANTS
  MaxCreates,  \* bound: creates in a behaviour
  MaxFaults    \* bound: failures, crashes and interventions in a behaviour

ASSUME BoundsAssumption == MaxCreates \in Nat /\ MaxFaults \in Nat

VARIABLES
  driver, opts,  \* the driver, and the flags it was given
  cloud,         \* the resources the platform has
  used,          \* those that somebody else has or uses
  late,          \* those that somebody began to use when the driver was about to delete them
  saved, rec,    \* whether there is a record of the machine, and the ids in it
  phase, at,     \* what the driver is doing ("undo": Create calling Remove), and its next step
  mem,           \* the ids in the driver's fields
  err,           \* an error to be returned at the end
  force,         \* rm --force
  creates,       \* how many creates there were
  faults,        \* how many failures there were
  clean,         \* the command that runs, or ran last, met no failure
  excused,       \* a crash, a lost answer, --force or a failure during "undo" has happened
  last           \* how the last command ended

vars == <<driver, opts, cloud, used, late, saved, rec, phase, at, mem, err, force, creates, faults,
          clean, excused, last>>

T == Table[driver]

Init ==
  /\ driver \in Names
  /\ opts \in T.flags
  /\ \E S \in {{}, T.shared, T.foreign \cap {T.vm}, T.foreign \ {T.vm}} :
       used = {<<r, 0>> : r \in S}
  /\ cloud = used /\ late = {}
  /\ saved = FALSE /\ rec = {} /\ mem = {}
  /\ phase = "idle" /\ at = 1 /\ err = FALSE /\ force = FALSE
  /\ creates = 0 /\ faults = 0
  /\ clean = TRUE /\ excused = FALSE /\ last = "none"

--------------------------------------------------------------------------------
(* One step of a driver.                                                    *)

Steps == CASE phase = "pre" -> T.pre[opts]
           [] phase = "create" -> T.create[opts]
           [] OTHER -> T.remove[opts]

step == Steps[at]

\* Kinds of resources with an id that the platform chooses.
Numbered == T.stored \ T.unique

New(r) == <<r, IF r \in Numbered THEN creates ELSE 0>>

Known(r) == \E x \in mem : x[1] = r

\* What a request about r is about.
Addressed(r) == IF r \in T.stored THEN {x \in mem : x[1] = r} ELSE {<<r, 0>>}

There(r) == Addressed(r) \cap cloud # {}

\* Something uses r: one of the resources here; another machine's.
InUse(r) == \E x \in cloud : <<x[1], r>> \in T.uses
Attached(r) == r \in T.shared /\ Addressed(r) \cap used # {}

\* The platform does not delete what is in use, if it is of a kind that it knows the use of.
Refuses(r) == InUse(r) \/ (Attached(r) /\ \E u \in T.uses : u[2] = r)

\* Wrong variant: a lookup that finds something is not acted on.
NameTakenUnseen(r) == FALSE

\* What the check for a machine of the same name finds.
NameTaken(r) == <<r, 0>> \in cloud

\* Wrong variant: "not found" is an error like any other.
NeverPassedOver == FALSE

\* What is to be deleted is gone, and the driver does not mind.
PassedOver ==
  \/ step.absent \in {"ok", "skip"}
  \/ step.absent = "known" /\ ~Known(step.res)
  \/ step.absent = "byid" /\ Known(step.res)

\* The step succeeds if nothing goes wrong.
Works ==
  CASE step.op = "make" -> New(step.res) \notin cloud
    [] step.op = "mustnot" -> ~NameTaken(step.res)
    [] step.op = "must" -> There(step.res)
    [] step.op = "given" -> <<step.res, 0>> \in cloud
    [] step.op = "unsupported" -> FALSE
    [] step.op = "delete" ->
         IF There(step.res) THEN ~Refuses(step.res) ELSE PassedOver
    [] OTHER -> TRUE

\* The platform after a step that succeeds.
Effect ==
  CASE step.op \in {"make", "ensure"} -> cloud \cup {New(step.res)}
    [] step.op = "delete" -> cloud \ Addressed(step.res)
    [] OTHER -> cloud

\* The driver's fields after it.
Learnt ==
  CASE step.op = "make" /\ step.absent # "unseen" /\ step.res \in T.stored -> mem \cup {New(step.res)}
    [] step.op = "keep" -> mem \cup {IF New(step.res) \in cloud THEN New(step.res) ELSE <<step.res, 0>>}
    [] step.op = "delete" -> mem \ Addressed(step.res)
    [] OTHER -> mem

\* Wrong variant: what others use is not looked at.
LeftOutCareless ==
  CASE step.op = "ifknown" /\ ~Known(step.res) -> {step.skip}
    [] step.op = "ifthere" /\ ~There(step.res) -> {step.skip}
    [] step.op = "delete" /\ step.absent = "skip" /\ ~There(step.res) -> {step.skip}
    [] step.op = "perhaps" -> {0, step.skip}
    [] OTHER -> {0}

\* How many steps may be left out after it.
LeftOut ==
  CASE step.op = "ifknown" /\ ~Known(step.res) -> {step.skip}
    [] step.op = "ifthere" /\ ~There(step.res) -> {step.skip}
    [] step.op = "ifunused" /\ (~There(step.res) \/ InUse(step.res) \/ Attached(step.res)) -> {step.skip}
    [] step.op = "delete" /\ step.absent = "skip" /\ ~There(step.res) -> {step.skip}
    [] step.op = "perhaps" -> {0, step.skip}
    [] OTHER -> {0}

\* The step after which the driver returns at once, without an error.
EndsHere == step.op = "endunless" /\ ~There(step.res)

Busy == phase # "idle" /\ at <= Len(Steps)

--------------------------------------------------------------------------------
(* How a command ends.                                                      *)

\* PreCreateCheck passed: the record is saved, without ids, before Create.
SaveFirst == saved' = TRUE /\ rec' = {}

\* Wrong variant: the ids stay in memory.
SaveNothing == rec' = rec

\* Create succeeded: the record is saved again, with the ids.
SaveIds == rec' = mem

\* Wrong variant: the error of Remove is lost.
KeepNothing(e) == FALSE

\* rm: the record stays if Remove failed, unless --force is given.
KeepRecord(e) == e /\ ~force

\* The driver's method returns; e: with an error.
Return(e) ==
  /\ at' = 1 /\ err' = FALSE
  /\ CASE phase = "pre" /\ e ->
            /\ phase' = "idle" /\ last' = "refused" /\ mem' = {}
            /\ UNCHANGED <<saved, rec>>
       [] phase = "pre" /\ ~e ->
            /\ phase' = "create" /\ SaveFirst
            /\ UNCHANGED <<last, mem>>
       [] phase = "create" /\ ~e ->
            /\ phase' = "idle" /\ last' = "created" /\ SaveIds /\ mem' = {}
            /\ UNCHANGED saved
       [] (phase = "create" /\ e) \/ phase = "undo" ->
            /\ phase' = "idle" /\ last' = "failed" /\ mem' = {}
            /\ UNCHANGED <<saved, rec>>
       [] phase = "rm" ->
            /\ phase' = "idle" /\ mem' = {}
            /\ IF KeepRecord(e)
               THEN last' = "rmfailed" /\ UNCHANGED <<saved, rec>>
               ELSE last' = "removed" /\ saved' = FALSE /\ rec' = {}

\* Going on with the step that is n + 1 further.
GoOn(n) ==
  /\ at' = at + 1 + n
  /\ UNCHANGED <<phase, saved, rec, err, last>>

\* Wrong variant: Create leaves what it made to rm.
LeaveBehind == Return(TRUE)

\* Create calls Remove with the ids that it has so far.
CallRemove == phase' = "undo" /\ at' = 1 /\ UNCHANGED <<saved, rec, mem, err, last>>

\* What the driver does about a step that failed.
Fails ==
  CASE step.fail = "return" -> Return(TRUE)
    [] step.fail = "succeed" -> Return(FALSE)
    [] step.fail = "remove" ->
         IF phase = "create" THEN CallRemove ELSE Return(TRUE)
    [] step.fail = "collect" ->
         at' = at + 1 /\ err' = TRUE /\ UNCHANGED <<phase, saved, rec, mem, last>>
    [] step.fail = "ignore" -> GoOn(0) /\ UNCHANGED mem
    [] step.fail = "skip" -> GoOn(step.skip) /\ UNCHANGED mem
    [] step.fail = "retry" -> UNCHANGED <<phase, at, saved, rec, mem, err, last>>

--------------------------------------------------------------------------------
(* Actions.                                                                 *)

Same == UNCHANGED <<driver, opts, used, late, force, creates, faults, clean, excused>>

\* A step that succeeds.
StepWorks ==
  /\ Busy /\ Works
  /\ cloud' = Effect
  /\ IF EndsHere THEN Return(FALSE) ELSE (\E n \in LeftOut : GoOn(n)) /\ mem' = Learnt
  /\ Same

\* A step that fails as things are: nobody else is to blame.
StepFails ==
  /\ Busy /\ ~Works
  /\ Fails
  /\ UNCHANGED cloud /\ Same

\* All steps are done.
Done ==
  /\ phase # "idle" /\ at > Len(Steps)
  /\ Return(err)
  /\ UNCHANGED cloud /\ Same

\* One failure more; x: it excuses what is left behind.
Fault(x) ==
  /\ faults < MaxFaults
  /\ faults' = faults + 1
  /\ clean' = FALSE
  /\ excused' = (excused \/ x)
  /\ UNCHANGED <<driver, opts, force, creates>>

\* The request fails and has no effect.
RequestFails ==
  /\ Busy /\ step.op # "keep"
  /\ Fault(phase = "undo")
  /\ Fails
  /\ UNCHANGED <<cloud, used, late>>

\* The request takes effect, but the driver is told that it failed.
AnswerLost ==
  /\ Busy /\ Works /\ Effect # cloud
  /\ Fault(TRUE)
  /\ cloud' = Effect
  /\ Fails
  /\ UNCHANGED <<used, late>>

\* The process, or the plugin, dies.
Crash ==
  /\ phase # "idle"
  /\ Fault(TRUE)
  /\ phase' = "idle" /\ at' = 1 /\ mem' = {} /\ err' = FALSE /\ last' = "crashed"
  /\ UNCHANGED <<cloud, used, late, saved, rec>>

\* Somebody deletes the virtual machine with the platform's own tools.
Vanish ==
  /\ phase \in {"idle", "rm"}
  /\ \E x \in cloud \ used :
       /\ x[1] = T.vm
       /\ cloud' = {y \in cloud : y # x /\ <<y[1], x[1]>> \notin T.uses}
  /\ Fault(FALSE)
  /\ last' = "vanished"
  /\ UNCHANGED <<used, late, saved, rec, phase, at, mem, err>>

\* The driver is about to delete r.
AboutToDelete(r) == phase \in {"undo", "rm"} /\ Busy /\ step.op = "delete" /\ step.res = r

\* Another machine begins to use what this one has made for all.
Share ==
  /\ \E x \in cloud \ used :
       /\ x[1] \in T.shared
       /\ used' = used \cup {x}
       /\ late' = IF AboutToDelete(x[1]) THEN late \cup {x} ELSE late
  /\ Fault(FALSE)
  /\ UNCHANGED <<cloud, saved, rec, phase, at, mem, err, last>>

\* create; a name that has a record is refused.
StartCreate ==
  /\ phase = "idle" /\ ~saved /\ creates < MaxCreates
  /\ phase' = "pre" /\ at' = 1 /\ creates' = creates + 1
  /\ clean' = TRUE /\ last' = "running"
  /\ UNCHANGED <<driver, opts, cloud, used, late, saved, rec, mem, err, force, faults, excused>>

\* rm.  With --force the record goes whatever the driver says.
StartRm ==
  /\ phase = "idle" /\ saved
  /\ phase' = "rm" /\ at' = 1 /\ mem' = rec
  /\ clean' = TRUE /\ last' = "running"
  /\ \E f \in BOOLEAN : force' = f /\ excused' = (excused \/ f)
  /\ UNCHANGED <<driver, opts, cloud, used, late, saved, rec, err, creates, faults>>

Next ==
  \/ StepWorks \/ StepFails \/ Done
  \/ RequestFails \/ AnswerLost \/ Crash \/ Vanish \/ Share
  \/ StartCreate \/ StartRm

Spec == Init /\ [][Next]_vars

--------------------------------------------------------------------------------
(* Properties.                                                              *)

Phases == {"idle", "pre", "create", "undo", "rm"}
Ends == {"none", "running", "refused", "created", "failed", "removed", "rmfailed", "crashed", "vanished"}

TypeOK ==
  /\ driver \in Names /\ opts \in T.flags
  /\ \A R \in {cloud, used, late, rec, mem} : R \in SUBSET (STRING \X Nat)
  /\ saved \in BOOLEAN /\ phase \in Phases /\ at \in Nat \ {0}
  /\ err \in BOOLEAN /\ force \in BOOLEAN /\ clean \in BOOLEAN /\ excused \in BOOLEAN
  /\ creates \in 0..MaxCreates /\ faults \in 0..MaxFaults
  /\ last \in Ends

\* What this machine's commands have made and nobody else uses.
Own == {x \in cloud \ used : x[1] \notin T.shared}

\* Between commands the record has the id of every resource that can only be found by its
\* id, whatever failed in between: a driver that fails half way through Create has to delete
\* what it made, because libmachine.go:150 saves the ids only after Create succeeded.  After
\* a failure those that MayLeak lists may be missing.
RecordKnows ==
  phase = "idle" /\ saved /\ ~excused =>
    \A x \in Own : x[1] \in T.stored => x \in rec \/ (faults > 0 /\ x[1] \in MayLeak[driver])

\* When rm has deleted the record (rm.go:37), nothing of the machine is left on the
\* platform.  After a failure what MayLeak and MayStay list may be left.
RemovedIsGone ==
  phase = "idle" /\ ~saved /\ ~excused =>
    \A x \in Own : faults > 0 /\ x[1] \in MayLeak[driver] \cup MayStay[driver]

\* An rm that meets no failure of the platform succeeds: the driver deletes things in an
\* order the platform accepts and passes over what is gone.  In the drivers of MayStick it
\* may fail, but only because something it deletes is gone, in those of MayPanic only
\* because the record has no id of something it deletes.
RmConverges ==
  last = "rmfailed" /\ clean =>
    \/ driver \in MayPanic /\ \E r \in T.stored : \A x \in rec : x[1] # r
    \/ driver \in MayStick /\ \E r \in T.stored \cup {T.vm} : \A x \in rec \cup {<<r, 0>>} : x[1] = r => x \notin cloud

\* Nothing that was there before, under the same name or given by the user, is ever deleted
\* but the kinds that MayClobber lists: the driver refuses to create, or goes by an id.
ForeignKept == \A x \in used : x[1] \in T.foreign \ MayClobber[driver] => x \in cloud

\* Nothing that another machine uses is deleted: the driver looks first (cleanup.go:41), and
\* the platform refuses what came into use between the look and the request to delete it.
\* Only what MayRace lists it deletes even then.
SharedKept ==
  \A x \in used : x[1] \in T.shared => x \in cloud \/ (x \in late /\ x[1] \in MayRace[driver])

\* After a create that succeeded there is a virtual machine, and the record leads to it.
CreatedExists ==
  last = "created" /\ driver \notin MayPretend /\ T.vm # "" =>
    \E x \in cloud : x[1] = T.vm /\ (T.vm \in T.stored => x \in rec)

\* The record is on disk before the first resource is made: after a crash at any time
\* there is a record from which rm can start.
RecordFirst == [][cloud' \ cloud # {} => saved]_vars
================================================================================
