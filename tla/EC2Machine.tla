------------------------------ MODULE EC2Machine ------------------------------
(***************************************************************************)
(* One amazonec2 machine from the create command to the rm command: the    *)
(* driver in its plugin process (drivers/amazonec2), the record of it that *)
(* libmachine keeps in the store, and what exists in EC2.  A command is a  *)
(* sequence of calls to EC2, any of which may fail, and the process may    *)
(* die between two of them.  Commands run one after the other.             *)
(***************************************************************************)
EXTENDS FiniteSets

CONSTANTS Instances,  \* instance ids; a spot request has the id of its instance
          Keys,       \* the key pairs the driver may import
          UserKey,    \* the key pair the user names with --amazonec2-keypair-name
          Nothing,    \* an empty id or name, and the absent record
          FaultSets   \* what may go wrong together, see AllFaults

AllFaults ==
  {"create",    \* a call fails while the machine is created
   "cleanup",   \* a call fails in the Remove that a failed Create runs
   "rm",        \* a call fails in the Remove that the rm command runs
   "lag",       \* EC2 does not know a spot request yet (eventual consistency)
   "save",      \* the record cannot be written
   "load",      \* the record's plugin cannot be started
   "console",   \* somebody terminates the instance
   "crash",     \* the process dies
   "force",     \* the user removes with --force
   "spot"}      \* the user asks for spot instances

\* The flags: a key pair of the user's own, and a spot instance.
Flags == [existing : BOOLEAN, spot : BOOLEAN]

Record == [inst : Instances \union {Nothing}, key : Keys \union {UserKey, Nothing}]

ASSUME EC2Assumption ==
  /\ UserKey \notin Keys
  /\ Nothing \notin Instances \union Keys \union {UserKey} \union Record
  /\ FaultSets \subseteq SUBSET AllFaults

VARIABLES
  faults,  \* what may go wrong, chosen at first and never changed
  pc,      \* the step the running command is at, "idle" between commands
  caller,  \* the command that runs, or ran last: "create" or "rm"
  force,   \* rm was given --force
  errs,    \* the running Remove has collected an error
  result,  \* how the last command ended: "none" while one runs
  config,  \* the driver's flags, in its memory and in the record
  inst,    \* d.InstanceId
  key,     \* d.KeyName
  req,     \* d.spotInstanceRequestId, not exported and so never in the record
  rec,     \* the machine's record in the store: [inst, key], or Nothing
  ec2,     \* every instance and spot request
  launch,  \* the key pair each instance was launched with
  pairs    \* the key pairs in EC2

driver == <<config, inst, key, req>>
cloud == <<ec2, launch, pairs>>
vars == <<faults, pc, caller, force, errs, result, driver, rec, cloud>>

CreateSteps == {"precreate", "keypair", "launch", "spotwait", "resolve", "wait", "save", "provision"}
RemoveSteps == {"terminate", "cancel", "delete", "removed"}

TypeOK ==
  /\ faults \in FaultSets
  /\ pc \in {"idle", "local"} \union CreateSteps \union RemoveSteps
  /\ caller \in {"create", "rm"}
  /\ force \in BOOLEAN /\ errs \in BOOLEAN
  /\ result \in {"none", "created", "removed", "error"}
  /\ config \in Flags
  /\ inst \in Instances \union {Nothing} /\ req \in Instances \union {Nothing}
  /\ key \in Keys \union {UserKey, Nothing}
  /\ rec \in Record \union {Nothing}
  /\ ec2 \in [Instances -> {"unborn", "requested", "cancelled", "live", "terminated", "gone"}]
  /\ launch \in [Instances -> Keys \union {UserKey, Nothing}]
  /\ pairs \subseteq Keys \union {UserKey}

Init ==
  /\ faults \in FaultSets
  /\ pc = "idle" /\ caller = "rm" /\ result = "none"
  /\ force = FALSE /\ errs = FALSE
  /\ config = [existing |-> FALSE, spot |-> FALSE]
  /\ inst = Nothing /\ key = Nothing /\ req = Nothing /\ rec = Nothing
  /\ ec2 = [i \in Instances |-> "unborn"]
  /\ launch = [i \in Instances |-> Nothing]
  /\ pairs = {UserKey}

\* What json.Marshal of the driver puts in config.json.
Marshalled == [inst |-> inst, key |-> key]

\* A command ends.
End(r) == pc' = "idle" /\ result' = r

\* Create returns the error of innerCreate after calling d.Remove().
CleanUp == pc' = "terminate" /\ errs' = FALSE

-----------------------------------------------------------------------------
(* The create command up to the driver's Create. *)

\* The driver of a new machine: no ids, and the user's key pair if one was named.
SetConfigFromFlags(c) ==
  /\ config' = c
  /\ inst' = Nothing /\ req' = Nothing
  /\ key' = IF c.existing THEN UserKey ELSE Nothing

\* cmdCreateInner: the machine must not exist; the driver is configured from the
\* flags.  The bounds: an unused instance id and a free key pair name are left.
StartCreate(c) ==
  /\ pc = "idle" /\ rec = Nothing
  /\ c.spot => "spot" \in faults
  /\ \E i \in Instances : ec2[i] = "unborn"
  /\ Keys \ pairs # {}
  /\ pc' = "precreate" /\ caller' = "create" /\ result' = "none"
  /\ force' = FALSE /\ errs' = FALSE
  /\ SetConfigFromFlags(c)
  /\ UNCHANGED <<rec, cloud>>

\* Client.Create: the record is saved before anything is created.
SaveBeforeCreate ==
  /\ pc = "precreate"
  /\ pc' = "keypair"
  /\ rec' = Marshalled
  /\ UNCHANGED <<caller, force, errs, result, driver, cloud>>

PreCreateFails ==
  /\ pc = "precreate" /\ faults \cap {"create", "save"} # {}
  /\ End("error")
  /\ UNCHANGED <<caller, force, errs, driver, rec, cloud>>

-----------------------------------------------------------------------------
(* The driver's Create. *)

createKeyPair ==
  /\ pc = "keypair"
  /\ pc' = "launch"
  /\ IF config.existing
       THEN UNCHANGED <<key, pairs>>
       ELSE \E k \in Keys \ pairs : key' = k /\ pairs' = pairs \union {k}
  /\ UNCHANGED <<caller, force, errs, result, config, inst, req, rec, ec2, launch>>

\* createKeyPair, configureSecurityGroups, RunInstances or RequestSpotInstances fails.
LaunchFails ==
  /\ pc \in {"keypair", "launch"} /\ "create" \in faults
  /\ CleanUp
  /\ UNCHANGED <<caller, force, result, driver, rec, cloud>>

RunInstances ==
  /\ pc = "launch" /\ ~config.spot
  /\ \E i \in Instances :
       /\ ec2[i] = "unborn"
       /\ ec2' = [ec2 EXCEPT ![i] = "live"]
       /\ launch' = [launch EXCEPT ![i] = key]
       /\ inst' = i
  /\ pc' = "wait"
  /\ UNCHANGED <<caller, force, errs, result, config, key, req, rec, pairs>>

RequestSpotInstances ==
  /\ pc = "launch" /\ config.spot
  /\ \E i \in Instances :
       /\ ec2[i] = "unborn"
       /\ ec2' = [ec2 EXCEPT ![i] = "requested"]
       /\ launch' = [launch EXCEPT ![i] = key]
       /\ req' = i
  /\ pc' = "spotwait"
  /\ UNCHANGED <<caller, force, errs, result, config, inst, key, rec, pairs>>

\* WaitUntilSpotInstanceRequestFulfilled succeeds, or answers three times that the
\* request is not found: the loop then ends without an error.
SpotFulfilled ==
  /\ pc = "spotwait"
  /\ \/ ec2[req] \in {"live", "terminated"}
     \/ ec2[req] = "requested" /\ "lag" \in faults
  /\ pc' = "resolve"
  /\ UNCHANGED <<caller, force, errs, result, driver, rec, cloud>>

SpotFails ==
  /\ pc \in {"spotwait", "resolve"} /\ "create" \in faults
  /\ CleanUp
  /\ UNCHANGED <<caller, force, result, driver, rec, cloud>>

SpotResolved ==
  /\ pc = "resolve" /\ ec2[req] \in {"live", "terminated"}
  /\ pc' = "wait"
  /\ inst' = req
  /\ UNCHANGED <<caller, force, errs, result, config, key, req, rec, cloud>>

\* Three answers without an instance id: err is nil and so is instance, which is
\* dereferenced.  The plugin traps the panic, and Create's cleanup does not run.
SpotUnresolved ==
  /\ pc = "resolve" /\ "lag" \in faults
  /\ End("error")
  /\ UNCHANGED <<caller, force, errs, driver, rec, cloud>>

\* The instance has an address, its metadata options and its tags.
Tagged ==
  /\ pc = "wait"
  /\ pc' = "save"
  /\ UNCHANGED <<caller, force, errs, result, driver, rec, cloud>>

\* Wrong variant: the error is returned without the cleanup.
WaitFailsWithoutCleanup ==
  /\ pc = "wait" /\ "create" \in faults
  /\ End("error")
  /\ UNCHANGED <<caller, force, errs, driver, rec, cloud>>

WaitFails ==
  /\ pc = "wait" /\ "create" \in faults
  /\ CleanUp
  /\ UNCHANGED <<caller, force, result, driver, rec, cloud>>

-----------------------------------------------------------------------------
(* The rest of performCreate and of the create command. *)

SaveCreated ==
  /\ pc = "save"
  /\ pc' = "provision"
  /\ rec' = Marshalled
  /\ UNCHANGED <<caller, force, errs, result, driver, cloud>>

SaveCreatedFails ==
  /\ pc = "save" /\ "save" \in faults
  /\ End("error")
  /\ UNCHANGED <<caller, force, errs, driver, rec, cloud>>

Provisioned ==
  /\ pc = "provision"
  /\ End("created")
  /\ rec' = Marshalled
  /\ UNCHANGED <<caller, force, errs, driver, cloud>>

ProvisionFails ==
  /\ pc = "provision" /\ faults \cap {"create", "save"} # {}
  /\ End("error")
  /\ UNCHANGED <<caller, force, errs, driver, rec, cloud>>

-----------------------------------------------------------------------------
(* The driver's Remove: every step is tried, the errors are collected. *)

RemoveMayFail == IF caller = "create" THEN "cleanup" \in faults ELSE "rm" \in faults

terminate ==
  /\ pc = "terminate"
  /\ pc' = "cancel"
  /\ IF inst = Nothing \/ ec2[inst] = "gone" THEN UNCHANGED ec2
     ELSE ec2' = [ec2 EXCEPT ![inst] = "terminated"]
  /\ UNCHANGED <<caller, force, errs, result, driver, rec, launch, pairs>>

terminateFails ==
  /\ pc = "terminate" /\ inst # Nothing /\ RemoveMayFail
  /\ pc' = "cancel" /\ errs' = TRUE
  /\ UNCHANGED <<caller, force, result, driver, rec, cloud>>

cancelSpotInstanceRequest ==
  /\ pc = "cancel"
  /\ pc' = "delete"
  /\ IF config.spot /\ req # Nothing /\ ec2[req] = "requested"
       THEN ec2' = [ec2 EXCEPT ![req] = "cancelled"]
       ELSE UNCHANGED ec2
  /\ UNCHANGED <<caller, force, errs, result, driver, rec, launch, pairs>>

cancelFails ==
  /\ pc = "cancel" /\ config.spot /\ req # Nothing /\ RemoveMayFail
  /\ pc' = "delete" /\ errs' = TRUE
  /\ UNCHANGED <<caller, force, result, driver, rec, cloud>>

\* getInstance needs an instance that EC2 still knows.
Described == inst # Nothing /\ ec2[inst] # "gone"

\* Wrong variant: ExistingKey is not looked at.
deleteAnyKeyPair ==
  /\ pc = "delete"
  /\ pc' = "removed"
  /\ IF Described
       THEN pairs' = pairs \ {launch[inst]} /\ UNCHANGED errs
       ELSE errs' = TRUE /\ UNCHANGED pairs
  /\ UNCHANGED <<caller, force, result, driver, rec, ec2, launch>>

\* The key pair to delete is the one the instance was launched with.
deleteKeyPair ==
  /\ pc = "delete"
  /\ pc' = "removed"
  /\ IF config.existing \/ key = Nothing
       THEN UNCHANGED <<errs, pairs>>
       ELSE IF Described
         THEN pairs' = pairs \ {launch[inst]} /\ UNCHANGED errs
         ELSE errs' = TRUE /\ UNCHANGED pairs
  /\ UNCHANGED <<caller, force, result, driver, rec, ec2, launch>>

deleteFails ==
  /\ pc = "delete" /\ ~config.existing /\ key # Nothing /\ RemoveMayFail
  /\ pc' = "removed" /\ errs' = TRUE
  /\ UNCHANGED <<caller, force, result, driver, rec, cloud>>

\* Wrong variant: the error of the driver's Remove is dropped here too.
RemoveReturnsNil ==
  /\ pc = "removed"
  /\ IF caller = "rm"
       THEN pc' = "local" /\ UNCHANGED result
       ELSE End("error")
  /\ UNCHANGED <<caller, force, errs, driver, rec, cloud>>

\* Create drops the error of its Remove and returns its own; rm goes on to the
\* local reference when there was no error or with --force.
RemoveReturns ==
  /\ pc = "removed"
  /\ IF caller = "rm" /\ (~errs \/ force)
       THEN pc' = "local" /\ UNCHANGED result
       ELSE End("error")
  /\ UNCHANGED <<caller, force, errs, driver, rec, cloud>>

-----------------------------------------------------------------------------
(* The rm command. *)

\* cmdRm: the host is loaded, its driver has what the record holds.
StartRm(f) ==
  /\ pc = "idle" /\ rec # Nothing
  /\ f => "force" \in faults
  /\ caller' = "rm" /\ force' = f /\ result' = "none"
  /\ inst' = rec.inst /\ key' = rec.key /\ req' = Nothing
  /\ pc' = "terminate" /\ errs' = FALSE
  /\ UNCHANGED <<config, rec, cloud>>

\* The plugin cannot be started: with --force the record goes nevertheless.
RmLoadFails(f) ==
  /\ pc = "idle" /\ rec # Nothing /\ "load" \in faults
  /\ f => "force" \in faults
  /\ caller' = "rm" /\ force' = f /\ errs' = TRUE
  /\ IF f THEN pc' = "local" /\ result' = "none" ELSE End("error")
  /\ UNCHANGED <<driver, rec, cloud>>

removeLocalMachine ==
  /\ pc = "local"
  /\ rec' = Nothing
  /\ End("removed")
  /\ UNCHANGED <<caller, force, errs, driver, cloud>>

\* With --force the error is logged and the command succeeds.
removeLocalFails ==
  /\ pc = "local" /\ "save" \in faults
  /\ End(IF force THEN "removed" ELSE "error")
  /\ UNCHANGED <<caller, force, errs, driver, rec, cloud>>

-----------------------------------------------------------------------------
(* The environment. *)

\* EC2 fulfils an open spot request at any time, the command that made it gone or not.
Fulfil(i) ==
  /\ ec2[i] = "requested"
  /\ ec2' = [ec2 EXCEPT ![i] = "live"]
  /\ UNCHANGED <<pc, caller, force, errs, result, driver, rec, launch, pairs>>

TerminatedByHand(i) ==
  /\ ec2[i] = "live" /\ "console" \in faults
  /\ ec2' = [ec2 EXCEPT ![i] = "terminated"]
  /\ UNCHANGED <<pc, caller, force, errs, result, driver, rec, launch, pairs>>

\* EC2 forgets an instance an hour after its end; no command runs that long after it.
Forgotten(i) ==
  /\ ec2[i] = "terminated" /\ pc = "idle"
  /\ ec2' = [ec2 EXCEPT ![i] = "gone"]
  /\ UNCHANGED <<pc, caller, force, errs, result, driver, rec, launch, pairs>>

Crash ==
  /\ pc # "idle" /\ "crash" \in faults
  /\ End("none")
  /\ UNCHANGED <<caller, force, errs, driver, rec, cloud>>

-----------------------------------------------------------------------------

Step ==
  \/ \E c \in Flags : StartCreate(c)
  \/ SaveBeforeCreate \/ PreCreateFails
  \/ createKeyPair \/ LaunchFails \/ RunInstances \/ RequestSpotInstances
  \/ SpotFulfilled \/ SpotFails \/ SpotResolved \/ SpotUnresolved
  \/ Tagged \/ WaitFails
  \/ SaveCreated \/ SaveCreatedFails \/ Provisioned \/ ProvisionFails
  \/ terminate \/ terminateFails
  \/ cancelSpotInstanceRequest \/ cancelFails
  \/ deleteKeyPair \/ deleteFails \/ RemoveReturns
  \/ \E f \in BOOLEAN : StartRm(f) \/ RmLoadFails(f)
  \/ removeLocalMachine \/ removeLocalFails
  \/ \E i \in Instances : Fulfil(i) \/ TerminatedByHand(i) \/ Forgotten(i)
  \/ Crash

Next == Step /\ UNCHANGED faults

Spec == Init /\ [][Next]_vars

-----------------------------------------------------------------------------
(* Properties. *)

\* The key pair the user brought is never deleted, whatever fails and whichever
\* process runs Remove: ExistingKey is in the record, and the key pair deleted is
\* the one EC2 says the instance has.
UserKeyKept == UserKey \in pairs

Exists(i) == ec2[i] \in {"requested", "live"}

\* rm without --force drops the local reference only when the instance it names
\* is not there any more, so that a removal that failed can be tried again.
RecordDroppedSafely ==
  [][rec # Nothing /\ rec' = Nothing /\ ~force
       => rec.inst = Nothing \/ ~Exists(rec.inst)]_vars

\* Nothing can happen that loses an instance.
NoLoss == faults \cap {"cleanup", "save", "crash", "force", "spot"} = {}

\* Between commands every instance in EC2 is named by the record, so that rm can
\* find it.  It takes that Create's own Remove and the Save after Create succeed,
\* and that no process dies; spot requests are excepted.
InstancesRecorded ==
  NoLoss /\ pc = "idle" => \A i \in Instances : Exists(i) => rec # Nothing /\ rec.inst = i

=============================================================================
