--------------------------- MODULE EC2MachineProofs ---------------------------
(***************************************************************************)
(* What holds of EC2Machine for any number of instances and key pairs.     *)
(* Three invariants, each with its own inductive step: KeyInv for the      *)
(* user's key pair, DropInv for the local reference, and RecInv, under     *)
(* NoLoss, for the instances the record must name.                         *)
(***************************************************************************)
EXTENDS EC2Machine, TLAPS

\* A machine whose flags do not name a key pair was not launched with the user's.
KeyInv ==
  /\ UserKey \in pairs
  /\ key = UserKey => config.existing
  /\ inst # Nothing /\ launch[inst] = UserKey => config.existing
  /\ req # Nothing /\ launch[req] = UserKey => config.existing
  /\ rec # Nothing =>
       /\ rec.key = UserKey => config.existing
       /\ rec.inst # Nothing /\ launch[rec.inst] = UserKey => config.existing

\* Remove works on the recorded instance, and without an error it is gone.
DropInv ==
  /\ pc \in CreateSteps => caller = "create"
  /\ pc = "local" => caller = "rm"
  /\ caller = "rm" /\ pc \in RemoveSteps => rec # Nothing /\ rec.inst = inst
  /\ caller = "rm" /\ pc \in {"cancel", "delete", "removed"} /\ ~errs /\ inst # Nothing
       => ~Exists(inst)
  /\ pc = "local" /\ ~force
       => rec # Nothing /\ (rec.inst = Nothing \/ ~Exists(rec.inst))

\* Every instance is in the record, or in the memory of the create that made it.
RecInv ==
  /\ ~config.spot /\ ~force
  /\ pc \notin {"spotwait", "resolve"}
  /\ pc = "precreate" => rec = Nothing /\ inst = Nothing
  /\ pc \in {"keypair", "launch", "wait", "save"} => rec # Nothing /\ rec.inst = Nothing
  /\ pc = "provision" => rec # Nothing /\ rec.inst = inst
  /\ \A i \in Instances : Exists(i) =>
       \/ rec # Nothing /\ rec.inst = i
       \/ caller = "create" /\ inst = i /\ pc \in {"wait", "save", "terminate"}

\* No call to EC2, no command and no failure changes a type.
LEMMA TypeStep == TypeOK /\ [Next]_vars => TypeOK'
<1>. SUFFICES ASSUME TypeOK, [Next]_vars PROVE TypeOK'
  OBVIOUS
<1>. USE EC2Assumption DEF TypeOK, Flags, Marshalled, Record, CreateSteps, RemoveSteps, CleanUp,
        End, driver, cloud
<1>. faults' \in FaultSets
  BY DEF Next, vars
<1>1. CASE SpotFulfilled \/ Tagged
  BY <1>1 DEF SpotFulfilled, Tagged
<1>2. CASE LaunchFails \/ SpotFails \/ WaitFails
  BY <1>2 DEF LaunchFails, SpotFails, WaitFails
<1>3. CASE PreCreateFails \/ SpotUnresolved \/ SaveCreatedFails \/ ProvisionFails \/ removeLocalFails \/ Crash
  BY <1>3 DEF PreCreateFails, SpotUnresolved, SaveCreatedFails, ProvisionFails, removeLocalFails, Crash
<1>4. CASE terminateFails \/ cancelFails \/ deleteFails
  BY <1>4 DEF terminateFails, cancelFails, deleteFails
<1>5. CASE SaveBeforeCreate
  BY <1>5 DEF SaveBeforeCreate
<1>6. CASE createKeyPair
  BY <1>6 DEF createKeyPair
<1>7. CASE RunInstances
  BY <1>7 DEF RunInstances
<1>8. CASE RequestSpotInstances
  BY <1>8 DEF RequestSpotInstances
<1>9. CASE SpotResolved
  BY <1>9 DEF SpotResolved
<1>10. CASE SaveCreated
  BY <1>10 DEF SaveCreated
<1>11. CASE Provisioned
  BY <1>11 DEF Provisioned
<1>12. CASE terminate
  <2>1. CASE inst = Nothing
    BY <1>12, <2>1 DEF terminate
  <2>2. CASE inst # Nothing /\ ec2[inst] = "gone"
    BY <1>12, <2>2 DEF terminate
  <2>3. CASE inst # Nothing /\ ec2[inst] # "gone"
    BY <1>12, <2>3 DEF terminate
  <2>. QED
    BY <2>1, <2>2, <2>3
<1>13. CASE cancelSpotInstanceRequest
  BY <1>13 DEF cancelSpotInstanceRequest
<1>14. CASE deleteKeyPair
  <2>1. CASE config.existing \/ key = Nothing
    BY <1>14, <2>1 DEF deleteKeyPair
  <2>2. CASE ~(config.existing \/ key = Nothing) /\ Described
    BY <1>14, <2>2 DEF deleteKeyPair
  <2>3. CASE ~(config.existing \/ key = Nothing) /\ ~Described
    BY <1>14, <2>3 DEF deleteKeyPair
  <2>. QED
    BY <2>1, <2>2, <2>3
<1>15. CASE RemoveReturns
  BY <1>15 DEF RemoveReturns
<1>16. CASE removeLocalMachine
  BY <1>16 DEF removeLocalMachine
<1>17. ASSUME NEW c \in Flags, StartCreate(c) PROVE TypeOK'
  BY <1>17 DEF StartCreate, SetConfigFromFlags
<1>18. ASSUME NEW f \in BOOLEAN, StartRm(f) PROVE TypeOK'
  BY <1>18 DEF StartRm
<1>19. ASSUME NEW f \in BOOLEAN, RmLoadFails(f) PROVE TypeOK'
  BY <1>19 DEF RmLoadFails
<1>20. ASSUME NEW i \in Instances, Fulfil(i) PROVE TypeOK'
  BY <1>20 DEF Fulfil
<1>21. ASSUME NEW i \in Instances, TerminatedByHand(i) PROVE TypeOK'
  BY <1>21 DEF TerminatedByHand
<1>22. ASSUME NEW i \in Instances, Forgotten(i) PROVE TypeOK'
  BY <1>22 DEF Forgotten
<1>23. CASE UNCHANGED vars
  BY <1>23 DEF vars
<1>. QED
  BY <1>1, <1>2, <1>3, <1>4, <1>5, <1>6, <1>7, <1>8, <1>9, <1>10, <1>11, <1>12, <1>13, <1>14, <1>15, <1>16, <1>17, <1>18, <1>19, <1>20, <1>21, <1>22, <1>23 DEF Next, Step

\* Every variable keeps its type.
THEOREM TypeCorrect == Spec => []TypeOK
<1>1. Init => TypeOK
  <2>. SUFFICES ASSUME Init PROVE TypeOK
    OBVIOUS
  <2>1. config \in Flags
    BY Zenon DEF Init, Flags
  <2>2. force \in BOOLEAN /\ errs \in BOOLEAN
    BY Zenon DEF Init
  <2>3. /\ faults \in FaultSets /\ pc = "idle" /\ caller = "rm" /\ result = "none"
        /\ inst = Nothing /\ key = Nothing /\ req = Nothing /\ rec = Nothing
    BY Zenon DEF Init
  <2>4. /\ ec2 \in [Instances -> {"unborn", "requested", "cancelled", "live", "terminated", "gone"}]
        /\ launch \in [Instances -> Keys \union {UserKey, Nothing}]
        /\ pairs \subseteq Keys \union {UserKey}
    BY SMT DEF Init
  <2>. QED
    BY <2>1, <2>2, <2>3, <2>4, Zenon DEF TypeOK
<1>. QED
  BY <1>1, TypeStep, PTL DEF Spec

\* What is known of the key pairs survives every step, a new process included: the
\* flags and the key's name are in the record.
LEMMA KeyStep == TypeOK /\ KeyInv /\ [Next]_vars => KeyInv'
<1>. SUFFICES ASSUME TypeOK, KeyInv, [Next]_vars PROVE KeyInv'
  OBVIOUS
<1>. USE EC2Assumption DEF TypeOK, KeyInv, Marshalled, Record, CleanUp, End, driver,
        cloud
<1>1. CASE SpotFulfilled \/ Tagged
  BY <1>1 DEF SpotFulfilled, Tagged
<1>2. CASE LaunchFails \/ SpotFails \/ WaitFails
  BY <1>2 DEF LaunchFails, SpotFails, WaitFails
<1>3. CASE PreCreateFails \/ SpotUnresolved \/ SaveCreatedFails \/ ProvisionFails \/ removeLocalFails \/ Crash
  BY <1>3 DEF PreCreateFails, SpotUnresolved, SaveCreatedFails, ProvisionFails, removeLocalFails, Crash
<1>4. CASE terminateFails \/ cancelFails \/ deleteFails
  BY <1>4 DEF terminateFails, cancelFails, deleteFails
<1>5. CASE SaveBeforeCreate
  BY <1>5 DEF SaveBeforeCreate
<1>6. CASE createKeyPair
  BY <1>6 DEF createKeyPair
<1>7. CASE RunInstances
  BY <1>7 DEF RunInstances
<1>8. CASE RequestSpotInstances
  BY <1>8 DEF RequestSpotInstances
<1>9. CASE SpotResolved
  BY <1>9 DEF SpotResolved
<1>10. CASE SaveCreated
  BY <1>10 DEF SaveCreated
<1>11. CASE Provisioned
  BY <1>11 DEF Provisioned
<1>12. CASE terminate
  BY <1>12 DEF terminate
<1>13. CASE cancelSpotInstanceRequest
  BY <1>13 DEF cancelSpotInstanceRequest
<1>14. CASE deleteKeyPair
  BY <1>14 DEF deleteKeyPair, Described
<1>15. CASE RemoveReturns
  BY <1>15 DEF RemoveReturns
<1>16. CASE removeLocalMachine
  BY <1>16 DEF removeLocalMachine
<1>17. ASSUME NEW c \in Flags, StartCreate(c) PROVE KeyInv'
  BY <1>17 DEF StartCreate, SetConfigFromFlags
<1>18. ASSUME NEW f \in BOOLEAN, StartRm(f) PROVE KeyInv'
  BY <1>18 DEF StartRm
<1>19. ASSUME NEW f \in BOOLEAN, RmLoadFails(f) PROVE KeyInv'
  BY <1>19 DEF RmLoadFails
<1>20. ASSUME NEW i \in Instances, Fulfil(i) PROVE KeyInv'
  BY <1>20 DEF Fulfil
<1>21. ASSUME NEW i \in Instances, TerminatedByHand(i) PROVE KeyInv'
  BY <1>21 DEF TerminatedByHand
<1>22. ASSUME NEW i \in Instances, Forgotten(i) PROVE KeyInv'
  BY <1>22 DEF Forgotten
<1>23. CASE UNCHANGED vars
  BY <1>23 DEF vars
<1>. QED
  BY <1>1, <1>2, <1>3, <1>4, <1>5, <1>6, <1>7, <1>8, <1>9, <1>10, <1>11, <1>12, <1>13, <1>14, <1>15, <1>16, <1>17, <1>18, <1>19, <1>20, <1>21, <1>22, <1>23 DEF Next, Step

\* deleteKeyPair never deletes the key pair the user named on the command line.
THEOREM UserKeySafe == Spec => []UserKeyKept
<1>1. Init => KeyInv
  BY EC2Assumption DEF Init, KeyInv
<1>2. KeyInv => UserKeyKept
  BY DEF KeyInv, UserKeyKept
<1>. QED
  BY <1>1, <1>2, KeyStep, TypeCorrect, PTL DEF Spec

\* Remove's collected errors tell whether the recorded instance may still be there.
LEMMA DropStep == TypeOK /\ DropInv /\ [Next]_vars => DropInv'
<1>. SUFFICES ASSUME TypeOK, DropInv, [Next]_vars PROVE DropInv'
  OBVIOUS
<1>. USE EC2Assumption DEF TypeOK, DropInv, Exists, Marshalled, Record, CreateSteps,
        RemoveSteps, CleanUp, End, driver, cloud
<1>1. CASE SpotFulfilled \/ Tagged
  BY <1>1 DEF SpotFulfilled, Tagged
<1>2. CASE LaunchFails \/ SpotFails \/ WaitFails
  BY <1>2 DEF LaunchFails, SpotFails, WaitFails
<1>3. CASE PreCreateFails \/ SpotUnresolved \/ SaveCreatedFails \/ ProvisionFails \/ removeLocalFails \/ Crash
  BY <1>3 DEF PreCreateFails, SpotUnresolved, SaveCreatedFails, ProvisionFails, removeLocalFails, Crash
<1>4. CASE terminateFails \/ cancelFails \/ deleteFails
  BY <1>4 DEF terminateFails, cancelFails, deleteFails
<1>5. CASE SaveBeforeCreate
  BY <1>5 DEF SaveBeforeCreate
<1>6. CASE createKeyPair
  BY <1>6 DEF createKeyPair
<1>7. CASE RunInstances
  BY <1>7 DEF RunInstances
<1>8. CASE RequestSpotInstances
  BY <1>8 DEF RequestSpotInstances
<1>9. CASE SpotResolved
  BY <1>9 DEF SpotResolved
<1>10. CASE SaveCreated
  BY <1>10 DEF SaveCreated
<1>11. CASE Provisioned
  BY <1>11 DEF Provisioned
<1>12. CASE terminate
  BY <1>12 DEF terminate
<1>13. CASE cancelSpotInstanceRequest
  BY <1>13 DEF cancelSpotInstanceRequest
<1>14. CASE deleteKeyPair
  BY <1>14 DEF deleteKeyPair
<1>15. CASE RemoveReturns
  BY <1>15 DEF RemoveReturns
<1>16. CASE removeLocalMachine
  BY <1>16 DEF removeLocalMachine
<1>17. ASSUME NEW c \in Flags, StartCreate(c) PROVE DropInv'
  BY <1>17 DEF StartCreate, SetConfigFromFlags
<1>18. ASSUME NEW f \in BOOLEAN, StartRm(f) PROVE DropInv'
  BY <1>18 DEF StartRm
<1>19. ASSUME NEW f \in BOOLEAN, RmLoadFails(f) PROVE DropInv'
  BY <1>19 DEF RmLoadFails
<1>20. ASSUME NEW i \in Instances, Fulfil(i) PROVE DropInv'
  BY <1>20 DEF Fulfil
<1>21. ASSUME NEW i \in Instances, TerminatedByHand(i) PROVE DropInv'
  BY <1>21 DEF TerminatedByHand
<1>22. ASSUME NEW i \in Instances, Forgotten(i) PROVE DropInv'
  BY <1>22 DEF Forgotten
<1>23. CASE UNCHANGED vars
  BY <1>23 DEF vars
<1>. QED
  BY <1>1, <1>2, <1>3, <1>4, <1>5, <1>6, <1>7, <1>8, <1>9, <1>10, <1>11, <1>12, <1>13, <1>14, <1>15, <1>16, <1>17, <1>18, <1>19, <1>20, <1>21, <1>22, <1>23 DEF Next, Step

\* DropInv holds of every state of cmdRm and of the driver's Remove.
THEOREM DropInvariant == Spec => [](TypeOK /\ DropInv)
<1>1. Init => DropInv
  BY DEF Init, DropInv, CreateSteps, RemoveSteps
<1>. QED
  BY <1>1, DropStep, TypeCorrect, PTL DEF Spec

\* Without --force a record is dropped only when its instance is no longer there.
THEOREM DroppedSafely == Spec => RecordDroppedSafely
<1>1. TypeOK /\ DropInv /\ [Next]_vars
        => [rec # Nothing /\ rec' = Nothing /\ ~force
              => rec.inst = Nothing \/ ~Exists(rec.inst)]_vars
  <2>. SUFFICES ASSUME TypeOK, DropInv, Next, rec # Nothing, rec' = Nothing, ~force
                PROVE  rec.inst = Nothing \/ ~Exists(rec.inst)
    OBVIOUS
  <2>1. ASSUME pc = "local" PROVE rec.inst = Nothing \/ ~Exists(rec.inst)
    BY <2>1 DEF DropInv
  <2>2. ASSUME pc # "local" PROVE FALSE
    BY <2>2, EC2Assumption DEF Next, Step, Record, Marshalled, TypeOK, StartCreate, SaveBeforeCreate,
       PreCreateFails, createKeyPair, LaunchFails, RunInstances, RequestSpotInstances,
       SpotFulfilled, SpotFails, SpotResolved, SpotUnresolved, Tagged, WaitFails, SaveCreated,
       SaveCreatedFails, Provisioned, ProvisionFails, terminate, terminateFails,
       cancelSpotInstanceRequest, cancelFails, deleteKeyPair, deleteFails, RemoveReturns,
       StartRm, RmLoadFails, removeLocalMachine, removeLocalFails, Fulfil, TerminatedByHand,
       Forgotten, Crash
  <2>. QED
    BY <2>1, <2>2
<1>. QED
  BY <1>1, DropInvariant, PTL DEF Spec, RecordDroppedSafely

\* Without a loss, an instance not yet in the record is in the memory of Create,
\* which saves it or terminates it.
LEMMA RecStep == NoLoss /\ TypeOK /\ DropInv /\ RecInv /\ [Next]_vars => RecInv'
<1>. SUFFICES ASSUME NoLoss, TypeOK, DropInv, RecInv, [Next]_vars PROVE RecInv'
  OBVIOUS
<1>. USE EC2Assumption DEF TypeOK, DropInv, RecInv, NoLoss, Exists, RemoveMayFail,
        Marshalled, Record, CreateSteps, RemoveSteps, CleanUp, End, driver, cloud
<1>1. CASE SpotFulfilled \/ Tagged
  BY <1>1 DEF SpotFulfilled, Tagged
<1>2. CASE LaunchFails \/ SpotFails \/ WaitFails
  BY <1>2 DEF LaunchFails, SpotFails, WaitFails
<1>3. CASE PreCreateFails \/ SpotUnresolved \/ SaveCreatedFails \/ ProvisionFails \/ removeLocalFails \/ Crash
  BY <1>3 DEF PreCreateFails, SpotUnresolved, SaveCreatedFails, ProvisionFails, removeLocalFails, Crash
<1>4. CASE terminateFails \/ cancelFails \/ deleteFails
  BY <1>4 DEF terminateFails, cancelFails, deleteFails
<1>5. CASE SaveBeforeCreate
  BY <1>5 DEF SaveBeforeCreate
<1>6. CASE createKeyPair
  BY <1>6 DEF createKeyPair
<1>7. CASE RunInstances
  BY <1>7 DEF RunInstances
<1>8. CASE RequestSpotInstances
  BY <1>8 DEF RequestSpotInstances
<1>9. CASE SpotResolved
  BY <1>9 DEF SpotResolved
<1>10. CASE SaveCreated
  BY <1>10 DEF SaveCreated
<1>11. CASE Provisioned
  BY <1>11 DEF Provisioned
<1>12. CASE terminate
  BY <1>12 DEF terminate
<1>13. CASE cancelSpotInstanceRequest
  BY <1>13 DEF cancelSpotInstanceRequest
<1>14. CASE deleteKeyPair
  BY <1>14 DEF deleteKeyPair
<1>15. CASE RemoveReturns
  BY <1>15 DEF RemoveReturns
<1>16. CASE removeLocalMachine
  BY <1>16 DEF removeLocalMachine
<1>17. ASSUME NEW c \in Flags, StartCreate(c) PROVE RecInv'
  BY <1>17 DEF StartCreate, SetConfigFromFlags
<1>18. ASSUME NEW f \in BOOLEAN, StartRm(f) PROVE RecInv'
  BY <1>18 DEF StartRm
<1>19. ASSUME NEW f \in BOOLEAN, RmLoadFails(f) PROVE RecInv'
  BY <1>19 DEF RmLoadFails
<1>20. ASSUME NEW i \in Instances, Fulfil(i) PROVE RecInv'
  BY <1>20 DEF Fulfil
<1>21. ASSUME NEW i \in Instances, TerminatedByHand(i) PROVE RecInv'
  BY <1>21 DEF TerminatedByHand
<1>22. ASSUME NEW i \in Instances, Forgotten(i) PROVE RecInv'
  BY <1>22 DEF Forgotten
<1>23. CASE UNCHANGED vars
  BY <1>23 DEF vars
<1>. QED
  BY <1>1, <1>2, <1>3, <1>4, <1>5, <1>6, <1>7, <1>8, <1>9, <1>10, <1>11, <1>12, <1>13, <1>14, <1>15, <1>16, <1>17, <1>18, <1>19, <1>20, <1>21, <1>22, <1>23 DEF Next, Step

\* Under NoLoss, between two commands the record names every instance there is.
THEOREM AllRecorded == Spec => []InstancesRecorded
<1>1. Init => RecInv
  BY DEF Init, RecInv, Exists
<1>2. (NoLoss => RecInv) => InstancesRecorded
  BY DEF RecInv, InstancesRecorded
<1>3. [Next]_vars => (NoLoss' <=> NoLoss)
  BY DEF Next, vars, NoLoss
<1>4. TypeOK /\ DropInv /\ (NoLoss => RecInv) /\ [Next]_vars => (NoLoss => RecInv)'
  BY <1>3, RecStep
<1>. QED
  BY <1>1, <1>2, <1>4, DropInvariant, PTL DEF Spec

=============================================================================
