---------------------------- MODULE DriverLifeProofs ----------------------------
(***************************************************************************)
(* Proofs about DriverLife: for every table of drivers that satisfies its   *)
(* assumptions, and any bounds.                                             *)
(***************************************************************************)
EXTENDS DriverLife, TLAPS

Resources == STRING \X Nat

\* The types of the variables that the other steps depend on.
Base == driver \in Names /\ opts \in T.flags /\ phase \in Phases /\ at \in Nat \ {0}

\* The step that a busy driver is at is one of its steps.
LEMMA StepType ==
  ASSUME Base, Busy
  PROVE  /\ step.op \in STRING /\ step.res \in STRING /\ step.fail \in OnError /\ step.skip \in Nat
         /\ phase = "pre" => step.op \notin {"make", "ensure", "delete"}
         /\ step.op = "delete" /\ step.res \in T.shared =>
              /\ phase \in {"undo", "rm"} /\ Checked(Steps, at)
              /\ step.res \in MayRace[driver] \/ \E u \in T.uses : u[2] = step.res
<1> DEFINE StepSet == [op : STRING, res : STRING, fail : OnError, absent : STRING, skip : Nat]
<1>1. Steps \in {T.pre[opts], T.create[opts], T.remove[opts]}
  BY DEF Steps
<1>2. Steps \in Seq(StepSet)
  BY <1>1, TableAssumption DEF Base, T
<1> HIDE DEF StepSet
<1>3. at \in 1..Len(Steps) /\ at \in DOMAIN Steps
  BY <1>2 DEF Base, Busy
<1>4. step \in StepSet
  BY <1>2, <1>3 DEF step
<1>5. step.op \in STRING /\ step.res \in STRING /\ step.fail \in OnError /\ step.skip \in Nat
  BY <1>4 DEF StepSet
<1>6. phase = "pre" => step.op \notin {"make", "ensure", "delete"}
  BY <1>3, PreAssumption DEF Steps, step, Base, T
<1>7. phase = "create" /\ step.op = "delete" => step.res \notin T.shared
  BY <1>3, SharedAssumption DEF Steps, step, Base, T
<1>8. phase \in {"undo", "rm"} /\ step.op = "delete" /\ step.res \in T.shared =>
        /\ Checked(Steps, at)
        /\ step.res \in MayRace[driver] \/ \E u \in T.uses : u[2] = step.res
  BY <1>3, SharedAssumption DEF Steps, step, Base, T
<1>9. phase \in {"pre", "create", "undo", "rm"}
  BY DEF Base, Busy, Phases
<1> QED
  BY <1>5, <1>6, <1>7, <1>8, <1>9

\* The types of the variables, one by one.
LEMMA Types ==
  TypeOK <=> /\ Base
             /\ cloud \in SUBSET Resources /\ used \in SUBSET Resources /\ late \in SUBSET Resources
             /\ rec \in SUBSET Resources /\ mem \in SUBSET Resources
             /\ saved \in BOOLEAN /\ err \in BOOLEAN /\ force \in BOOLEAN /\ clean \in BOOLEAN /\ excused \in BOOLEAN
             /\ creates \in 0..MaxCreates /\ faults \in 0..MaxFaults /\ last \in Ends
<1>1. (\A R \in {cloud, used, late, rec, mem} : R \in SUBSET Resources)
        <=> /\ cloud \in SUBSET Resources /\ used \in SUBSET Resources /\ late \in SUBSET Resources
            /\ rec \in SUBSET Resources /\ mem \in SUBSET Resources
  OBVIOUS
<1> QED
  BY <1>1, Zenon DEF TypeOK, Base, Resources

\* The control variables of a method.
Control ==
  /\ phase \in Phases /\ at \in Nat \ {0} /\ err \in BOOLEAN /\ saved \in BOOLEAN
  /\ rec \in SUBSET Resources /\ last \in Ends
  /\ phase \in {"create", "undo", "rm"} => saved

\* A method that returns keeps them, and the record is there as long as it is needed.
LEMMA ReturnType ==
  ASSUME Control, mem \in SUBSET Resources, phase # "idle", NEW e \in BOOLEAN, Return(e)
  PROVE  Control' /\ mem' \in SUBSET Resources
<1>1. at' \in Nat \ {0} /\ err' \in BOOLEAN
  <2>1. at' = 1 /\ err' = FALSE
    BY DEF Return, KeepRecord
  <2>2. at' \in Nat \ {0}
    BY <2>1
  <2> QED
    BY <2>1, <2>2, Zenon
<1>2. CASE phase = "pre"
  <2>1. CASE e
    <3>1. phase' = "idle" /\ last' = "refused" /\ mem' = {} /\ saved' = saved /\ rec' = rec
      BY <1>2, <2>1 DEF Return, KeepRecord
    <3> QED
      BY <1>1, <3>1, Zenon DEF Control, Phases, Ends
  <2>2. CASE ~e
    <3>1. phase' = "create" /\ last' = last /\ mem' = mem /\ saved' = TRUE /\ rec' = {}
      BY <1>2, <2>2 DEF Return, KeepRecord, SaveFirst, SaveIds
    <3> QED
      BY <1>1, <3>1, Zenon DEF Control, Phases, Ends
  <2> QED
    BY <2>1, <2>2
<1>3. CASE phase = "create" /\ ~e
  <2>1. phase' = "idle" /\ last' = "created" /\ mem' = {} /\ rec' = mem /\ saved' = saved
    BY <1>3 DEF Return, KeepRecord, SaveIds
  <2> QED
    BY <1>1, <2>1, Zenon DEF Control, Phases, Ends
<1>4. CASE (phase = "create" /\ e) \/ phase = "undo"
  <2>1. phase' = "idle" /\ last' = "failed" /\ mem' = {} /\ rec' = rec /\ saved' = saved
    BY <1>4 DEF Return, KeepRecord
  <2> QED
    BY <1>1, <2>1, Zenon DEF Control, Phases, Ends
<1>5. CASE phase = "rm"
  <2>1. CASE e /\ ~force
    <3>1. phase' = "idle" /\ last' = "rmfailed" /\ mem' = {} /\ rec' = rec /\ saved' = saved
      BY <1>5, <2>1 DEF Return, KeepRecord
    <3> QED
      BY <1>1, <3>1, Zenon DEF Control, Phases, Ends
  <2>2. CASE ~(e /\ ~force)
    <3>1. phase' = "idle" /\ last' = "removed" /\ mem' = {} /\ rec' = {} /\ saved' = FALSE
      BY <1>5, <2>2 DEF Return, KeepRecord
    <3> QED
      BY <1>1, <3>1, Zenon DEF Control, Phases, Ends
  <2> QED
    BY <2>1, <2>2
<1> QED
  BY <1>2, <1>3, <1>4, <1>5 DEF Control, Phases

\* So does a step that fails.
LEMMA FailsType ==
  ASSUME Base, Control, mem \in SUBSET Resources, Busy, Fails
  PROVE  Control' /\ mem' \in SUBSET Resources
<1>1. step.fail \in OnError /\ step.skip \in Nat /\ phase # "idle"
  BY StepType DEF Busy
<1>2. CASE step.fail = "return"
  BY <1>1, <1>2, ReturnType DEF Fails, CallRemove
<1>3. CASE step.fail = "succeed"
  BY <1>1, <1>3, ReturnType DEF Fails, CallRemove
<1>4. CASE step.fail = "remove"
  <2>1. CASE phase = "create"
    BY <1>4, <2>1 DEF Fails, CallRemove, Control, Phases
  <2>2. CASE phase # "create"
    BY <1>1, <1>4, <2>2, ReturnType DEF Fails, CallRemove
  <2> QED
    BY <2>1, <2>2
<1>5. CASE step.fail = "collect"
  BY <1>5 DEF Fails, CallRemove, Control, Base
<1>6. CASE step.fail \in {"ignore", "skip", "retry"}
  <2>1. UNCHANGED <<phase, saved, rec, mem, err, last>>
    BY <1>6 DEF Fails, CallRemove, GoOn
  <2>2. at' = at \/ at' = at + 1 \/ at' = at + 1 + step.skip
    <3>1. CASE step.fail = "ignore"
      BY <3>1 DEF Fails, CallRemove, GoOn, Base
    <3>2. CASE step.fail = "skip"
      BY <3>2 DEF Fails, CallRemove, GoOn
    <3>3. CASE step.fail = "retry"
      BY <3>3 DEF Fails, CallRemove
    <3> QED
      BY <1>6, <3>1, <3>2, <3>3
  <2>3. at' \in Nat \ {0}
    BY <1>1, <2>2 DEF Base
  <2> QED
    BY <2>1, <2>3 DEF Control
<1> QED
  BY <1>1, <1>2, <1>3, <1>4, <1>5, <1>6 DEF OnError

\* A step that succeeds adds what it makes and its ids.
LEMMA EffectType ==
  ASSUME TypeOK, Busy
  PROVE  Effect \in SUBSET Resources /\ Learnt \in SUBSET Resources
<1>1. /\ cloud \in SUBSET Resources /\ mem \in SUBSET Resources /\ creates \in Nat /\ step.res \in STRING
  BY Types, StepType, BoundsAssumption
<1>2. New(step.res) \in Resources /\ <<step.res, 0>> \in Resources
  BY <1>1 DEF New, Resources
<1> QED
  BY <1>1, <1>2 DEF Effect, Learnt

\* A step that succeeds keeps the control variables.
LEMMA WorksType ==
  ASSUME TypeOK, Control, StepWorks
  PROVE  Control' /\ mem' \in SUBSET Resources
<1>1. Busy /\ Base /\ mem \in SUBSET Resources /\ step.skip \in Nat
  BY Types, StepType DEF StepWorks
<1>2. CASE EndsHere
  BY <1>1, <1>2, ReturnType DEF StepWorks, Busy
<1>3. CASE ~EndsHere
  <2>1. PICK n \in LeftOut : GoOn(n)
    BY <1>3 DEF StepWorks
  <2>2. n \in Nat
    BY <1>1 DEF LeftOut
  <2>3. mem' \in SUBSET Resources
    BY <1>1, <1>3, EffectType DEF StepWorks
  <2> QED
    BY <1>1, <2>1, <2>2, <2>3 DEF GoOn, Control, Base
<1> QED
  BY <1>2, <1>3

\* Types and control are kept by every step.
LEMMA TypeStep == TypeOK /\ Control /\ [Next]_vars => TypeOK' /\ Control'
<1> SUFFICES ASSUME TypeOK, Control, [Next]_vars PROVE TypeOK' /\ Control'
  OBVIOUS
<1>0. /\ Base /\ cloud \in SUBSET Resources /\ used \in SUBSET Resources /\ mem \in SUBSET Resources
      /\ rec \in SUBSET Resources /\ late \in SUBSET Resources
      /\ creates \in 0..MaxCreates /\ faults \in 0..MaxFaults
  BY Types
<1>1. CASE StepWorks
  <2>1. Control' /\ mem' \in SUBSET Resources /\ cloud' \in SUBSET Resources
    BY <1>1, WorksType, EffectType DEF StepWorks
  <2> QED
    BY <1>0, <1>1, <2>1, Types DEF StepWorks, Same, Control, TypeOK, Resources, T
<1>2. CASE StepFails
  <2>1. Control' /\ mem' \in SUBSET Resources
    BY <1>0, <1>2, FailsType DEF StepFails
  <2> QED
    BY <1>0, <1>2, <2>1, Types DEF StepFails, Same, Control, TypeOK, Resources, T
<1>3. CASE Done
  <2>1. Control' /\ mem' \in SUBSET Resources
    BY <1>0, <1>3, ReturnType DEF Done, TypeOK
  <2> QED
    BY <1>0, <1>3, <2>1, Types DEF Done, Same, Control, TypeOK, Resources, T
<1>4. CASE RequestFails
  <2>1. Control' /\ mem' \in SUBSET Resources
    BY <1>0, <1>4, FailsType DEF RequestFails
  <2>2. faults' \in 0..MaxFaults /\ clean' = FALSE /\ excused' \in BOOLEAN
    BY <1>0, <1>4, BoundsAssumption DEF RequestFails, Fault, TypeOK
  <2> QED
    BY <1>0, <1>4, <2>1, <2>2 DEF RequestFails, Fault, Control, TypeOK, Resources, T
<1>5. CASE AnswerLost
  <2>1. Control' /\ mem' \in SUBSET Resources /\ cloud' \in SUBSET Resources
    BY <1>0, <1>5, FailsType, EffectType DEF AnswerLost
  <2>2. faults' \in 0..MaxFaults /\ clean' = FALSE
    BY <1>0, <1>5, BoundsAssumption DEF AnswerLost, Fault
  <2>3. excused' \in BOOLEAN
    BY <1>5, Zenon DEF AnswerLost, Fault
  <2> QED
    BY <1>0, <1>5, <2>1, <2>2, <2>3 DEF AnswerLost, Fault, Control, TypeOK, Resources, T
<1>6. CASE Crash
  <2>1. faults' \in 0..MaxFaults /\ clean' = FALSE /\ err' = FALSE
    BY <1>0, <1>6, BoundsAssumption DEF Crash, Fault
  <2>2. excused' \in BOOLEAN
    BY <1>6, Zenon DEF Crash, Fault
  <2>3. /\ phase' = "idle" /\ at' = 1 /\ mem' = {} /\ last' = "crashed"
        /\ UNCHANGED <<driver, opts, force, creates, cloud, used, late, saved, rec>>
    BY <1>6 DEF Crash, Fault
  <2>4. phase' \in Phases /\ last' \in Ends /\ at' \in Nat \ {0} /\ mem' \in SUBSET Resources
    BY <2>3 DEF Phases, Ends
  <2>5. phase' \notin {"create", "undo", "rm"} /\ err' \in BOOLEAN /\ clean' \in BOOLEAN
    BY <2>1, <2>3, Zenon
  <2>6. Control'
    BY <2>3, <2>4, <2>5 DEF Control
  <2> QED
    BY <1>0, <2>1, <2>2, <2>3, <2>4, <2>5, <2>6 DEF TypeOK, Resources, T
<1>7. CASE Vanish
  <2>1. faults' \in 0..MaxFaults /\ clean' = FALSE /\ excused' = excused
    BY <1>0, <1>7, BoundsAssumption DEF Vanish, Fault, TypeOK
  <2>2. cloud' \in SUBSET Resources
    BY <1>0, <1>7 DEF Vanish
  <2> QED
    BY <1>0, <1>7, <2>1, <2>2 DEF Vanish, Fault, Control, TypeOK, Resources, T, Ends
<1>8. CASE Share
  <2>1. faults' \in 0..MaxFaults /\ clean' = FALSE /\ excused' = excused
    BY <1>0, <1>8, BoundsAssumption DEF Share, Fault, TypeOK
  <2>2. used' \in SUBSET Resources /\ late' \in SUBSET Resources
    BY <1>0, <1>8 DEF Share
  <2> QED
    BY <1>0, <1>8, <2>1, <2>2 DEF Share, Fault, Control, TypeOK, Resources, T
<1>9. CASE StartCreate
  BY <1>0, <1>9, BoundsAssumption DEF StartCreate, Control, TypeOK, Resources, T, Phases, Ends
<1>10. CASE StartRm
  <2>1. force' \in BOOLEAN /\ excused' \in BOOLEAN
    BY <1>10, Zenon DEF StartRm, TypeOK
  <2> QED
    BY <1>0, <1>10, <2>1 DEF StartRm, Control, TypeOK, Resources, T, Phases, Ends
<1>11. CASE UNCHANGED vars
  BY <1>11 DEF vars, TypeOK, Control, T
<1> QED
  BY <1>1, <1>2, <1>3, <1>4, <1>5, <1>6, <1>7, <1>8, <1>9, <1>10, <1>11 DEF Next

\* Both hold at first.
LEMMA InitType == Init => TypeOK /\ Control
<1> SUFFICES ASSUME Init PROVE TypeOK /\ Control
  OBVIOUS
<1>1. T.shared \subseteq STRING /\ T.foreign \subseteq STRING
  BY TableAssumption DEF Init, T
<1>2. used \in SUBSET Resources
  BY <1>1 DEF Init, T, Resources
<1>3. saved \in BOOLEAN /\ err \in BOOLEAN /\ force \in BOOLEAN /\ clean \in BOOLEAN /\ excused \in BOOLEAN
  BY Zenon DEF Init
<1>4. Base /\ cloud \in SUBSET Resources /\ late \in SUBSET Resources /\ rec \in SUBSET Resources /\ mem \in SUBSET Resources
  BY <1>2 DEF Init, Base, T, Phases
<1>5. creates \in 0..MaxCreates /\ faults \in 0..MaxFaults /\ last \in Ends
  BY BoundsAssumption DEF Init, Ends
<1>6. TypeOK
  BY <1>2, <1>3, <1>4, <1>5, Types
<1>7. phase \notin {"create", "undo", "rm"}
  BY DEF Init
<1> QED
  BY <1>3, <1>4, <1>5, <1>6, <1>7 DEF Control, Base

\* TypeOK holds for every table of drivers.
THEOREM TypeCorrect == Spec => []TypeOK
  BY InitType, TypeStep, PTL DEF Spec

\* RecordFirst (libmachine.go:150): every driver has a record on disk before the first
\* resource is made.
THEOREM RecordedFirst == Spec => RecordFirst
<1>1. ASSUME TypeOK, Control, [Next]_vars, cloud' \ cloud # {} PROVE saved
  <2>1. Busy /\ cloud' = Effect
    BY <1>1 DEF Next, StepWorks, StepFails, Done, RequestFails, AnswerLost, Crash, Vanish, Share, StartCreate,
                StartRm, vars
  <2>2. step.op \in {"make", "ensure"}
    BY <1>1, <2>1 DEF Effect
  <2>3. phase # "pre" /\ phase # "idle"
    BY <1>1, <2>1, <2>2, StepType, Types DEF Busy
  <2> QED
    BY <1>1, <2>3 DEF Control, Phases
<1>2. TypeOK /\ Control /\ [Next]_vars => [cloud' \ cloud # {} => saved]_vars
  BY <1>1
<1> QED
  BY <1>2, InitType, TypeStep, PTL DEF Spec, RecordFirst

--------------------------------------------------------------------------------
(* How a driver moves.                                                      *)

\* A step of one of the driver's methods.
Moves == StepWorks \/ StepFails \/ RequestFails \/ AnswerLost

\* A method that goes on.
Advances ==
  /\ UNCHANGED <<phase, saved, rec, last>>
  /\ at' \in {at, at + 1, at + 1 + step.skip}
  /\ \/ Works /\ cloud' = Effect /\ mem' = Learnt /\ at' # at
     \/ step.fail \in {"collect", "ignore", "skip", "retry"} /\ mem' = mem /\ (step.fail = "retry" => at' = at)

\* Create that failed and calls Remove.
Undoes == phase = "create" /\ phase' = "undo" /\ at' = 1 /\ UNCHANGED <<saved, rec, mem, last>>

\* Nobody but the actions that are steps of a method changes its place in it.
LEMMA MoveCases ==
  ASSUME TypeOK, Moves
  PROVE  /\ Busy /\ cloud' \in {cloud, Effect} /\ UNCHANGED <<driver, opts, used, late, creates>>
         /\ \/ Advances
            \/ Undoes
            \/ Return(TRUE)
            \/ Return(FALSE) /\ (EndsHere \/ step.fail = "succeed")
<1>1. Busy /\ cloud' \in {cloud, Effect} /\ UNCHANGED <<driver, opts, used, late, creates>>
  BY DEF Moves, StepWorks, StepFails, RequestFails, AnswerLost, Same, Fault
<1>2. Base /\ step.skip \in Nat /\ step.fail \in OnError
  BY <1>1, Types, StepType
<1>3. CASE Fails
  <2>1. CASE step.fail \in {"return", "succeed"}
    BY <1>1, <1>3, <2>1 DEF Fails, CallRemove
  <2>2. CASE step.fail = "remove"
    BY <1>1, <1>3, <2>2 DEF Fails, CallRemove, Undoes
  <2>3. CASE step.fail = "collect"
    BY <1>1, <1>3, <2>3 DEF Fails, CallRemove, Advances
  <2>4. CASE step.fail = "ignore"
    <3>1. at' = at + 1 + 0 /\ UNCHANGED <<phase, saved, rec, last, mem>>
      BY <1>3, <2>4 DEF Fails, CallRemove, GoOn
    <3>2. at' = at + 1
      BY <1>2, <3>1 DEF Base
    <3> QED
      BY <1>1, <2>4, <3>1, <3>2 DEF Advances
  <2>5. CASE step.fail = "skip"
    BY <1>1, <1>3, <2>5 DEF Fails, CallRemove, Advances, GoOn
  <2>6. CASE step.fail = "retry"
    BY <1>1, <1>3, <2>6 DEF Fails, CallRemove, Advances
  <2> QED
    BY <1>1, <1>2, <2>1, <2>2, <2>3, <2>4, <2>5, <2>6 DEF OnError
<1>4. CASE StepWorks
  <2>1. CASE EndsHere
    BY <1>1, <1>4, <2>1 DEF StepWorks
  <2>2. CASE ~EndsHere
    <3>1. PICK n \in LeftOut : GoOn(n)
      BY <1>4, <2>2 DEF StepWorks
    <3>2. n \in {0, step.skip}
      BY <3>1 DEF LeftOut
    <3>3. at' \in {at, at + 1, at + 1 + step.skip} /\ at' # at /\ UNCHANGED <<phase, saved, rec, last>>
      BY <1>2, <3>1, <3>2 DEF GoOn, Base
    <3> QED
      BY <1>1, <1>4, <2>2, <3>3 DEF StepWorks, Advances
  <2> QED
    BY <2>1, <2>2
<1> QED
  BY <1>1, <1>3, <1>4 DEF Moves, StepFails, RequestFails, AnswerLost

\* A driver that goes on stays before a gate, or is at the gate and gets through it.
LEMMA GatePassed ==
  ASSUME TypeOK, Moves, Advances, NEW r, NEW g, Gate(Steps, r, g), at <= g
  PROVE  at' <= g \/ (at = g /\ Works /\ cloud' = Effect /\ mem' = Learnt)
<1>1. Base /\ Busy /\ step.skip \in Nat
  BY MoveCases, Types, StepType
<1>2. g \in Nat
  <2>1. Steps \in {T.pre[opts], T.create[opts], T.remove[opts]}
    BY DEF Steps
  <2>2. Steps \in Seq([op : STRING, res : STRING, fail : OnError, absent : STRING, skip : Nat])
    BY <1>1, <2>1, TableAssumption DEF Base, T
  <2> QED
    BY <2>2 DEF Gate
<1>3. CASE at < g
  <2>1. at \in 1..g - 1
    BY <1>1, <1>2, <1>3 DEF Base
  <2>2. at + step.skip < g
    BY <2>1 DEF Gate, step
  <2> QED
    BY <1>1, <1>2, <2>2 DEF Advances, Base
<1>4. CASE at = g
  <2>1. step.fail \in {"return", "remove", "retry"}
    BY <1>4 DEF Gate, step
  <2> QED
    BY <1>4, <1>2, <2>1 DEF Advances
<1> QED
  BY <1>1, <1>2, <1>3, <1>4 DEF Base

\* What the other actions leave alone.
LEMMA OtherCases ==
  ASSUME [Next]_vars, ~Moves
  PROVE  /\ driver' = driver /\ opts' = opts /\ (cloud' # cloud => Vanish) /\ (used' # used => Share)
         /\ Done \/ Crash \/ Vanish \/ Share \/ StartCreate \/ StartRm \/ UNCHANGED vars
<1>1. Done \/ Crash \/ Vanish \/ Share \/ StartCreate \/ StartRm \/ UNCHANGED vars
  BY DEF Next, Moves
<1> QED
  BY <1>1 DEF Done, Crash, Vanish, Share, StartCreate, StartRm, vars, Same, Fault

--------------------------------------------------------------------------------
(* What others use.                                                         *)

\* Who is about to delete what the step before has found unused: nothing here uses it, and
\* who has begun to use it since is noted.
CheckedInv ==
  phase \in {"undo", "rm"} /\ Busy /\ Checked(Steps, at) =>
    /\ ~InUse(step.res)
    /\ \A x \in used : step.res \in T.shared /\ x \in Addressed(step.res) => x \in late /\ ~clean

\* The step that looks is the only one that leads to it.
LEMMA CheckedMoves ==
  ASSUME TypeOK, CheckedInv, Moves
  PROVE  CheckedInv'
<1>1. /\ Base /\ Busy /\ cloud' \in {cloud, Effect} /\ UNCHANGED <<driver, opts, used, late, creates>>
      /\ step.op \in STRING /\ step.skip \in Nat
  BY MoveCases, Types, StepType
<1>2. clean' = clean \/ clean' = FALSE
  BY DEF Moves, StepWorks, StepFails, RequestFails, AnswerLost, Same, Fault
<1> SUFFICES ASSUME (phase \in {"undo", "rm"})', Busy', Checked(Steps, at)'
             PROVE  (/\ ~InUse(step.res)
                     /\ \A x \in used : step.res \in T.shared /\ x \in Addressed(step.res) => x \in late /\ ~clean)'
  BY DEF CheckedInv
<1>3. Advances /\ phase \in {"undo", "rm"} /\ Steps' = Steps /\ T' = T
  <2>1. ~Undoes
    <3>1. Steps' \in Seq([op : STRING, res : STRING, fail : OnError, absent : STRING, skip : Nat])
      BY <1>1, TableAssumption DEF Base, T, Steps
    <3>2. at' # 1
      BY <3>1 DEF Checked
    <3> QED
      BY <3>2 DEF Undoes
  <2>2. \A e \in BOOLEAN : ~Return(e)
    BY <1>1 DEF Return, KeepRecord, Busy, Base, Phases
  <2>3. Advances
    BY <2>1, <2>2, MoveCases
  <2> QED
    BY <1>1, <2>3 DEF Advances, Steps, T
<1>4. Checked(Steps, at') /\ at' \in Nat /\ at \in Nat \ {0}
  <2>1. Checked(Steps, at')
    BY <1>3 DEF Checked
  <2>2. at' \in {at, at + 1, at + 1 + step.skip}
    BY <1>3 DEF Advances
  <2> QED
    BY <1>1, <2>1, <2>2 DEF Base
<1>5. CASE at' = at
  <2>1. step' = step /\ step.op = "delete" /\ Checked(Steps, at)
    BY <1>3, <1>4, <1>5 DEF step, Checked
  <2>2. cloud' \subseteq cloud
    BY <1>1, <2>1 DEF Effect
  <2>3. mem' \subseteq mem
    BY <1>3, <2>1 DEF Advances, Learnt
  <2>4. Addressed(step.res)' \subseteq Addressed(step.res)
    BY <1>3, <2>1, <2>3 DEF Addressed
  <2>5. ~InUse(step.res)'
    BY <1>1, <1>3, <2>1, <2>2 DEF CheckedInv, InUse
  <2>6. ASSUME NEW x \in used, step.res \in T.shared, x \in Addressed(step.res) PROVE x \in late /\ ~clean
    BY <1>1, <1>3, <2>1, <2>6 DEF CheckedInv
  <2> QED
    BY <1>1, <1>2, <1>3, <2>1, <2>4, <2>5, <2>6
<1>6. CASE at' # at
  <2>1. at = at' - 1
    <3>1. CASE at' = at + 1
      BY <1>4, <3>1
    <3>2. CASE at' = at + 1 + step.skip /\ step.skip > 0
      <4>1. at \in 1..at' - 2 /\ at + step.skip = at' - 1
        BY <1>1, <1>4, <3>2
      <4>2. at + Steps[at].skip # at' - 1
        BY <1>4, <4>1 DEF Checked
      <4> QED
        BY <4>1, <4>2 DEF step
    <3>3. at' \in {at, at + 1, at + 1 + step.skip}
      BY <1>3 DEF Advances
    <3>4. step.skip = 0 \/ step.skip > 0
      BY <1>1
    <3>5. CASE step.skip = 0
      <4>1. at' = at + 1
        BY <1>4, <1>6, <3>3, <3>5
      <4> QED
        BY <3>1, <4>1
    <3> QED
      BY <1>6, <3>1, <3>2, <3>3, <3>4, <3>5
  <2>2. /\ step.op = "ifunused" /\ step.res = Steps[at'].res /\ step.skip > 0
        /\ step.fail \in {"return", "remove", "retry"}
    BY <1>4, <2>1 DEF Checked, step
  <2>3. Works /\ StepWorks /\ ~EndsHere
    <3>1. ~Fails
      <4>1. CASE step.fail = "retry"
        BY <1>6, <4>1 DEF Fails
      <4>2. CASE step.fail \in {"return", "remove"}
        <5>1. Fails => Return(TRUE)
          BY <1>3, <4>2 DEF Fails
        <5>2. ~Return(TRUE)
          BY <1>1, <1>3 DEF Return, KeepRecord
        <5> QED
          BY <5>1, <5>2
      <4> QED
        BY <2>2, <4>1, <4>2
    <3> QED
      BY <2>2, <3>1 DEF Moves, StepWorks, StepFails, RequestFails, AnswerLost, EndsHere
  <2>4. There(step.res) /\ ~InUse(step.res) /\ ~Attached(step.res)
    <3>1. PICK n \in LeftOut : GoOn(n)
      BY <2>3 DEF StepWorks
    <3>2. at' = at + 1 + n
      BY <3>1 DEF GoOn
    <3>3. ASSUME ~There(step.res) \/ InUse(step.res) \/ Attached(step.res) PROVE FALSE
      <4>1. n = step.skip
        BY <2>2, <3>1, <3>3 DEF LeftOut
      <4> QED
        BY <1>1, <1>4, <2>1, <2>2, <3>2, <4>1
    <3> QED
      BY <3>3
  <2>5. cloud' = cloud /\ mem' = mem
    BY <2>2, <2>3 DEF StepWorks, Effect, Learnt
  <2>6. step'.res = step.res
    BY <1>3, <2>2 DEF step
  <2>7. ~InUse(step.res)'
    BY <1>3, <2>4, <2>5, <2>6 DEF InUse
  <2>8. ~Attached(step.res)'
    BY <1>1, <1>3, <2>4, <2>5, <2>6 DEF Attached, Addressed
  <2> QED
    BY <2>7, <2>8 DEF Attached
<1> QED
  BY <1>5, <1>6

LEMMA CheckedStep == TypeOK /\ CheckedInv /\ [Next]_vars => CheckedInv'
<1> SUFFICES ASSUME TypeOK, CheckedInv, [Next]_vars PROVE CheckedInv'
  OBVIOUS
<1>1. CASE Moves
  BY <1>1, CheckedMoves
<1>2. CASE Done \/ Crash \/ StartCreate
  <2>1. phase' \notin {"undo", "rm"}
    BY <1>2, Types DEF Done, Crash, StartCreate, Return, KeepRecord, Base, Phases
  <2> QED
    BY <2>1 DEF CheckedInv
<1>3. CASE StartRm
  <2>1. at' = 1 /\ phase' = "rm" /\ driver' = driver /\ opts' = opts /\ Base
    BY <1>3, Types DEF StartRm
  <2>2. Steps' \in Seq([op : STRING, res : STRING, fail : OnError, absent : STRING, skip : Nat])
    BY <2>1, TableAssumption DEF Base, T, Steps
  <2>3. ~Checked(Steps, at)'
    BY <2>1, <2>2 DEF Checked
  <2> QED
    BY <2>3 DEF CheckedInv
<1>4. CASE Vanish
  <2>1. UNCHANGED <<driver, opts, used, late, phase, at, mem>> /\ cloud' \subseteq cloud /\ clean' = FALSE
    BY <1>4 DEF Vanish, Fault
  <2>2. Steps' = Steps /\ T' = T /\ step' = step /\ Busy' = Busy
    BY <2>1 DEF Steps, T, step, Busy
  <2>3. InUse(step.res)' => InUse(step.res)
    BY <2>1, <2>2 DEF InUse
  <2> QED
    BY <2>1, <2>2, <2>3 DEF CheckedInv, Addressed
<1>5. CASE Share
  <2>1. PICK y \in cloud \ used : /\ used' = used \cup {y}
                                 /\ late' = IF AboutToDelete(y[1]) THEN late \cup {y} ELSE late
    BY <1>5 DEF Share
  <2>2. UNCHANGED <<driver, opts, cloud, phase, at, mem>> /\ clean' = FALSE
    BY <1>5 DEF Share, Fault
  <2>3. Steps' = Steps /\ T' = T /\ step' = step /\ Busy' = Busy
    BY <2>2 DEF Steps, T, step, Busy
  <2> SUFFICES ASSUME phase \in {"undo", "rm"}, Busy, Checked(Steps, at)
               PROVE  (/\ ~InUse(step.res)
                       /\ \A x \in used : step.res \in T.shared /\ x \in Addressed(step.res) => x \in late /\ ~clean)'
    BY <2>2, <2>3 DEF CheckedInv
  <2>4. ~InUse(step.res)'
    BY <2>2, <2>3 DEF CheckedInv, InUse
  <2>5. Addressed(step.res)' = Addressed(step.res)
    BY <2>2, <2>3 DEF Addressed
  <2>6. ASSUME NEW x \in used', step.res \in T.shared, x \in Addressed(step.res) PROVE x \in late'
    <3>1. x[1] = step.res
      BY <2>6 DEF Addressed
    <3>2. CASE x = y
      BY <2>1, <3>1, <3>2 DEF AboutToDelete, Checked, step
    <3>3. CASE x \in used
      BY <2>1, <2>6, <3>3 DEF CheckedInv
    <3> QED
      BY <2>1, <3>2, <3>3
  <2> QED
    BY <2>2, <2>3, <2>4, <2>5, <2>6
<1>6. CASE UNCHANGED vars
  BY <1>6 DEF vars, CheckedInv, Steps, T, step, Busy, InUse, Addressed
<1> QED
  BY <1>1, <1>2, <1>3, <1>4, <1>5, <1>6 DEF Next, Moves

LEMMA InitChecked == Init => CheckedInv
  BY DEF Init, CheckedInv

\* The platform does not refuse to delete it, unless somebody intervened.
LEMMA CheckedFree ==
  ASSUME CheckedInv, phase \in {"undo", "rm"}, Busy, Checked(Steps, at), clean
  PROVE  ~Refuses(step.res)
  BY DEF CheckedInv, Refuses, Attached

\* SharedKept (cleanup.go:41-54): every driver looks whether something is used before it deletes
\* it, and what comes into use between the two requests it deletes only if it is of a kind of
\* MayRace.
THEOREM SharedSafe == Spec => []SharedKept
<1>1. Init => SharedKept
  BY DEF Init, SharedKept
<1>2. ASSUME TypeOK, CheckedInv, SharedKept, [Next]_vars PROVE SharedKept'
  <2>1. SUFFICES ASSUME NEW x \in used', x[1] \in T'.shared
                 PROVE  x \in cloud' \/ (x \in late' /\ x[1] \in MayRace[driver'])
    BY DEF SharedKept
  <2>2. T' = T /\ driver' = driver /\ late \subseteq late'
    BY <1>2 DEF T, Next, StepWorks, StepFails, Done, RequestFails, AnswerLost, Crash, Vanish, Share, StartCreate,
                StartRm, Same, Fault, vars
  <2>3. x \in cloud \/ (x \in late' /\ x[1] \in MayRace[driver'])
    BY <1>2, <2>1, <2>2 DEF SharedKept, Next, StepWorks, StepFails, Done, RequestFails, AnswerLost, Crash, Vanish,
                Share, StartCreate, StartRm, Same, vars
  <2>4. CASE cloud' = cloud
    BY <2>3, <2>4
  <2>5. CASE Busy /\ Works /\ cloud' = Effect /\ used' = used
    <3>1. CASE step.op = "delete" /\ x \in Addressed(step.res)
      <4>1. step.res = x[1] /\ step.res \in T.shared /\ x \in used
        BY <2>1, <2>2, <2>5, <3>1 DEF Addressed
      <4>2. phase \in {"undo", "rm"} /\ Checked(Steps, at)
        BY <1>2, <2>5, <3>1, <4>1, StepType, Types
      <4>3. x \in late
        BY <1>2, <2>5, <3>1, <4>1, <4>2 DEF CheckedInv
      <4>4. CASE x \in cloud
        <5>1. ~Refuses(step.res)
          BY <2>5, <3>1, <4>4 DEF Works, There
        <5>2. ~\E u \in T.uses : u[2] = step.res
          BY <3>1, <4>1, <5>1 DEF Refuses, Attached
        <5>3. step.res \in MayRace[driver]
          BY <1>2, <2>5, <3>1, <4>1, <5>2, StepType, Types
        <5> QED
          BY <2>2, <4>1, <4>3, <5>3
      <4> QED
        BY <2>3, <4>4
    <3>2. CASE ~(step.op = "delete" /\ x \in Addressed(step.res))
      BY <2>3, <2>5, <3>2 DEF Effect
    <3> QED
      BY <3>1, <3>2
  <2>6. CASE Vanish
    <3>1. PICK y \in cloud \ used : y[1] = T.vm /\ cloud' = {z \in cloud : z # y /\ <<z[1], y[1]>> \notin T.uses}
      BY <2>6 DEF Vanish
    <3>2. <<x[1], T.vm>> \notin T.uses
      BY <1>2, <2>1, <2>2, SharedAssumption, Types DEF Base, T
    <3> QED
      BY <2>1, <2>3, <2>6, <3>1, <3>2 DEF Vanish
  <2> QED
    BY <1>2, <2>4, <2>5, <2>6 DEF Next, StepWorks, StepFails, Done, RequestFails, AnswerLost, Crash, Share, StartCreate,
                StartRm, Same, vars
<1> QED
  BY <1>1, <1>2, InitChecked, CheckedStep, TypeCorrect, PTL DEF Spec

--------------------------------------------------------------------------------
(* What Create has made.                                                    *)

\* The driver is one that makes virtual machines.
Makes == driver \notin MayPretend /\ T.vm # ""

\* The virtual machine is on the platform once Create is past step g, and its id in the
\* driver's fields once it is past step k; when Create has returned, the record has it.
CreateInv ==
  /\ last = "created" => phase = "idle"
  /\ Makes /\ phase = "create" =>
       \A g, k \in DOMAIN T.create[opts] : MakesVM(T, opts, g, k) =>
         /\ at > g => New(T.vm) \in cloud
         /\ at > k /\ T.vm \in T.stored => New(T.vm) \in mem
  /\ CreatedExists

\* No step of Create undoes it.
LEMMA VMKept ==
  ASSUME TypeOK, Busy, phase = "create", NEW g, NEW k, MakesVM(T, opts, g, k)
  PROVE  (New(T.vm) \in cloud => New(T.vm) \in Effect) /\ (New(T.vm) \in mem => New(T.vm) \in Learnt)
<1>1. Base /\ Steps = T.create[opts]
  BY Types DEF Steps
<1>2. T.create[opts] \in Seq([op : STRING, res : STRING, fail : OnError, absent : STRING, skip : Nat])
  BY <1>1, TableAssumption DEF Base, T
<1>3. at \in DOMAIN T.create[opts]
  BY <1>1, <1>2 DEF Busy, Base
<1>4. step.op = "delete" => step.res # T.vm
  BY <1>1, <1>3 DEF MakesVM, Does, step
<1>5. New(T.vm) \notin Addressed(step.res) \/ step.op # "delete"
  BY <1>4 DEF Addressed, New
<1> QED
  BY <1>5 DEF Effect, Learnt

\* A step of Create that goes on keeps what the driver knows of its virtual machine.
LEMMA CreateAdvances ==
  ASSUME TypeOK, CreateInv, Moves, Advances, phase = "create", Makes,
         NEW g \in Nat, NEW k \in Nat, g \in DOMAIN T.create[opts], k \in DOMAIN T.create[opts],
         MakesVM(T, opts, g, k)
  PROVE  /\ at' > g => New(T.vm) \in cloud'
         /\ at' > k /\ T.vm \in T.stored => New(T.vm) \in mem'
<1>1. Busy /\ cloud' \in {cloud, Effect} /\ Base /\ Steps = T.create[opts] /\ step.skip \in Nat
  BY MoveCases, Types, StepType DEF Steps
<1>2. g \in Nat /\ k \in Nat /\ at \in Nat /\ at' \in Nat /\ g <= k
  <2>1. g <= k
    BY DEF MakesVM
  <2>2. at \in Nat /\ at' \in Nat
    BY <1>1 DEF Base, Advances
  <2> QED
    BY <2>1, <2>2
<1>6. (New(T.vm) \in cloud => New(T.vm) \in Effect) /\ (New(T.vm) \in mem => New(T.vm) \in mem')
  BY <1>1, VMKept DEF Advances
<1>7. at' > g => New(T.vm) \in cloud'
  <2>1. CASE at > g
    BY <1>1, <1>6, <2>1 DEF CreateInv
  <2>2. CASE at <= g /\ at' > g
    <3>1. at = g /\ Works /\ cloud' = Effect
      BY <1>1, <1>2, <2>2, GatePassed DEF MakesVM
    <3>2. step.res = T.vm /\ (step.op \in {"make", "ensure"} \/ (step.op = "must" /\ T.vm \notin T.stored))
      BY <1>1, <3>1 DEF MakesVM, Gate, step
    <3>3. CASE step.op \in {"make", "ensure"}
      BY <3>1, <3>2, <3>3 DEF Effect
    <3>4. CASE step.op = "must" /\ T.vm \notin T.stored
      <4>1. <<T.vm, 0>> \in cloud
        BY <3>1, <3>2, <3>4 DEF Works, There, Addressed
      <4>2. New(T.vm) = <<T.vm, 0>>
        BY <3>4 DEF New, Numbered
      <4> QED
        BY <3>1, <1>6, <4>1, <4>2
    <3> QED
      BY <3>2, <3>3, <3>4
  <2> QED
    BY <1>2, <2>1, <2>2
<1>8. at' > k /\ T.vm \in T.stored => New(T.vm) \in mem'
  <2>1. CASE at > k /\ T.vm \in T.stored
    BY <1>6, <2>1 DEF CreateInv
  <2>2. CASE at <= k /\ at' > k /\ T.vm \in T.stored
    <3>1. at = k /\ mem' = Learnt
      BY <1>1, <1>2, <2>2, GatePassed DEF MakesVM
    <3>2. step.res = T.vm /\ (step.op = "keep" \/ (step.op = "make" /\ step.absent # "unseen"))
      BY <1>1, <2>2, <3>1 DEF MakesVM, Gate, step
    <3>3. CASE step.op = "make" /\ step.absent # "unseen"
      BY <2>2, <3>1, <3>2, <3>3 DEF Learnt
    <3>4. CASE step.op = "keep"
      <4>1. g # k
        BY <1>1, <2>2, <3>1, <3>4 DEF MakesVM, step
      <4>2. New(T.vm) \in cloud
        BY <1>2, <3>1, <4>1 DEF CreateInv
      <4> QED
        BY <3>1, <3>2, <3>4, <4>2 DEF Learnt
    <3> QED
      BY <3>2, <3>3, <3>4
  <2> QED
    BY <1>2, <2>1, <2>2
<1> QED
  BY <1>7, <1>8

\* A Create that returns without an error is past both steps.
LEMMA CreateReturns ==
  ASSUME TypeOK, CreateInv, Moves \/ Done, Return(FALSE), phase = "create", Makes
  PROVE  CreatedExists'
<1>1. T' = T
  BY MoveCases DEF Done, Same, T
<1>2. Base /\ Steps = T.create[opts]
  BY Types DEF Steps
<1>3. PICK g, k \in DOMAIN T.create[opts] : MakesVM(T, opts, g, k)
  BY <1>2, CreateAssumption DEF Base, T, Makes
<1>4. T.create[opts] \in Seq([op : STRING, res : STRING, fail : OnError, absent : STRING, skip : Nat])
  BY <1>2, TableAssumption DEF Base, T
<1>5. g \in Nat /\ k \in Nat /\ at \in Nat /\ k <= Len(T.create[opts]) /\ g <= k
  BY <1>2, <1>3, <1>4 DEF MakesVM, Base
<1>6. New(T.vm) \in cloud /\ (T.vm \in T.stored => New(T.vm) \in mem) => CreatedExists'
  <2>1. last' = "created" /\ rec' = mem
    BY DEF Return, KeepRecord, SaveIds
  <2>2. cloud' = cloud \/ (Busy /\ cloud' = Effect)
    BY MoveCases DEF Done
  <2>3. New(T.vm) \in cloud => New(T.vm) \in cloud'
    BY <1>3, <2>2, VMKept
  <2>4. New(T.vm)[1] = T.vm
    BY DEF New
  <2> QED
    BY <1>1, <2>1, <2>3, <2>4 DEF CreatedExists
<1>7. at > k
  <2>1. CASE Done
    BY <1>2, <1>5, <1>4, <2>1 DEF Done
  <2>2. CASE Moves
    <3>1. EndsHere \/ step.fail = "succeed"
      BY <2>2, MoveCases DEF Advances, Undoes, Return, KeepRecord
    <3>2. ~(at \in 1..k)
      BY <1>2, <1>3, <3>1 DEF MakesVM, NoEarlySuccess, EndsHere, step
    <3> QED
      BY <1>2, <1>5, <3>2 DEF Base
  <2> QED
    BY <2>1, <2>2
<1> QED
  BY <1>3, <1>5, <1>6, <1>7 DEF CreateInv

\* Every step keeps CreateInv.
LEMMA CreateStep == TypeOK /\ Control /\ CreateInv /\ [Next]_vars => CreateInv'
<1> SUFFICES ASSUME TypeOK, Control, CreateInv, [Next]_vars PROVE CreateInv'
  OBVIOUS
<1>1. CASE Moves
  <2>0. /\ phase # "idle" /\ last # "created" /\ T' = T /\ opts' = opts /\ driver' = driver /\ creates' = creates
        /\ phase \in Phases
    BY <1>1, MoveCases DEF CreateInv, Busy, T, TypeOK
  <2>1. CASE Advances
    <3>1. last' # "created"
      BY <2>0, <2>1 DEF Advances
    <3>2. New(T.vm)' = New(T.vm) /\ (Makes <=> Makes')
      BY <2>0 DEF New, Numbered, Makes
    <3>3. DOMAIN T.create[opts] \subseteq Nat
      <4>1. T.create[opts] \in Seq([op : STRING, res : STRING, fail : OnError, absent : STRING, skip : Nat])
        BY TableAssumption, Types DEF Base, T
      <4> QED
        BY <4>1
    <3>4. ASSUME Makes, phase = "create", NEW g \in DOMAIN T.create[opts], NEW k \in DOMAIN T.create[opts],
                 MakesVM(T, opts, g, k)
          PROVE  /\ at' > g => New(T.vm) \in cloud'
                 /\ at' > k /\ T.vm \in T.stored => New(T.vm) \in mem'
      BY <1>1, <2>1, <3>3, <3>4, CreateAdvances
    <3>5. phase' = phase
      BY <2>1 DEF Advances
    <3> QED
      BY <2>0, <3>1, <3>2, <3>4, <3>5 DEF CreateInv, CreatedExists
  <2>2. CASE Undoes
    <3>1. last' # "created" /\ phase' = "undo"
      BY <2>0, <2>2 DEF Undoes
    <3> QED
      BY <3>1 DEF CreateInv, CreatedExists
  <2>3. CASE Return(TRUE)
    <3>1. last' # "created" /\ phase' = "idle"
      BY <2>0, <2>3 DEF Return, KeepRecord, Phases
    <3> QED
      BY <3>1 DEF CreateInv, CreatedExists
  <2>4. CASE Return(FALSE)
    <3>1. CASE phase = "create"
      <4>1. phase' = "idle"
        BY <2>4, <3>1 DEF Return, KeepRecord
      <4>2. CreatedExists'
        BY <1>1, <2>0, <2>4, <3>1, CreateReturns DEF CreatedExists, Makes
      <4> QED
        BY <4>1, <4>2 DEF CreateInv
    <3>2. CASE phase = "pre"
      <4>1. phase' = "create" /\ last' # "created" /\ at' = 1
        BY <2>0, <2>4, <3>2 DEF Return, KeepRecord
      <4>2. \A g, k \in DOMAIN T.create[opts] : MakesVM(T, opts, g, k) => ~(1 > g) /\ ~(1 > k)
        <5>1. T.create[opts] \in Seq([op : STRING, res : STRING, fail : OnError, absent : STRING, skip : Nat])
          BY TableAssumption, Types DEF Base, T
        <5> QED
          BY <5>1
      <4> QED
        BY <2>0, <4>1, <4>2 DEF CreateInv, CreatedExists
    <3>3. CASE phase \in {"undo", "rm"}
      <4>1. phase' = "idle" /\ last' # "created"
        BY <2>4, <3>3 DEF Return, KeepRecord
      <4> QED
        BY <4>1 DEF CreateInv, CreatedExists
    <3> QED
      BY <2>0, <3>1, <3>2, <3>3 DEF Phases
  <2> QED
    BY <1>1, <2>1, <2>2, <2>3, <2>4, MoveCases
<1>2. CASE Done
  <2>0. /\ phase # "idle" /\ last # "created" /\ T' = T /\ driver' = driver /\ phase \in Phases /\ err \in BOOLEAN
        /\ opts' = opts
    BY <1>2 DEF Done, CreateInv, Same, T, TypeOK
  <2>1. CASE err \/ phase \in {"undo", "rm"}
    <3>1. phase' = "idle" /\ last' # "created"
      BY <1>2, <2>0, <2>1 DEF Done, Return, KeepRecord, Phases
    <3> QED
      BY <3>1 DEF CreateInv, CreatedExists
  <2>2. CASE ~err /\ phase = "create"
    <3>1. err = FALSE /\ Return(FALSE)
      BY <1>2, <2>0, <2>2 DEF Done
    <3>2. phase' = "idle"
      BY <2>2, <3>1 DEF Return, KeepRecord
    <3>3. CreatedExists'
      BY <1>2, <2>0, <2>2, <3>1, CreateReturns DEF CreatedExists, Makes
    <3> QED
      BY <3>2, <3>3 DEF CreateInv
  <2>3. CASE ~err /\ phase = "pre"
    <3>1. phase' = "create" /\ last' # "created" /\ at' = 1
      BY <1>2, <2>0, <2>3 DEF Done, Return, KeepRecord
    <3>2. \A g, k \in DOMAIN T.create[opts] : MakesVM(T, opts, g, k) => ~(1 > g) /\ ~(1 > k)
      <4>1. T.create[opts] \in Seq([op : STRING, res : STRING, fail : OnError, absent : STRING, skip : Nat])
        BY TableAssumption, Types DEF Base, T
      <4> QED
        BY <4>1
    <3> QED
      BY <2>0, <3>1, <3>2 DEF CreateInv, CreatedExists
  <2> QED
    BY <2>0, <2>1, <2>2, <2>3 DEF Phases
<1>3. CASE Crash \/ StartCreate \/ StartRm
  <2>1. phase' # "create" /\ last' # "created"
    BY <1>3 DEF Crash, StartCreate, StartRm
  <2> QED
    BY <2>1 DEF CreateInv, CreatedExists
<1>4. CASE Vanish
  <2>1. phase' # "create" /\ last' # "created"
    BY <1>4 DEF Vanish
  <2> QED
    BY <2>1 DEF CreateInv, CreatedExists
<1>5. CASE Share \/ UNCHANGED vars
  <2>1. UNCHANGED <<driver, opts, cloud, rec, phase, at, mem, last, creates>>
    BY <1>5 DEF Share, Fault, vars
  <2>2. T' = T /\ New(T.vm)' = New(T.vm) /\ (Makes <=> Makes')
    BY <2>1 DEF T, New, Numbered, Makes
  <2> QED
    BY <2>1, <2>2 DEF CreateInv, CreatedExists
<1> QED
  BY <1>1, <1>2, <1>3, <1>4, <1>5, OtherCases

\* CreatedExists (libmachine.go:150): for every driver whose Create satisfies
\* CreateAssumption, whatever fails in between, a create that reports success has made a
\* virtual machine and the record it saved leads to it.
THEOREM CreateMakesMachine == Spec => []CreatedExists
<1>1. Init => CreateInv
  BY DEF Init, CreateInv, CreatedExists
<1>2. CreateInv => CreatedExists
  BY DEF CreateInv
<1> QED
  BY <1>1, <1>2, InitType, TypeStep, CreateStep, PTL DEF Spec

--------------------------------------------------------------------------------
(* What was there before.                                                   *)

\* Why r, which was there before, is safe: PreCreateCheck never gets past the step that
\* refuses it, or neither the driver's fields nor the record ever have its id.
Safe(r) ==
  /\ \A g \in DOMAIN T.pre[opts] : RefusesAt(T, opts, r, g) =>
       phase \in {"idle", "pre"} /\ ~saved /\ (phase = "pre" => at <= g)
  /\ OwnId(T, opts, r) =>
       /\ <<r, 0>> \notin mem \cup rec
       /\ \A g \in DOMAIN T.create[opts] : r \in T.unique /\ ClashesAt(T, opts, r, g) /\ phase = "create" => at <= g

ForeignInv ==
  /\ phase # "idle" \/ saved => creates # 0
  /\ \A x \in used : x[1] \in T.foreign \ MayClobber[driver] => x[2] = 0
  /\ \A r \in T.foreign \ MayClobber[driver] : <<r, 0>> \in used => <<r, 0>> \in cloud /\ Safe(r)

\* The steps of the three methods are numbered from 1.
LEMMA Places ==
  ASSUME Base
  PROVE  /\ DOMAIN T.pre[opts] \subseteq Nat \ {0} /\ DOMAIN T.create[opts] \subseteq Nat \ {0}
         /\ Busy => at \in DOMAIN Steps
         /\ Len(Steps) \in Nat /\ DOMAIN Steps = 1..Len(Steps)
<1> DEFINE StepSet == [op : STRING, res : STRING, fail : OnError, absent : STRING, skip : Nat]
<1>1. T.pre[opts] \in Seq(StepSet) /\ T.create[opts] \in Seq(StepSet) /\ T.remove[opts] \in Seq(StepSet)
  BY TableAssumption DEF Base, T
<1>2. Steps \in Seq(StepSet)
  BY <1>1 DEF Steps
<1> HIDE DEF StepSet
<1> QED
  BY <1>1, <1>2 DEF Base, Busy

\* A method that returns passes on no id that the driver does not have.
LEMMA ReturnCases ==
  ASSUME phase \in Phases, phase # "idle", NEW e \in BOOLEAN, Return(e)
  PROVE  /\ mem' \in {{}, mem} /\ rec' \in {{}, rec, mem}
         /\ phase' = "create" => phase = "pre" /\ at' = 1
         /\ phase' \in {"idle", "create"}
         /\ e /\ phase = "pre" => phase' = "idle" /\ saved' = saved
  BY DEF Return, KeepRecord, SaveFirst, SaveIds, Phases

\* No step deletes what was there before.
LEMMA ForeignEffect ==
  ASSUME TypeOK, ForeignInv, Busy, NEW r \in T.foreign \ MayClobber[driver], <<r, 0>> \in used
  PROVE  <<r, 0>> \in Effect
<1>1. Base /\ <<r, 0>> \in cloud /\ Safe(r) /\ at \in DOMAIN Steps
  BY Types, Places DEF ForeignInv
<1>2. NotDeleted(T, opts, r) \/ Refused(T, opts, r) \/ OwnId(T, opts, r)
  BY <1>1, ForeignAssumption DEF Base, T
<1>3. step.op = "delete" => <<r, 0>> \notin Addressed(step.res)
  <2>1. SUFFICES ASSUME step.op = "delete", step.res = r PROVE <<r, 0>> \notin Addressed(r)
    BY DEF Addressed
  <2>2. phase # "pre" /\ phase # "idle"
    BY <1>1, <2>1, StepType DEF Busy
  <2>3. ~NotDeleted(T, opts, r)
    BY <1>1, <2>1, <2>2 DEF NotDeleted, Does, Steps, step
  <2>4. ~Refused(T, opts, r)
    BY <1>1, <2>2 DEF Refused, Safe
  <2>5. OwnId(T, opts, r)
    BY <1>2, <2>3, <2>4
  <2>6. <<r, 0>> \notin mem /\ r \in T.stored
    BY <1>1, <2>5 DEF Safe, OwnId
  <2> QED
    BY <2>6 DEF Addressed
<1> QED
  BY <1>1, <1>3 DEF Effect

\* No step that succeeds tells the driver the id of what was there before.
LEMMA ForeignLearnt ==
  ASSUME TypeOK, ForeignInv, Busy, Works, NEW r \in T.foreign \ MayClobber[driver], <<r, 0>> \in used,
         OwnId(T, opts, r)
  PROVE  <<r, 0>> \notin Learnt
<1>1. /\ Base /\ <<r, 0>> \in cloud /\ Safe(r) /\ at \in DOMAIN Steps /\ creates \in Nat /\ creates # 0
      /\ <<r, 0>> \notin mem
  BY Types, Places, BoundsAssumption DEF ForeignInv, Safe, Busy
<1>2. CASE step.res # r \/ step.op \notin {"make", "keep"}
  BY <1>1, <1>2 DEF Learnt, New
<1>3. CASE step.res = r /\ step.op \in {"make", "keep"}
  <2>1. phase = "create"
    <3>1. phase # "pre"
      BY <1>1, <1>3, StepType DEF OwnId, Does, Steps, step
    <3>2. phase \notin {"undo", "rm"}
      BY <1>1, <1>3 DEF OwnId, Does, Steps, step
    <3> QED
      BY <1>1, <3>1, <3>2 DEF Base, Phases, Busy
  <2>2. at \in DOMAIN T.create[opts] /\ T.create[opts][at] = step
    BY <1>1, <2>1 DEF Steps, step
  <2>3. CASE ~Does(T.create[opts], {"keep"}, r) /\ (r \in T.unique => ~Does(T.create[opts], {"make"}, r))
    <3>1. step.op = "make" /\ r \notin T.unique
      BY <1>3, <2>2, <2>3 DEF Does
    <3>2. New(r) = <<r, creates>>
      BY <3>1 DEF New, Numbered, OwnId
    <3> QED
      BY <1>1, <1>3, <3>1, <3>2 DEF Learnt
  <2>4. CASE r \in T.unique /\ \E g \in DOMAIN T.create[opts] : ClashesAt(T, opts, r, g)
    <3>1. PICK g \in DOMAIN T.create[opts] : ClashesAt(T, opts, r, g)
      BY <2>4
    <3>2. at <= g /\ g \in Nat /\ at \in Nat \ {0}
      BY <1>1, <2>1, <2>4, <3>1, Places DEF Safe, Base
    <3>3. at = g
      <4>1. CASE at \in 1..g - 1
        BY <1>3, <2>2, <3>1, <4>1 DEF ClashesAt
      <4> QED
        BY <3>2, <4>1
    <3>4. step.op = "make"
      BY <2>2, <3>1, <3>3 DEF ClashesAt
    <3>5. New(r) = <<r, 0>>
      BY <2>4 DEF New, Numbered
    <3> QED
      BY <1>1, <1>3, <3>4, <3>5 DEF Works
  <2> QED
    BY <2>3, <2>4 DEF OwnId
<1> QED
  BY <1>2, <1>3

\* A step of a method keeps it safe.
LEMMA ForeignMoves ==
  ASSUME TypeOK, ForeignInv, Moves, NEW r \in T.foreign \ MayClobber[driver], <<r, 0>> \in used
  PROVE  Safe(r)'
<1>0. /\ Base /\ Busy /\ <<r, 0>> \in cloud /\ Safe(r) /\ phase \in Phases /\ phase # "idle"
      /\ T' = T /\ opts' = opts
  BY MoveCases, Types DEF ForeignInv, Busy, Base, T
<1>1. ASSUME NEW g \in DOMAIN T.pre[opts], RefusesAt(T, opts, r, g)
      PROVE  phase' \in {"idle", "pre"} /\ ~saved' /\ (phase' = "pre" => at' <= g)
  <2>1. phase = "pre" /\ ~saved /\ at <= g /\ Steps = T.pre[opts] /\ g \in Nat
    BY <1>0, <1>1, Places DEF Safe, Steps
  <2>2. CASE Advances
    <3>1. at' <= g \/ (at = g /\ Works)
      BY <1>1, <2>1, <2>2, GatePassed DEF RefusesAt
    <3>2. CASE at = g /\ Works
      <4>1. step.op = "mustnot" /\ step.res = r
        BY <1>1, <2>1, <3>2 DEF RefusesAt, Gate, step
      <4> QED
        BY <1>0, <3>2, <4>1 DEF Works, NameTaken
    <3> QED
      BY <2>1, <2>2, <3>1, <3>2 DEF Advances
  <2>3. CASE Return(TRUE)
    BY <1>0, <2>1, <2>3, ReturnCases
  <2>4. ~(EndsHere \/ step.fail = "succeed")
    <3>1. at \in 1..g
      BY <1>0, <2>1 DEF Base
    <3> QED
      BY <1>1, <2>1, <3>1 DEF RefusesAt, NoEarlySuccess, EndsHere, step
  <2> QED
    BY <2>1, <2>2, <2>3, <2>4, MoveCases DEF Undoes
<1>2. ASSUME OwnId(T, opts, r)
      PROVE  <<r, 0>> \notin mem' \cup rec'
  <2>1. <<r, 0>> \notin mem \cup rec
    BY <1>0, <1>2 DEF Safe
  <2>2. CASE Advances
    BY <1>0, <1>2, <2>1, <2>2, ForeignLearnt DEF Advances
  <2>3. CASE Undoes
    BY <2>1, <2>3 DEF Undoes
  <2>4. ASSUME NEW e \in BOOLEAN, Return(e) PROVE <<r, 0>> \notin mem' \cup rec'
    BY <1>0, <2>1, <2>4, ReturnCases
  <2> QED
    BY <2>2, <2>3, <2>4, MoveCases
<1>3. ASSUME OwnId(T, opts, r), NEW g \in DOMAIN T.create[opts], r \in T.unique, ClashesAt(T, opts, r, g),
             phase' = "create"
      PROVE  at' <= g
  <2>0. g \in Nat \ {0}
    BY <1>0, <1>3, Places
  <2>1. CASE Advances
    <3>1. phase = "create" /\ at <= g /\ Steps = T.create[opts]
      BY <1>0, <1>3, <2>1 DEF Advances, Safe, Steps
    <3>2. at' <= g \/ (at = g /\ Works)
      BY <1>3, <2>1, <3>1, GatePassed DEF ClashesAt
    <3>3. CASE at = g /\ Works
      <4>1. step.op = "make" /\ step.res = r
        BY <1>3, <3>1, <3>3 DEF ClashesAt, Gate, step
      <4>2. New(r) = <<r, 0>>
        BY <1>3 DEF New, Numbered
      <4> QED
        BY <1>0, <3>3, <4>1, <4>2 DEF Works
    <3> QED
      BY <3>2, <3>3
  <2>2. ~Undoes
    BY <1>3 DEF Undoes
  <2>3. ASSUME NEW e \in BOOLEAN, Return(e) PROVE at' <= g
    BY <1>0, <1>3, <2>0, <2>3, ReturnCases
  <2> QED
    BY <2>1, <2>2, <2>3, MoveCases
<1> QED
  BY <1>0, <1>1, <1>2, <1>3 DEF Safe

\* So does everything else.
LEMMA ForeignOthers ==
  ASSUME TypeOK, ForeignInv, [Next]_vars, ~Moves, NEW r \in T.foreign \ MayClobber[driver], <<r, 0>> \in used
  PROVE  Safe(r)'
<1>0. /\ Base /\ <<r, 0>> \in cloud /\ Safe(r) /\ phase \in Phases /\ T' = T /\ opts' = opts /\ err \in BOOLEAN
      /\ Done \/ Crash \/ Vanish \/ Share \/ StartCreate \/ StartRm \/ UNCHANGED vars
  BY OtherCases, Types DEF ForeignInv, Base, T
<1>1. CASE Done
  <2>1. Return(err) /\ phase # "idle"
    BY <1>1 DEF Done
  <2>2. ASSUME NEW g \in DOMAIN T.pre[opts], RefusesAt(T, opts, r, g) PROVE FALSE
    <3>1. phase = "pre" /\ at <= g /\ Steps = T.pre[opts]
      BY <1>0, <2>1, <2>2 DEF Safe, Steps
    <3>2. g \in 1..Len(Steps) /\ at \in Nat /\ Len(Steps) \in Nat /\ at > Len(Steps)
      BY <1>0, <1>1, <2>2, <3>1, Places DEF Done, Base
    <3> QED
      BY <3>1, <3>2
  <2>3. ASSUME OwnId(T, opts, r) PROVE <<r, 0>> \notin mem' \cup rec'
    BY <1>0, <2>1, <2>3, ReturnCases DEF Safe
  <2>4. ASSUME NEW g \in DOMAIN T.create[opts], phase' = "create" PROVE at' <= g
    <3>1. at' = 1 /\ g \in Nat \ {0}
      BY <1>0, <2>1, <2>4, ReturnCases, Places
    <3> QED
      BY <3>1
  <2> QED
    BY <1>0, <2>2, <2>3, <2>4 DEF Safe
<1>2. CASE Crash
  <2>1. phase' = "idle" /\ mem' = {} /\ rec' = rec /\ saved' = saved
    BY <1>2 DEF Crash
  <2> QED
    BY <1>0, <2>1 DEF Safe
<1>3. CASE Vanish \/ Share \/ UNCHANGED vars
  <2>1. UNCHANGED <<saved, rec, phase, at, mem>>
    BY <1>3 DEF Vanish, Share, vars
  <2> QED
    BY <1>0, <2>1 DEF Safe
<1>4. CASE StartCreate
  <2>1. phase' = "pre" /\ at' = 1 /\ ~saved /\ saved' = saved /\ mem' = mem /\ rec' = rec
    BY <1>4 DEF StartCreate
  <2>2. \A g \in DOMAIN T.pre[opts] : 1 <= g
    BY <1>0, Places
  <2> QED
    BY <1>0, <2>1, <2>2 DEF Safe
<1>5. CASE StartRm
  <2>1. phase' = "rm" /\ phase = "idle" /\ saved /\ mem' = rec /\ rec' = rec
    BY <1>5 DEF StartRm
  <2>2. \A g \in DOMAIN T.pre[opts] : ~RefusesAt(T, opts, r, g)
    BY <1>0, <2>1 DEF Safe
  <2> QED
    BY <1>0, <2>1, <2>2 DEF Safe
<1> QED
  BY <1>0, <1>1, <1>2, <1>3, <1>4, <1>5

\* Every step keeps ForeignInv.
LEMMA ForeignStep == TypeOK /\ ForeignInv /\ [Next]_vars => ForeignInv'
<1> SUFFICES ASSUME TypeOK, ForeignInv, [Next]_vars PROVE ForeignInv'
  OBVIOUS
<1>0. T' = T /\ opts' = opts /\ driver' = driver /\ Base /\ creates \in Nat
  <2>1. opts' = opts /\ driver' = driver
    BY MoveCases, OtherCases
  <2>2. creates \in Nat /\ Base
    BY Types, BoundsAssumption
  <2> QED
    BY <2>1, <2>2 DEF T
<1>1. phase' # "idle" \/ saved' => creates' # 0
  <2>1. CASE Moves \/ Done \/ Crash
    <3>1. phase # "idle" /\ creates' = creates
      BY <2>1, MoveCases DEF Done, Crash, Same, Fault, Busy
    <3> QED
      BY <3>1 DEF ForeignInv
  <2>2. CASE Vanish \/ Share \/ UNCHANGED vars
    <3>1. UNCHANGED <<phase, saved, creates>>
      BY <2>2 DEF Vanish, Share, Fault, vars
    <3> QED
      BY <3>1 DEF ForeignInv
  <2>3. CASE StartCreate
    BY <1>0, <2>3 DEF StartCreate
  <2>4. CASE StartRm
    BY <2>4 DEF StartRm, ForeignInv
  <2> QED
    BY <2>1, <2>2, <2>3, <2>4, OtherCases
<1>2. ASSUME NEW x \in used', x[1] \in T.foreign \ MayClobber[driver] PROVE x \in used
  <2>1. CASE Share
    <3>1. x \in used \/ x[1] \in T.shared
      BY <1>2, <2>1 DEF Share
    <3>2. x[1] \notin T.shared
      BY <1>0, <1>2, ForeignAssumption DEF Base, T
    <3> QED
      BY <3>1, <3>2
  <2>2. CASE ~Share
    BY <1>2, <2>2, MoveCases, OtherCases
  <2> QED
    BY <2>1, <2>2
<1>3. ASSUME NEW r \in T.foreign \ MayClobber[driver], <<r, 0>> \in used PROVE <<r, 0>> \in cloud' /\ Safe(r)'
  <2>1. Safe(r)'
    BY <1>3, ForeignMoves, ForeignOthers
  <2>2. <<r, 0>> \in cloud
    BY <1>3 DEF ForeignInv
  <2>3. CASE Moves
    BY <1>3, <2>1, <2>2, <2>3, MoveCases, ForeignEffect
  <2>4. CASE Vanish
    <3>1. PICK y \in cloud \ used : y[1] = T.vm /\ cloud' = {z \in cloud : z # y /\ <<z[1], y[1]>> \notin T.uses}
      BY <2>4 DEF Vanish
    <3>2. <<r, T.vm>> \notin T.uses
      BY <1>0, <1>3, ForeignAssumption DEF Base, T
    <3> QED
      BY <1>3, <2>1, <2>2, <3>1, <3>2
  <2> QED
    BY <2>1, <2>2, <2>3, <2>4, OtherCases
<1> QED
  BY <1>0, <1>1, <1>2, <1>3 DEF ForeignInv

\* It holds at first.
LEMMA InitForeign == Init => ForeignInv
<1> SUFFICES ASSUME Init PROVE ForeignInv
  OBVIOUS
<1>1. /\ cloud = used /\ ~saved /\ phase = "idle" /\ rec = {} /\ mem = {}
      /\ \A x \in used : x[2] = 0
  BY DEF Init
<1> QED
  BY <1>1 DEF ForeignInv, Safe

\* ForeignKept: for every driver whose methods satisfy ForeignAssumption, what was on the
\* platform before under the name of one of its resources, or was given by the user, is
\* still there after any sequence of create and rm, whatever fails in between, unless it is of
\* a kind that MayClobber lists.
THEOREM ForeignSafe == Spec => []ForeignKept
<1>1. TypeOK /\ ForeignInv => ForeignKept
  <2> SUFFICES ASSUME TypeOK, ForeignInv, NEW x \in used, x[1] \in T.foreign \ MayClobber[driver]
               PROVE  x \in cloud
    BY DEF ForeignKept
  <2>1. x \in STRING \X Nat /\ x[2] = 0
    BY Types DEF ForeignInv, Resources
  <2>2. x = <<x[1], 0>>
    BY <2>1
  <2> QED
    BY <2>2 DEF ForeignInv
<1> QED
  BY <1>1, InitType, InitForeign, TypeStep, ForeignStep, PTL DEF Spec

--------------------------------------------------------------------------------
(* An rm without failures.                                                  *)

\* What has no number of its own has 0; what has one has it from a create.
IdInv ==
  /\ \A x \in cloud \cup used \cup rec \cup mem : x[1] \notin Numbered => x[2] = 0
  /\ \A x \in cloud : x[1] \in Numbered /\ x[1] \notin T.foreign \cup T.shared => x[2] # 0

\* What a step may add.
LEMMA Added ==
  ASSUME TypeOK, Busy
  PROVE  /\ Effect \subseteq cloud \cup {New(step.res)}
         /\ Learnt \subseteq mem \cup {New(step.res), <<step.res, 0>>}
         /\ New(step.res)[1] = step.res
         /\ New(step.res)[2] = IF step.res \in Numbered THEN creates ELSE 0
<1>1. Effect \subseteq cloud \cup {New(step.res)}
  BY DEF Effect
<1>2. Learnt \subseteq mem \cup {New(step.res), <<step.res, 0>>}
  BY DEF Learnt
<1> QED
  BY <1>1, <1>2 DEF New

\* Every step keeps IdInv.
LEMMA IdStep == TypeOK /\ ForeignInv /\ IdInv /\ [Next]_vars => IdInv'
<1> SUFFICES ASSUME TypeOK, ForeignInv, IdInv, [Next]_vars PROVE IdInv'
  OBVIOUS
<1>0. T' = T /\ Numbered' = Numbered
  BY MoveCases, OtherCases DEF T, Numbered
<1>1. CASE Moves
  <2>1. /\ Busy /\ cloud' \in {cloud, Effect} /\ used' = used /\ phase \in Phases /\ phase # "idle"
        /\ creates # 0
    BY <1>1, MoveCases DEF TypeOK, Busy, ForeignInv
  <2>2. mem' \subseteq mem \cup {New(step.res), <<step.res, 0>>} /\ rec' \subseteq rec \cup mem
    <3>1. ASSUME NEW e \in BOOLEAN, Return(e) PROVE mem' \subseteq mem /\ rec' \subseteq rec \cup mem
      BY <2>1, <3>1, ReturnCases
    <3>2. CASE Advances
      BY <2>1, <3>2, Added DEF Advances
    <3>3. CASE Undoes
      BY <3>3 DEF Undoes
    <3> QED
      BY <1>1, <3>1, <3>2, <3>3, MoveCases
  <2>3. ASSUME NEW x \in cloud' \cup used' \cup rec' \cup mem', x[1] \notin Numbered PROVE x[2] = 0
    BY <2>1, <2>2, <2>3, Added DEF IdInv
  <2>4. ASSUME NEW x \in cloud', x[1] \in Numbered, x[1] \notin T.foreign \cup T.shared PROVE x[2] # 0
    BY <2>1, <2>4, Added DEF IdInv
  <2> QED
    BY <1>0, <2>3, <2>4 DEF IdInv
<1>2. CASE ~Moves
  <2>1. cloud' \subseteq cloud /\ used' \subseteq used \cup cloud
    BY <1>2, OtherCases DEF Vanish, Share
  <2>2. mem' \subseteq mem \cup rec /\ rec' \subseteq rec \cup mem
    <3>1. CASE Done
      <4>1. phase \in Phases /\ phase # "idle" /\ err \in BOOLEAN /\ Return(err)
        BY <3>1 DEF Done, TypeOK
      <4> QED
        BY <4>1, ReturnCases
    <3> QED
      BY <1>2, <3>1, OtherCases DEF Crash, Vanish, Share, StartCreate, StartRm, vars
  <2> QED
    BY <1>0, <2>1, <2>2 DEF IdInv
<1> QED
  BY <1>1, <1>2

\* It holds at first.
LEMMA InitIds == Init => IdInv
<1> SUFFICES ASSUME Init PROVE IdInv
  OBVIOUS
<1>1. cloud = used /\ rec = {} /\ mem = {} /\ \A x \in used : x[2] = 0 /\ x[1] \in T.foreign \cup T.shared
  BY DEF Init, T
<1> QED
  BY <1>1 DEF IdInv

\* Who is past g was so before, or has just passed it.
LEMMA PassedStep ==
  ASSUME TypeOK, Busy, at' \in {at, at + 1, at + 1 + step.skip}, NEW g, Passed(Steps, g, at')
  PROVE  Passed(Steps, g, at) \/ (g = at /\ at' # at)
<1>1. at \in Nat \ {0} /\ step.skip \in Nat /\ at' \in Nat /\ g \in Nat /\ 1 <= g /\ g < at' /\ at <= at'
  BY Types, StepType DEF Base, Passed
<1>2. CASE g < at
  BY <1>1, <1>2 DEF Passed
<1>3. CASE g > at
  <2>1. at' = at + 1 + step.skip /\ at \in 1..g - 1
    BY <1>1, <1>3
  <2>2. at + step.skip \in g..at' - 1
    BY <1>1, <2>1
  <2> QED
    BY <2>1, <2>2 DEF Passed, step
<1> QED
  BY <1>1, <1>2, <1>3

\* What an rm without failures has found or done so far.
Progress ==
  \A r \in STRING :
    /\ DeletedBefore(Steps, r, at) => ~There(r)
    /\ FoundBefore(Steps, r, at) => There(r)
    /\ KnownBefore(Steps, r, at) => Known(r)

\* The driver forgets an id of the record only when it has deleted what it stands for.
RmInv ==
  /\ phase \in {"idle", "rm"} => err = FALSE
  /\ phase = "rm" => mem \subseteq rec /\ (rec \ mem) \cap cloud = {}
  /\ phase = "rm" /\ clean => Progress
  /\ phase # "idle" => last # "rmfailed"
  /\ RmConverges

\* A step of an rm that no failure disturbs.
LEMMA UndisturbedStep ==
  ASSUME Moves, clean'
  PROVE  /\ Busy /\ clean
         /\ \/ Works /\ cloud' = Effect /\ ~EndsHere /\ mem' = Learnt /\ \E n \in LeftOut : GoOn(n)
            \/ EndsHere /\ cloud' = Effect /\ Return(FALSE)
            \/ ~Works /\ cloud' = cloud /\ Fails
  BY DEF Moves, StepWorks, StepFails, RequestFails, AnswerLost, Fault, Same

\* What Remove's steps are.
LEMMA RemoveStep ==
  ASSUME TypeOK, Busy, phase \in {"undo", "rm"}
  PROVE  /\ Steps = T.remove[opts] /\ at \in DOMAIN T.remove[opts] /\ T.remove[opts][at] = step
         /\ step.op \notin {"make", "ensure", "keep"} /\ step.fail # "collect"
         /\ step.fail \in {"return", "remove"} =>
              \/ Passes(T, Steps, at)
              \/ driver \in MayStick /\ FailsIfGone(T, Steps, at)
              \/ driver \in MayPanic /\ FailsIfUnknown(T, Steps, at)
<1>1. Steps = T.remove[opts] /\ at \in DOMAIN T.remove[opts] /\ T.remove[opts][at] = step /\ Base
  BY Types, Places DEF Steps, step
<1> QED
  BY <1>1, RmAssumption DEF Base, T

\* A step of Remove takes nothing from the driver but what it deletes, and adds nothing.
LEMMA RemoveShrinks ==
  ASSUME TypeOK, Busy, phase \in {"undo", "rm"}
  PROVE  /\ Effect \subseteq cloud /\ Learnt \subseteq mem
         /\ \A x \in mem \cup cloud : x[1] # step.res => (x \in mem => x \in Learnt) /\ (x \in cloud => x \in Effect)
         /\ step.op # "delete" => Learnt = mem
         /\ step.op # "delete" => Effect = cloud
         /\ step.op = "delete" => Learnt = mem \ Addressed(step.res) /\ Effect = cloud \ Addressed(step.res)
         /\ (mem \ Learnt) \cap Effect = {}
<1>1. step.op \notin {"make", "ensure", "keep"}
  BY RemoveStep
<1>2. Learnt = IF step.op = "delete" THEN mem \ Addressed(step.res) ELSE mem
  BY <1>1 DEF Learnt
<1>3. /\ step.op = "delete" => Effect = cloud \ Addressed(step.res)
      /\ step.op # "delete" => Effect = cloud
  BY <1>1 DEF Effect
<1>4. \A x \in Addressed(step.res) : x[1] = step.res
  BY DEF Addressed
<1>5. /\ Effect \subseteq cloud /\ Learnt \subseteq mem
      /\ \A x \in mem \cup cloud : x[1] # step.res => (x \in mem => x \in Learnt) /\ (x \in cloud => x \in Effect)
  <2>1. step.op = "delete" \/ Effect = cloud
    BY <1>3
  <2> QED
    BY <1>2, <1>3, <1>4, <2>1
<1>6. (mem \ Learnt) \cap Effect = {}
  BY <1>2, <1>3
<1> QED
  BY <1>2, <1>3, <1>5, <1>6

\* What is there stays there while the driver deals with other things, and what is not does not come.
LEMMA ThereAfter ==
  ASSUME TypeOK, Busy, phase \in {"undo", "rm"}, T' = T,
         \/ cloud' = Effect /\ mem' = Learnt
         \/ cloud' = cloud /\ mem' = mem,
         NEW r
  PROVE  /\ There(r)' => There(r)
         /\ There(r) /\ (step.op = "delete" => step.res # r) => There(r)'
         /\ Known(r) /\ (step.op = "delete" => step.res # r) => Known(r)'
<1>1. cloud' \subseteq cloud /\ mem' \subseteq mem
  BY RemoveShrinks
<1>2. There(r)' => There(r)
  BY <1>1 DEF There, Addressed
<1>3. ASSUME There(r), step.op = "delete" => step.res # r PROVE There(r)'
  <2>1. PICK x \in Addressed(r) : x \in cloud
    BY <1>3 DEF There
  <2>2. x[1] = r
    BY <2>1 DEF Addressed
  <2>3. x \in cloud'
    BY <1>3, <2>1, <2>2, RemoveShrinks
  <2>4. x \in mem => x \in mem'
    BY <1>3, <2>1, <2>2, RemoveShrinks
  <2>5. x \in Addressed(r)'
    BY <2>1, <2>4 DEF Addressed
  <2> QED
    BY <2>3, <2>5 DEF There
<1>4. ASSUME Known(r), step.op = "delete" => step.res # r PROVE Known(r)'
  <2>1. PICK x \in mem : x[1] = r
    BY <1>4 DEF Known
  <2>2. x \in mem'
    BY <1>4, <2>1, RemoveShrinks
  <2> QED
    BY <2>1, <2>2 DEF Known
<1> QED
  BY <1>2, <1>3, <1>4

\* Places before a and before a later b.
LEMMA Between ==
  ASSUME NEW a \in Nat, NEW b \in Nat, a <= b, NEW g \in 1..a - 1
  PROVE  /\ g + 1..a - 1 \subseteq g + 1..b - 1
         /\ a # b => a \in g + 1..b - 1
  OBVIOUS

\* Places before a are before a later b.
LEMMA Wider ==
  ASSUME NEW a \in Nat \ {0}, NEW b \in Nat, a <= b
  PROVE  1..a - 1 \subseteq 1..b - 1 /\ (a # b => a \in 1..b - 1)
  OBVIOUS

\* A place before b.
LEMMA Earlier ==
  ASSUME NEW b \in Nat, NEW k \in 1..b - 1
  PROVE  k \in Nat /\ 1 <= k /\ ~(b <= k)
  OBVIOUS

\* The steps before the present one.
LEMMA EarlierStep ==
  ASSUME TypeOK, Busy, NEW g \in 1..at
  PROVE  g \in DOMAIN Steps /\ Steps[g] \in [op : STRING, res : STRING, fail : OnError, absent : STRING, skip : Nat]
<1> DEFINE StepSet == [op : STRING, res : STRING, fail : OnError, absent : STRING, skip : Nat]
<1>1. Steps \in Seq(StepSet) /\ at \in Nat
  BY TableAssumption, Types DEF Base, T, Steps
<1> HIDE DEF StepSet
<1>2. g \in 1..Len(Steps)
  BY <1>1 DEF Busy
<1>3. g \in DOMAIN Steps /\ Steps[g] \in StepSet
  BY <1>1, <1>2
<1> QED
  BY <1>3 DEF StepSet

\* Progress in a run without failures.
LEMMA ProgressStep ==
  ASSUME TypeOK, Progress, Busy, phase \in {"undo", "rm"}, T' = T, opts' = opts, phase' = phase,
         at' \in {at, at + 1, at + 1 + step.skip},
         \/ /\ Works /\ ~EndsHere /\ cloud' = Effect /\ mem' = Learnt
            /\ \E n \in LeftOut : at' = at + 1 + n
         \/ ~Works /\ step.fail \notin {"return", "remove"} /\ cloud' = cloud /\ mem' = mem
  PROVE  Progress'
<1>0. Steps' = Steps /\ ((cloud' = Effect /\ mem' = Learnt) \/ (cloud' = cloud /\ mem' = mem))
  BY DEF Steps
<1>1. at \in Nat \ {0} /\ at' \in Nat /\ at <= at' /\ step.skip \in Nat
  BY Types, StepType DEF Base
<1> SUFFICES ASSUME NEW r \in STRING
             PROVE  /\ DeletedBefore(Steps, r, at') => ~There(r)'
                    /\ FoundBefore(Steps, r, at') => There(r)'
                    /\ KnownBefore(Steps, r, at') => Known(r)'
  BY <1>0 DEF Progress
<1>2. ASSUME DeletedBefore(Steps, r, at') PROVE ~There(r)'
  <2>1. PICK g : /\ Passed(Steps, g, at') /\ Steps[g].op = "delete" /\ Steps[g].res = r
                 /\ Steps[g].fail \in {"return", "remove"}
    BY <1>2 DEF DeletedBefore
  <2>2. CASE Passed(Steps, g, at)
    <3>1. DeletedBefore(Steps, r, at)
      BY <2>1, <2>2 DEF DeletedBefore, Passed
    <3> QED
      BY <1>0, <3>1, ThereAfter DEF Progress
  <2>3. CASE g = at
    <3>1. step.op = "delete" /\ step.res = r /\ Works
      BY <2>1, <2>3 DEF step
    <3>2. mem' = mem \ Addressed(r) /\ cloud' = cloud \ Addressed(r)
      BY <3>1, RemoveShrinks
    <3> QED
      BY <3>2 DEF There, Addressed
  <2> QED
    BY <2>1, <2>2, <2>3, PassedStep
<1>3. ASSUME FoundBefore(Steps, r, at') PROVE There(r)'
  <2>1. PICK g : /\ Passed(Steps, g, at') /\ Steps[g].res = r
                 /\ Steps[g].op = "endunless" \/ (Steps[g].op = "must" /\ Steps[g].fail \in {"return", "remove"})
                 /\ \A j \in g + 1..at' - 1 : Steps[j].op = "delete" => Steps[j].res # r
    BY <1>3 DEF FoundBefore
  <2>2. CASE Passed(Steps, g, at)
    <3>1. g \in 1..at - 1
      BY <2>2 DEF Passed
    <3>2. FoundBefore(Steps, r, at)
      <4>1. g + 1..at - 1 \subseteq g + 1..at' - 1
        BY <1>1, <3>1, Between
      <4> QED
        BY <2>1, <2>2, <3>1, <4>1 DEF FoundBefore
    <3>3. CASE at' = at
      <4>1. cloud' = cloud /\ mem' = mem
        BY <1>1, <3>3 DEF LeftOut
      <4> QED
        BY <3>2, <4>1 DEF Progress, There, Addressed
    <3>4. CASE at' # at
      <4>1. at \in g + 1..at' - 1
        BY <1>1, <3>1, <3>4, Between
      <4>2. step.op = "delete" => step.res # r
        BY <2>1, <4>1 DEF step
      <4> QED
        BY <1>0, <3>2, <4>2, ThereAfter DEF Progress
    <3> QED
      BY <3>3, <3>4
  <2>3. CASE g = at
    <3>1. step.res = r /\ (step.op = "endunless" \/ (step.op = "must" /\ step.fail \in {"return", "remove"}))
      BY <2>1, <2>3 DEF step
    <3>2. Works
      BY <3>1 DEF Works
    <3>3. There(r)
      BY <3>1, <3>2 DEF Works, EndsHere
    <3>4. step.op # "delete"
      BY <3>1
    <3> QED
      BY <1>0, <3>3, <3>4, ThereAfter
  <2> QED
    BY <2>1, <2>2, <2>3, PassedStep
<1>4. ASSUME KnownBefore(Steps, r, at') PROVE Known(r)'
  <2>1. PICK g : /\ Passed(Steps, g, at') /\ Steps[g].op = "ifknown" /\ Steps[g].res = r /\ at' <= g + Steps[g].skip
                 /\ \A j \in g + 1..at' - 1 : Steps[j].op = "delete" => Steps[j].res # r
    BY <1>4 DEF KnownBefore
  <2>2. CASE Passed(Steps, g, at)
    <3>1. g \in 1..at - 1
      BY <2>2 DEF Passed
    <3>2. KnownBefore(Steps, r, at)
      <4>1. g + 1..at - 1 \subseteq g + 1..at' - 1
        BY <1>1, <3>1, Between
      <4>2. at <= g + Steps[g].skip
        <5>1. Steps[g].skip \in Nat
          <6>1. g \in 1..at
            BY <1>1, <3>1
          <6> QED
            BY <6>1, EarlierStep
        <5> QED
          BY <1>1, <2>1, <3>1, <5>1
      <4> QED
        BY <2>1, <2>2, <3>1, <4>1, <4>2 DEF KnownBefore
    <3>3. CASE at' = at
      <4>1. mem' = mem
        BY <1>1, <3>3 DEF LeftOut
      <4> QED
        BY <3>2, <4>1 DEF Progress, Known
    <3>4. CASE at' # at
      <4>1. at \in g + 1..at' - 1
        BY <1>1, <3>1, <3>4, Between
      <4>2. step.op = "delete" => step.res # r
        BY <2>1, <4>1 DEF step
      <4> QED
        BY <1>0, <3>2, <4>2, ThereAfter DEF Progress
    <3> QED
      BY <3>3, <3>4
  <2>3. CASE g = at
    <3>1. step.res = r /\ step.op = "ifknown" /\ at' <= at + step.skip
      BY <2>1, <2>3 DEF step
    <3>2. Works
      BY <3>1 DEF Works
    <3>3. Known(r)
      <4>1. PICK n \in LeftOut : at' = at + 1 + n
        BY <3>2
      <4>2. ~Known(r) => n = step.skip
        BY <3>1, <4>1 DEF LeftOut
      <4> QED
        BY <1>1, <3>1, <4>1, <4>2
    <3>4. step.op # "delete"
      BY <3>1
    <3> QED
      BY <1>0, <3>3, <3>4, ThereAfter
  <2> QED
    BY <2>1, <2>2, <2>3, PassedStep
<1> QED
  BY <1>2, <1>3, <1>4

\* Nothing that uses r is left before a step for which Free holds.
LEMMA FreeNow ==
  ASSUME TypeOK, IdInv, NEW r, Free(T, Steps, r, at),
         \A q \in STRING : DeletedBefore(Steps, q, at) => ~There(q)
  PROVE  ~InUse(r)
<1> SUFFICES ASSUME NEW x \in cloud, <<x[1], r>> \in T.uses PROVE FALSE
  BY DEF InUse
<1>1. x[1] \notin T.stored /\ DeletedBefore(Steps, x[1], at)
  <2>1. <<x[1], r>>[2] = r /\ <<x[1], r>>[1] = x[1]
    OBVIOUS
  <2> QED
    BY <2>1 DEF Free
<1>2. x \in STRING \X Nat /\ x[1] \in STRING
  BY Types DEF Resources
<1>3. x[2] = 0
  BY <1>1 DEF IdInv, Numbered
<1>4. x = <<x[1], 0>>
  BY <1>2, <1>3
<1>5. ~There(x[1])
  BY <1>1, <1>2
<1> QED
  BY <1>1, <1>4, <1>5 DEF There, Addressed

\* If nothing of a kind is there that the driver has in its fields, there is none that the record names.
LEMMA NoneOfKind ==
  ASSUME TypeOK, IdInv, RmInv, phase = "rm", NEW r, ~There(r),
         Plain(T, r) \/ (r \in T.unique /\ Known(r))
  PROVE  \A x \in rec \cup {<<r, 0>>} : x[1] = r => x \notin cloud
<1> SUFFICES ASSUME NEW x \in rec \cup {<<r, 0>>}, x[1] = r, x \in cloud PROVE FALSE
  OBVIOUS
<1>1. x \in STRING \X Nat /\ mem \subseteq STRING \X Nat
  BY Types DEF Resources
<1>2. CASE r \notin T.stored
  <2>1. x[2] = 0
    BY <1>2 DEF IdInv, Numbered
  <2>2. x = <<r, 0>>
    BY <1>1, <2>1
  <2> QED
    BY <1>2, <2>2 DEF There, Addressed
<1>3. CASE r \in T.stored /\ x \in rec
  <2>1. x \in mem
    BY <1>3 DEF RmInv
  <2> QED
    BY <1>3, <2>1 DEF There, Addressed
<1>4. CASE r \in T.stored /\ x = <<r, 0>>
  <2>1. CASE r \in T.unique /\ Known(r)
    <3>1. PICK y \in mem : y[1] = r
      BY <2>1 DEF Known
    <3>2. y[2] = 0
      BY <2>1, <3>1 DEF IdInv, Numbered
    <3>3. y = <<r, 0>>
      BY <1>1, <3>1, <3>2
    <3> QED
      BY <1>4, <3>1, <3>3 DEF There, Addressed
  <2>2. CASE Plain(T, r)
    <3>1. r \in Numbered /\ r \notin T.foreign \cup T.shared
      BY <1>4, <2>2 DEF Plain, Numbered
    <3> QED
      BY <1>4, <3>1 DEF IdInv
  <2> QED
    BY <2>1, <2>2
<1> QED
  BY <1>2, <1>3, <1>4

\* An id that the driver has no more stands for something that a step before deleted.
ForgetInv ==
  phase = "rm" => \A x \in rec \ mem : \E j \in 1..at - 1 : Steps[j].op = "delete" /\ Steps[j].res = x[1]

LEMMA ForgetStep == TypeOK /\ ForgetInv /\ [Next]_vars => ForgetInv'
<1> SUFFICES ASSUME TypeOK, ForgetInv, [Next]_vars, phase' = "rm", NEW x \in rec' \ mem'
             PROVE  \E j \in 1..at' - 1 : Steps'[j].op = "delete" /\ Steps'[j].res = x[1]
  BY DEF ForgetInv
<1>1. CASE Moves
  <2>1. Busy /\ Base /\ step.skip \in Nat /\ UNCHANGED <<driver, opts>>
    BY <1>1, MoveCases, Types, StepType
  <2>2. Advances
    <3>1. ASSUME NEW e \in BOOLEAN, Return(e) PROVE phase' # "rm"
      BY <2>1, <3>1, ReturnCases DEF Base, Busy
    <3> QED
      BY <1>1, <3>1, MoveCases DEF Undoes
  <2>3. phase = "rm" /\ rec' = rec /\ Steps' = Steps /\ at \in Nat /\ at' \in Nat /\ at <= at'
    <3>1. at' \in {at, at + 1, at + 1 + step.skip}
      BY <2>2 DEF Advances
    <3> QED
      BY <2>1, <2>2, <3>1 DEF Advances, Steps, T, Base
  <2>4. CASE x \notin mem
    <3>1. PICK j \in 1..at - 1 : Steps[j].op = "delete" /\ Steps[j].res = x[1]
      BY <2>3, <2>4 DEF ForgetInv
    <3>2. j \in 1..at' - 1
      BY <2>1, <2>3, Wider DEF Base
    <3> QED
      BY <2>3, <3>1, <3>2
  <2>5. CASE x \in mem
    <3>1. mem' = Learnt /\ at' # at
      BY <2>2, <2>5 DEF Advances
    <3>2. step.op = "delete" /\ step.res = x[1]
      BY <2>1, <2>3, <2>5, <3>1, RemoveShrinks
    <3>3. at \in 1..at' - 1
      BY <2>1, <2>3, <3>1, Wider DEF Base
    <3> QED
      BY <2>3, <3>2, <3>3 DEF step
  <2> QED
    BY <2>4, <2>5
<1>2. CASE Done
  <2>1. phase \in Phases /\ phase # "idle" /\ err \in BOOLEAN /\ Return(err)
    BY <1>2 DEF Done, TypeOK
  <2> QED
    BY <2>1, ReturnCases
<1>3. CASE Vanish \/ Share \/ UNCHANGED vars
  <2>1. UNCHANGED <<driver, opts, rec, mem, phase, at>>
    BY <1>3 DEF Vanish, Share, Fault, vars
  <2>2. Steps' = Steps
    BY <2>1 DEF Steps, T
  <2> QED
    BY <2>1, <2>2 DEF ForgetInv
<1>4. CASE Crash \/ StartCreate \/ StartRm
  BY <1>4 DEF Crash, StartCreate, StartRm
<1> QED
  BY <1>1, <1>2, <1>3, <1>4, OtherCases

\* The platform refuses to delete nothing that Remove has freed or found unused.
LEMMA NotRefused ==
  ASSUME TypeOK, CheckedInv, Busy, phase \in {"undo", "rm"}, clean, step.op = "delete",
         ~InUse(step.res) \/ Checked(Steps, at)
  PROVE  ~Refuses(step.res)
<1>1. CASE Checked(Steps, at)
  BY <1>1, CheckedFree
<1>2. CASE ~Checked(Steps, at)
  <2>1. ~InUse(step.res) /\ step.res \notin T.shared
    BY <1>2, StepType, Types
  <2> QED
    BY <2>1 DEF Refuses, Attached
<1> QED
  BY <1>1, <1>2

\* A step of an undisturbed rm whose failure is returned fails only in a driver that may, and
\* because something is gone or was never known.
LEMMA StuckIfGone ==
  ASSUME TypeOK, CheckedInv, IdInv, ForgetInv, RmInv, Busy, phase = "rm", clean, ~Works,
         step.fail \in {"return", "remove"}
  PROVE  \/ driver \in MayPanic /\ \E r \in T.stored : \A x \in rec : x[1] # r
         \/ driver \in MayStick
            /\ \E r \in T.stored \cup {T.vm} : \A x \in rec \cup {<<r, 0>>} : x[1] = r => x \notin cloud
<1>0. Progress /\ step.res \in STRING /\ step.op \notin {"make", "ensure", "keep"}
  BY RemoveStep, StepType, Types DEF RmInv
<1>1. ~Passes(T, Steps, at)
  <2> SUFFICES ASSUME Passes(T, Steps, at) PROVE Works
    OBVIOUS
  <2>1. step.op \notin {"mustnot", "given", "unsupported", "make"}
    BY <1>0 DEF Passes, step
  <2>2. CASE step.op = "must"
    <3>1. FoundBefore(Steps, step.res, at)
      BY <2>2 DEF Passes, step
    <3>2. There(step.res)
      BY <1>0, <3>1 DEF Progress
    <3> QED
      BY <2>2, <3>2 DEF Works
  <2>3. CASE step.op = "delete"
    <3>1. /\ Free(T, Steps, step.res, at) \/ Checked(Steps, at)
          /\ step.absent \in {"ok", "skip"} \/ FoundBefore(Steps, step.res, at)
      BY <2>3 DEF Passes, step
    <3>2. ~Refuses(step.res)
      BY <1>0, <2>3, <3>1, FreeNow, NotRefused DEF Progress
    <3>3. There(step.res) \/ PassedOver
      BY <1>0, <3>1 DEF Progress, PassedOver
    <3> QED
      BY <2>3, <3>2, <3>3 DEF Works
  <2>4. CASE step.op \notin {"must", "delete"}
    BY <2>1, <2>4 DEF Works
  <2> QED
    BY <2>2, <2>3, <2>4
<1>2. \/ driver \in MayStick /\ FailsIfGone(T, Steps, at)
      \/ driver \in MayPanic /\ FailsIfUnknown(T, Steps, at)
  BY <1>1, RemoveStep
<1>3. CASE driver \in MayStick /\ \E r \in T.stored \cup {T.vm} : Plain(T, r) /\ DeletedBefore(Steps, r, at)
  <2>1. PICK r \in T.stored \cup {T.vm} : Plain(T, r) /\ DeletedBefore(Steps, r, at)
    BY <1>3
  <2>2. r \in STRING
    <3>1. PICK g \in 1..at - 1 : Steps[g].res = r
      BY <2>1 DEF DeletedBefore
    <3>2. g \in 1..at
      BY <3>1, Types DEF Base
    <3> QED
      BY <3>1, <3>2, EarlierStep
  <2>3. ~There(r)
    BY <1>0, <2>1, <2>2 DEF Progress
  <2> QED
    BY <1>3, <2>1, <2>3, NoneOfKind
<1>4. CASE /\ driver \in MayStick
           /\ step.op \in {"must", "delete"} /\ step.res \in T.stored \cup {T.vm}
           /\ step.op = "delete" => Free(T, Steps, step.res, at)
           /\ \/ Plain(T, step.res)
              \/ /\ step.res \in T.unique
                 /\ KnownBefore(Steps, step.res, at) \/ (step.op = "delete" /\ step.absent = "known")
  <2>1. ~There(step.res)
    <3>1. CASE step.op = "must"
      BY <3>1 DEF Works
    <3>2. CASE step.op = "delete"
      <4>1. ~Refuses(step.res)
        BY <1>0, <1>4, <3>2, FreeNow, NotRefused DEF Progress
      <4> QED
        BY <3>2, <4>1 DEF Works
    <3> QED
      BY <1>4, <3>1, <3>2
  <2>2. Plain(T, step.res) \/ (step.res \in T.unique /\ Known(step.res))
    <3>1. CASE KnownBefore(Steps, step.res, at)
      BY <1>0, <1>4, <3>1 DEF Progress
    <3>2. CASE step.op = "delete" /\ step.absent = "known"
      BY <1>4, <2>1, <3>2 DEF Works, PassedOver
    <3> QED
      BY <1>4, <3>1, <3>2
  <2> QED
    BY <1>4, <2>1, <2>2, NoneOfKind
<1>5. CASE driver \in MayPanic /\ FailsIfUnknown(T, Steps, at)
  <2>1. /\ step.op = "delete" /\ step.absent = "byid" /\ step.res \in T.stored
        /\ Free(T, Steps, step.res, at)
        /\ \A j \in 1..at - 1 : Steps[j].op = "delete" => Steps[j].res # step.res
    BY <1>5 DEF FailsIfUnknown, step
  <2>2. ~Refuses(step.res)
    BY <1>0, <2>1, FreeNow, NotRefused DEF Progress
  <2>3. ~Known(step.res)
    BY <2>1, <2>2 DEF Works, PassedOver
  <2>4. ASSUME NEW x \in rec PROVE x[1] # step.res
    BY <2>1, <2>3 DEF ForgetInv, Known
  <2> QED
    BY <1>5, <2>1, <2>4
<1> QED
  BY <1>2, <1>3, <1>4, <1>5 DEF FailsIfGone, step

\* How Remove deals with a step that failed.
LEMMA RemoveFails ==
  ASSUME TypeOK, Busy, phase \in {"undo", "rm"}, Fails
  PROVE  \/ step.fail \in {"return", "remove"} /\ Return(TRUE)
         \/ step.fail = "succeed" /\ Return(FALSE)
         \/ /\ step.fail \notin {"return", "remove"}
            /\ UNCHANGED <<phase, saved, rec, mem, err, last>> /\ at' \in {at, at + 1, at + 1 + step.skip}
<1>1. step.fail \in OnError /\ step.fail # "collect" /\ phase # "create" /\ at \in Nat
  BY Types, StepType, RemoveStep DEF Base
<1>2. CASE step.fail \in {"return", "remove", "succeed"}
  BY <1>1, <1>2 DEF Fails, CallRemove
<1>3. CASE step.fail = "ignore"
  <2>1. at' = at + 1 + 0 /\ UNCHANGED <<phase, saved, rec, mem, err, last>>
    BY <1>3 DEF Fails, CallRemove, GoOn
  <2>2. at' = at + 1
    BY <1>1, <2>1
  <2> QED
    BY <1>3, <2>1, <2>2
<1>4. CASE step.fail \in {"skip", "retry"}
  BY <1>4 DEF Fails, CallRemove, GoOn
<1> QED
  BY <1>1, <1>2, <1>3, <1>4 DEF OnError

\* A step of rm keeps RmInv.
LEMMA RmMoves ==
  ASSUME TypeOK, CheckedInv, IdInv, ForgetInv, RmInv, Moves, phase = "rm"
  PROVE  RmInv'
<1>0. /\ Busy /\ T' = T /\ opts' = opts /\ driver' = driver /\ clean \in BOOLEAN /\ clean' \in BOOLEAN
      /\ mem \subseteq rec /\ (rec \ mem) \cap cloud = {} /\ err = FALSE /\ last # "rmfailed"
      /\ cloud' \in {cloud, Effect} /\ Effect \subseteq cloud
  <2>1. Busy /\ T' = T /\ opts' = opts /\ driver' = driver /\ cloud' \in {cloud, Effect}
    BY MoveCases DEF T
  <2>2. clean \in BOOLEAN /\ clean' \in BOOLEAN
    BY DEF Moves, StepWorks, StepFails, RequestFails, AnswerLost, Fault, Same, TypeOK
  <2>3. Effect \subseteq cloud
    BY <2>1, RemoveShrinks
  <2> QED
    BY <2>1, <2>2, <2>3 DEF RmInv
<1>1. ASSUME NEW e \in BOOLEAN, Return(e), ~e PROVE RmInv'
  <2>1. phase' = "idle" /\ last' = "removed" /\ err' = FALSE
    BY <1>1 DEF Return, KeepRecord
  <2> QED
    BY <2>1 DEF RmInv, RmConverges
<1>2. ASSUME Return(TRUE), step.fail \in {"return", "remove"} PROVE RmInv'
  <2>1. phase' = "idle" /\ err' = FALSE /\ (last' = "rmfailed" => rec' = rec)
    BY <1>2 DEF Return, KeepRecord
  <2>2. RmConverges'
    <3> SUFFICES ASSUME last' = "rmfailed", clean' PROVE RmConverges'
      BY DEF RmConverges
    <3>1. clean /\ ~Works /\ cloud' = cloud
      <4>1. ~(\E n \in LeftOut : GoOn(n))
        BY <2>1 DEF GoOn
      <4>2. ~Return(FALSE)
        BY DEF Return, KeepRecord
      <4> QED
        BY <4>1, <4>2, UndisturbedStep
    <3>2. \/ driver \in MayPanic /\ \E r \in T.stored : \A x \in rec : x[1] # r
          \/ driver \in MayStick
             /\ \E r \in T.stored \cup {T.vm} : \A x \in rec \cup {<<r, 0>>} : x[1] = r => x \notin cloud
      BY <1>0, <1>2, <3>1, StuckIfGone
    <3> QED
      BY <1>0, <2>1, <3>1, <3>2 DEF RmConverges
  <2> QED
    BY <2>1, <2>2 DEF RmInv
<1>3. ASSUME UNCHANGED <<phase, rec, err, last>>, mem' \in {mem, Learnt}, mem' = Learnt => cloud' = Effect \/ mem' = mem,
             clean' => Progress'
      PROVE  RmInv'
  <2>1. Learnt \subseteq mem /\ (mem \ Learnt) \cap Effect = {}
    BY <1>0, RemoveShrinks
  <2>2. mem' \subseteq rec' /\ (rec' \ mem') \cap cloud' = {}
    BY <1>0, <1>3, <2>1
  <2>3. RmConverges'
    BY <1>0, <1>3 DEF RmConverges
  <2> QED
    BY <1>0, <1>3, <2>2, <2>3 DEF RmInv
<1>4. CASE StepWorks
  <2>1. CASE EndsHere
    BY <1>1, <1>4, <2>1 DEF StepWorks
  <2>2. CASE ~EndsHere
    <3>1. PICK n \in LeftOut : GoOn(n)
      BY <1>4, <2>2 DEF StepWorks
    <3>2. n \in {0, step.skip} /\ at \in Nat
      BY <3>1, Types DEF LeftOut, Base
    <3>3. at' \in {at, at + 1, at + 1 + step.skip} /\ at' = at + 1 + n
      <4>1. at' = at + 1 + n
        BY <3>1 DEF GoOn
      <4>2. n = 0 => at' = at + 1
        BY <3>2, <4>1
      <4> QED
        BY <3>2, <4>1, <4>2
    <3>4. UNCHANGED <<phase, rec, err, last>> /\ mem' = Learnt /\ cloud' = Effect /\ Works
      BY <1>4, <2>2, <3>1 DEF StepWorks, GoOn
    <3>5. clean' => Progress'
      <4> SUFFICES ASSUME clean' PROVE Progress'
        OBVIOUS
      <4>1. Progress
        BY <1>4 DEF StepWorks, Same, RmInv
      <4> QED
        BY <1>0, <2>2, <3>1, <3>3, <3>4, <4>1, ProgressStep
    <3> QED
      BY <1>3, <3>4, <3>5
  <2> QED
    BY <2>1, <2>2
<1>5. CASE Fails
  <2>1. CASE step.fail \in {"return", "remove"} /\ Return(TRUE)
    BY <1>2, <2>1
  <2>2. CASE Return(FALSE)
    BY <1>1, <2>2
  <2>3. CASE /\ step.fail \notin {"return", "remove"}
             /\ UNCHANGED <<phase, saved, rec, mem, err, last>> /\ at' \in {at, at + 1, at + 1 + step.skip}
    <3>1. ASSUME clean' PROVE Progress'
      <4>1. ~StepWorks => clean /\ ~Works /\ cloud' = cloud
        BY <3>1 DEF Moves, StepFails, RequestFails, AnswerLost, Fault, Same
      <4>2. CASE ~StepWorks
        <5>1. Progress
          BY <4>1, <4>2 DEF RmInv
        <5> QED
          BY <1>0, <2>3, <4>1, <4>2, <5>1, ProgressStep
      <4> QED
        BY <1>4, <2>3, <3>1, <4>2 DEF RmInv
    <3> QED
      BY <1>3, <2>3, <3>1
  <2> QED
    BY <1>0, <1>5, <2>1, <2>2, <2>3, RemoveFails
<1> QED
  BY <1>4, <1>5 DEF Moves, StepFails, RequestFails, AnswerLost

\* Every step keeps RmInv.
LEMMA RmStep == TypeOK /\ CheckedInv /\ IdInv /\ ForgetInv /\ RmInv /\ [Next]_vars => RmInv'
<1> SUFFICES ASSUME TypeOK, CheckedInv, IdInv, ForgetInv, RmInv, [Next]_vars PROVE RmInv'
  OBVIOUS
<1>0. T' = T /\ opts' = opts /\ driver' = driver /\ phase \in Phases
  BY MoveCases, OtherCases DEF T, TypeOK
<1>1. CASE Moves /\ phase # "rm"
  <2>1. phase # "idle" /\ last # "rmfailed"
    BY <1>1, MoveCases DEF RmInv, Busy
  <2>2. ASSUME NEW e \in BOOLEAN, Return(e)
        PROVE  phase' \in {"idle", "create"} /\ (phase' = "idle" => err' = FALSE) /\ last' # "rmfailed"
    BY <1>0, <1>1, <2>1, <2>2 DEF Return, KeepRecord, Phases
  <2>3. \/ phase' \notin {"idle", "rm"} /\ last' = last
        \/ phase' \in {"idle", "create"} /\ (phase' = "idle" => err' = FALSE) /\ last' # "rmfailed"
    BY <1>1, <2>1, <2>2, MoveCases DEF Advances, Undoes
  <2> QED
    BY <2>1, <2>3 DEF RmInv, RmConverges
<1>2. CASE Moves /\ phase = "rm"
  BY <1>2, RmMoves
<1>3. CASE Done
  <2>1. Return(err) /\ phase # "idle" /\ last # "rmfailed" /\ (phase = "rm" => err = FALSE) /\ err \in BOOLEAN
    BY <1>3 DEF Done, RmInv, TypeOK
  <2>2. phase' \in {"idle", "create"} /\ err' = FALSE /\ last' # "rmfailed"
    BY <1>0, <2>1 DEF Return, KeepRecord, Phases
  <2> QED
    BY <2>2 DEF RmInv, RmConverges
<1>4. CASE Crash
  BY <1>4 DEF Crash, RmInv, RmConverges
<1>5. CASE Vanish
  <2>1. /\ UNCHANGED <<rec, phase, mem, err>> /\ last' = "vanished" /\ cloud' \subseteq cloud /\ clean' = FALSE
    BY <1>5 DEF Vanish, Fault
  <2> QED
    BY <2>1 DEF RmInv, RmConverges
<1>6. CASE Share
  <2>1. /\ UNCHANGED <<rec, phase, mem, err, last, cloud>> /\ clean' = FALSE
    BY <1>6 DEF Share, Fault
  <2> QED
    BY <2>1 DEF RmInv, RmConverges
<1>7. CASE StartCreate
  BY <1>7 DEF StartCreate, RmInv, RmConverges
<1>8. CASE StartRm
  <2>1. phase' = "rm" /\ at' = 1 /\ mem' = rec /\ rec' = rec /\ cloud' = cloud /\ last' = "running" /\ err' = FALSE
    BY <1>8 DEF StartRm, RmInv
  <2>2. Progress'
    <3>1. \A g : ~Passed(Steps', g, 1)
      BY DEF Passed
    <3> QED
      BY <2>1, <3>1 DEF Progress, DeletedBefore, FoundBefore, KnownBefore
  <2> QED
    BY <2>1, <2>2 DEF RmInv, RmConverges
<1>9. CASE UNCHANGED vars
  <2>1. UNCHANGED <<driver, opts, cloud, rec, phase, at, mem, err, clean, last>> /\ Steps' = Steps
    BY <1>9, <1>0 DEF vars, Steps
  <2>2. \A r : There(r)' = There(r) /\ Known(r)' = Known(r)
    BY <1>0, <2>1 DEF There, Addressed, Known
  <2> QED
    BY <1>0, <2>1, <2>2 DEF RmInv, RmConverges, Progress
<1> QED
  BY <1>1, <1>2, <1>3, <1>4, <1>5, <1>6, <1>7, <1>8, <1>9, OtherCases

\* RmConverges (rm.go:67): for every driver whose Remove satisfies RmAssumption, after any
\* sequence of creates and rms that failed or died at any step, an rm that meets no failure
\* succeeds, or the driver is one of MayStick and something that it deletes is gone, or it is
\* one of MayPanic and the record has no id of something that it deletes.
THEOREM RemovalConverges == Spec => []RmConverges
<1>1. Init => RmInv /\ ForgetInv
  BY DEF Init, RmInv, RmConverges, ForgetInv
<1>2. RmInv => RmConverges
  BY DEF RmInv
<1> QED
  BY <1>1, <1>2, InitType, InitChecked, InitForeign, InitIds, TypeStep, CheckedStep, ForeignStep, IdStep, ForgetStep,
     RmStep, PTL DEF Spec

--------------------------------------------------------------------------------
(* What is left behind.                                                     *)

Creation == T.create[opts]
Removal == T.remove[opts]

\* What may be left behind after a failure.
Lax == MayLeak[driver] \cup MayStay[driver]

\* Step j of method m makes an r.
MadeAt(m, r, j) == m[j].op \in {"make", "ensure"} /\ m[j].res = r

\* The driver and its flags never change.
LEMMA SameDriver ==
  ASSUME TypeOK, [Next]_vars
  PROVE  /\ UNCHANGED <<driver, opts>> /\ T' = T /\ Creation' = Creation /\ Removal' = Removal /\ Lax' = Lax
         /\ Numbered' = Numbered
<1>1. UNCHANGED <<driver, opts>>
  BY MoveCases, OtherCases
<1> QED
  BY <1>1 DEF T, Creation, Removal, Lax, Numbered

\* The methods are sequences of steps.
LEMMA Methods ==
  ASSUME TypeOK
  PROVE  /\ Creation \in Seq([op : STRING, res : STRING, fail : OnError, absent : STRING, skip : Nat])
         /\ Removal \in Seq([op : STRING, res : STRING, fail : OnError, absent : STRING, skip : Nat])
         /\ Len(Creation) \in Nat /\ DOMAIN Creation = 1..Len(Creation)
         /\ Len(Removal) \in Nat /\ DOMAIN Removal = 1..Len(Removal)
         /\ phase = "create" => Steps = Creation
         /\ phase \in {"undo", "rm"} => Steps = Removal
<1>1. /\ Creation \in Seq([op : STRING, res : STRING, fail : OnError, absent : STRING, skip : Nat])
      /\ Removal \in Seq([op : STRING, res : STRING, fail : OnError, absent : STRING, skip : Nat])
  BY Types, TableAssumption DEF Base, T, Creation, Removal
<1>2. phase = "create" => Steps = Creation
  BY DEF Steps, Creation
<1>3. phase \in {"undo", "rm"} => Steps = Removal
  BY DEF Steps, Removal
<1> QED
  BY <1>1, <1>2, <1>3

\* What LeakAssumption says of a kind that Create makes.
LEMMA Conditions ==
  ASSUME TypeOK
  PROVE  /\ \A i \in DOMAIN Creation : Creation[i].fail # "collect"
         /\ \A r : Does(Creation, {"make", "ensure"}, r) /\ r \notin T.shared =>
              /\ r \in T.stored \ MayLeak[driver] => \E g \in DOMAIN Removal : UndoneAt(T, opts, r, g)
              /\ r \in Lax => AllOrNothing(T, Creation, Lax)
              /\ \/ \E g \in DOMAIN Removal : DropsAt(T, opts, r, g)
                 \/ r \in Lax /\ Smooth(T, opts, Lax)
<1>1. driver \in Names /\ opts \in Table[driver].flags
  BY Types DEF Base, T
<1>2. \A i \in DOMAIN Creation : Creation[i].fail # "collect"
  BY <1>1, LeakAssumption DEF Creation, T
<1>3. ASSUME NEW r, Does(Creation, {"make", "ensure"}, r), r \notin T.shared
      PROVE  /\ r \in T.stored \ MayLeak[driver] => \E g \in DOMAIN Removal : UndoneAt(T, opts, r, g)
             /\ r \in Lax => AllOrNothing(T, Creation, Lax)
             /\ \/ \E g \in DOMAIN Removal : DropsAt(T, opts, r, g)
                \/ r \in Lax /\ Smooth(T, opts, Lax)
  <2>1. PICK i \in DOMAIN Creation : Creation[i].op \in {"make", "ensure"} /\ Creation[i].res = r
    BY <1>3 DEF Does
  <2>2. i \in DOMAIN Table[driver].create[opts] /\ r \in {Table[driver].create[opts][i].res} \ Table[driver].shared
        /\ Table[driver].create[opts][i].op \in {"make", "ensure"}
    BY <1>3, <2>1 DEF Creation, T
  <2> QED
    BY <1>1, <2>2, LeakAssumption DEF Creation, Removal, T, Lax
<1> QED
  BY <1>2, <1>3

\* A step of a method that excuses nothing: it succeeds, or fails without any effect.
LEMMA UnexcusedStep ==
  ASSUME TypeOK, Moves, ~excused'
  PROVE  /\ Busy /\ ~excused /\ faults \in Nat /\ (faults' = 0 => faults = 0) /\ (faults > 0 => faults' > 0)
         /\ \/ StepWorks /\ faults' = faults
            \/ /\ Fails /\ cloud' = cloud
               /\ (~Works /\ faults' = faults) \/ (faults' > 0 /\ phase # "undo")
<1>1. faults \in Nat /\ excused \in BOOLEAN
  BY BoundsAssumption DEF TypeOK
<1>2. CASE StepWorks
  BY <1>1, <1>2 DEF StepWorks, Same
<1>3. CASE StepFails
  BY <1>1, <1>3 DEF StepFails, Same
<1>4. CASE RequestFails
  <2>1. Busy /\ Fails /\ cloud' = cloud /\ faults' = faults + 1 /\ excused' = (excused \/ (phase = "undo"))
    BY <1>4 DEF RequestFails, Fault
  <2>2. ~excused /\ phase # "undo"
    BY <1>1, <2>1, Zenon
  <2>3. faults' > 0 /\ faults' # 0
    BY <1>1, <2>1
  <2> QED
    BY <1>1, <2>1, <2>2, <2>3
<1>5. ~AnswerLost
  BY DEF AnswerLost, Fault
<1> QED
  BY <1>2, <1>3, <1>4, <1>5 DEF Moves

\* A step that fails.
LEMMA FailsHow ==
  ASSUME TypeOK, Busy, phase # "pre", Fails
  PROVE  \/ step.fail \in {"return", "remove"} /\ Return(TRUE) /\ (step.fail = "remove" => phase # "create")
         \/ step.fail = "remove" /\ Undoes /\ at' = 1 /\ err' = err
         \/ step.fail = "succeed" /\ Return(FALSE)
         \/ /\ step.fail \in {"ignore", "skip", "retry"}
            /\ UNCHANGED <<phase, saved, rec, mem, err, last>> /\ at' \in {at, at + 1, at + 1 + step.skip}
            /\ step.fail = "retry" => at' = at
<1>1. step.fail \in OnError /\ step.fail # "collect" /\ at \in Nat
  <2>1. step.fail \in OnError /\ at \in Nat /\ phase \in Phases /\ phase # "idle" /\ at \in DOMAIN Steps
    BY Types, StepType, Places DEF Base, Busy
  <2>2. CASE phase \in {"undo", "rm"}
    BY <2>1, <2>2, RemoveStep
  <2>3. CASE phase = "create"
    BY <2>1, <2>3, Methods, Conditions DEF step
  <2> QED
    BY <2>1, <2>2, <2>3 DEF Phases
<1>2. CASE step.fail \in {"return", "succeed"}
  BY <1>2 DEF Fails
<1>3. CASE step.fail = "remove"
  BY <1>3 DEF Fails, CallRemove, Undoes
<1>4. CASE step.fail = "ignore"
  <2>1. at' = at + 1 + 0 /\ UNCHANGED <<phase, saved, rec, mem, err, last>>
    BY <1>4 DEF Fails, GoOn
  <2>2. at' = at + 1
    BY <1>1, <2>1
  <2> QED
    BY <1>4, <2>1, <2>2
<1>5. CASE step.fail \in {"skip", "retry"}
  BY <1>5 DEF Fails, GoOn
<1> QED
  BY <1>1, <1>2, <1>3, <1>4, <1>5 DEF OnError

\* A step that succeeds.
LEMMA WorksHow ==
  ASSUME TypeOK, StepWorks
  PROVE  /\ Busy /\ Works /\ cloud' = Effect
         /\ \/ EndsHere /\ Return(FALSE)
            \/ /\ ~EndsHere /\ UNCHANGED <<phase, saved, rec, err, last>> /\ mem' = Learnt
               /\ at' \in {at + 1, at + 1 + step.skip} /\ \E n \in LeftOut : at' = at + 1 + n
<1>1. Busy /\ Works /\ cloud' = Effect /\ at \in Nat
  BY Types DEF StepWorks, Base
<1>2. CASE EndsHere
  BY <1>1, <1>2 DEF StepWorks
<1>3. CASE ~EndsHere
  <2>1. PICK n \in LeftOut : GoOn(n)
    BY <1>3 DEF StepWorks
  <2>2. n \in {0, step.skip}
    BY <2>1 DEF LeftOut
  <2>3. at' = at + 1 + n /\ UNCHANGED <<phase, saved, rec, err, last>> /\ mem' = Learnt
    BY <1>3, <2>1 DEF GoOn, StepWorks
  <2>4. n = 0 => at' = at + 1
    BY <1>1, <2>3
  <2> QED
    BY <1>1, <1>3, <2>1, <2>2, <2>3, <2>4
<1> QED
  BY <1>2, <1>3

\* What a step adds to what this machine has.
LEMMA OwnChange ==
  ASSUME TypeOK, [Next]_vars
  PROVE  \A x \in Own' : \/ x \in Own
                         \/ /\ Moves /\ Busy /\ phase = "create" /\ cloud' = Effect /\ x = New(step.res)
                            /\ MadeAt(Creation, step.res, at) /\ step.res \notin T.shared /\ at \in DOMAIN Creation
<1> SUFFICES ASSUME NEW x \in Own', x \notin Own
             PROVE  /\ Moves /\ Busy /\ phase = "create" /\ cloud' = Effect /\ x = New(step.res)
                    /\ MadeAt(Creation, step.res, at) /\ step.res \notin T.shared /\ at \in DOMAIN Creation
  OBVIOUS
<1>1. x \in cloud' /\ x \notin used' /\ x[1] \notin T.shared /\ used \subseteq used'
  <2>1. used \subseteq used'
    BY MoveCases, OtherCases DEF Share
  <2> QED
    BY <2>1, SameDriver DEF Own
<1>2. x \notin cloud
  BY <1>1 DEF Own
<1>3. Moves /\ Busy /\ cloud' = Effect
  <2>1. CASE ~Moves
    BY <1>1, <1>2, <2>1, OtherCases DEF Vanish
  <2> QED
    BY <1>1, <1>2, <2>1, MoveCases
<1>4. step.op \in {"make", "ensure"} /\ x = New(step.res)
  BY <1>1, <1>2, <1>3 DEF Effect
<1>5. phase = "create" /\ at \in DOMAIN Creation /\ Creation[at] = step
  <2>1. phase \in Phases /\ phase # "idle" /\ at \in DOMAIN Steps /\ phase # "pre"
    BY <1>3, <1>4, Types, StepType, Places DEF Base, Busy
  <2>2. phase \notin {"undo", "rm"}
    BY <1>3, <1>4, RemoveStep
  <2> QED
    BY <2>1, <2>2, Methods DEF Phases, step
<1>6. step.res \notin T.shared
  BY <1>1, <1>4 DEF New
<1> QED
  BY <1>3, <1>4, <1>5, <1>6 DEF MadeAt

\* What Remove has deleted does not come back.
DeletedInv ==
  phase \in {"undo", "rm"} => \A r \in STRING : DeletedBefore(Removal, r, at) => ~There(r)

\* Errors are returned at once; PreCreateCheck runs without a record; all that this machine has
\* is of the kinds that Create makes.
LifeInv ==
  /\ phase # "pre" => err = FALSE
  /\ phase = "pre" => ~saved
  /\ phase = "rm" /\ ~excused => force = FALSE
  /\ \A x \in Own : Does(Creation, {"make", "ensure"}, x[1]) /\ x[1] \notin T.shared
  /\ DeletedInv

\* A step of Remove keeps DeletedInv.
LEMMA DeletedMoves ==
  ASSUME TypeOK, LifeInv, Moves, phase \in {"undo", "rm"}, phase' = phase, T' = T, opts' = opts
  PROVE  DeletedInv'
<1>0. Busy /\ Steps = Removal /\ Removal' = Removal /\ cloud' \in {cloud, Effect}
  BY MoveCases, Methods DEF Removal
<1>1. Advances
  BY MoveCases DEF Undoes, Return, Busy
<1>2. cloud' \subseteq cloud /\ mem' \subseteq mem
  BY <1>0, <1>1, RemoveShrinks DEF Advances
<1> SUFFICES ASSUME NEW r \in STRING, DeletedBefore(Removal, r, at') PROVE ~There(r)'
  BY <1>0 DEF DeletedInv
<1>3. There(r)' => There(r)
  BY <1>2 DEF There, Addressed
<1>4. PICK g : /\ Passed(Removal, g, at') /\ Removal[g].op = "delete" /\ Removal[g].res = r
               /\ Removal[g].fail \in {"return", "remove"}
  BY DEF DeletedBefore
<1>5. CASE Passed(Removal, g, at)
  <2>1. DeletedBefore(Removal, r, at)
    BY <1>4, <1>5 DEF DeletedBefore, Passed
  <2> QED
    BY <1>3, <2>1 DEF LifeInv, DeletedInv
<1>6. CASE g = at
  <2>1. step.op = "delete" /\ step.res = r /\ step.fail \in {"return", "remove"}
    BY <1>0, <1>4, <1>6 DEF step
  <2>2. cloud' = Effect /\ mem' = Learnt
    BY <1>1, <2>1 DEF Advances
  <2>3. mem' = mem \ Addressed(r) /\ cloud' = cloud \ Addressed(r)
    BY <1>0, <2>1, <2>2, RemoveShrinks
  <2> QED
    BY <2>3 DEF There, Addressed
<1> QED
  BY <1>0, <1>1, <1>4, <1>5, <1>6, PassedStep DEF Advances

\* Every step keeps LifeInv.
LEMMA LifeStep == TypeOK /\ Control /\ LifeInv /\ [Next]_vars => LifeInv'
<1> SUFFICES ASSUME TypeOK, Control, LifeInv, [Next]_vars PROVE LifeInv'
  OBVIOUS
<1>0. /\ UNCHANGED <<driver, opts>> /\ T' = T /\ Creation' = Creation /\ Removal' = Removal
      /\ phase \in Phases /\ err \in BOOLEAN /\ excused \in BOOLEAN
  BY SameDriver DEF TypeOK
<1>1. \A x \in Own' : Does(Creation', {"make", "ensure"}, x[1]) /\ x[1] \notin T'.shared
  <2>1. ASSUME NEW x \in Own', x \notin Own PROVE Does(Creation, {"make", "ensure"}, x[1]) /\ x[1] \notin T.shared
    <3>1. MadeAt(Creation, step.res, at) /\ at \in DOMAIN Creation /\ x = New(step.res) /\ step.res \notin T.shared
      BY <2>1, OwnChange
    <3> QED
      BY <3>1 DEF Does, MadeAt, New
  <2> QED
    BY <1>0, <2>1 DEF LifeInv
<1>2. ASSUME NEW e \in BOOLEAN, Return(e), phase # "idle"
      PROVE  err' = FALSE /\ phase' \in {"idle", "create"}
  BY <1>0, <1>2 DEF Return, Phases
<1>3. /\ phase' # "pre" => err' = FALSE
      /\ phase' = "pre" => ~saved'
  <2>1. CASE Moves /\ phase = "pre"
    <3>1. CASE Advances
      BY <2>1, <3>1 DEF Advances, LifeInv
    <3>2. CASE Return(TRUE)
      BY <1>2, <2>1, <3>2
    <3>3. CASE Return(FALSE)
      BY <1>2, <2>1, <3>3
    <3> QED
      BY <2>1, <3>1, <3>2, <3>3, MoveCases DEF Undoes
  <2>2. CASE Moves /\ phase # "pre"
    <3>1. Busy /\ phase # "idle" /\ err = FALSE
      BY <2>2, MoveCases DEF Busy, LifeInv
    <3>2. CASE Fails
      BY <1>2, <2>2, <3>1, <3>2, FailsHow DEF Undoes
    <3>3. CASE StepWorks
      BY <1>2, <2>2, <3>1, <3>3, WorksHow
    <3> QED
      BY <2>2, <3>2, <3>3 DEF Moves, StepFails, RequestFails, AnswerLost
  <2>3. CASE Done
    BY <1>0, <1>2, <2>3 DEF Done
  <2>4. CASE ~Moves /\ ~Done
    <3>1. CASE Crash
      BY <3>1 DEF Crash
    <3>2. CASE StartCreate \/ StartRm
      BY <3>2 DEF StartCreate, StartRm, LifeInv
    <3>3. CASE Vanish \/ Share \/ UNCHANGED vars
      <4>1. UNCHANGED <<phase, err, saved>>
        BY <3>3 DEF Vanish, Share, vars
      <4> QED
        BY <4>1 DEF LifeInv
    <3> QED
      BY <2>4, <3>1, <3>2, <3>3, OtherCases
  <2> QED
    BY <2>1, <2>2, <2>3, <2>4
<1>4. phase' = "rm" /\ ~excused' => force' = FALSE
  <2>1. CASE StartRm
    <3>1. PICK f \in BOOLEAN : force' = f /\ excused' = (excused \/ f)
      BY <2>1 DEF StartRm
    <3> QED
      BY <1>0, <3>1, Zenon
  <2>2. CASE ~StartRm
    <3>1. force' = force /\ (phase' = "rm" => phase = "rm")
      <4>1. CASE Moves
        <5>1. force' = force /\ phase # "idle"
          BY <4>1, MoveCases DEF Moves, StepWorks, StepFails, RequestFails, AnswerLost, Same, Fault, Busy
        <5> QED
          BY <1>2, <4>1, <5>1, MoveCases DEF Advances, Undoes
      <4>2. CASE Done
        BY <1>0, <1>2, <4>2 DEF Done, Same
      <4> QED
        BY <2>2, <4>1, <4>2, OtherCases DEF Crash, Vanish, Share, StartCreate, vars, Fault
    <3>2. excused => excused'
      <4>1. CASE RequestFails \/ AnswerLost \/ Crash \/ Vanish \/ Share
        <5>1. \E b \in BOOLEAN : excused' = (excused \/ b)
          BY <4>1 DEF RequestFails, AnswerLost, Crash, Vanish, Share, Fault
        <5> QED
          BY <1>0, <5>1, Zenon
      <4> QED
        BY <2>2, <4>1 DEF Next, StepWorks, StepFails, Done, Same, StartCreate, vars
    <3> QED
      BY <3>1, <3>2 DEF LifeInv
  <2> QED
    BY <2>1, <2>2
<1>5. DeletedInv'
  <2>1. CASE Moves /\ phase' = phase
    <3>1. CASE phase \in {"undo", "rm"}
      BY <1>0, <2>1, <3>1, DeletedMoves
    <3> QED
      BY <2>1, <3>1 DEF DeletedInv
  <2>2. CASE (Moves \/ Done \/ StartRm \/ StartCreate) /\ phase' # phase
    <3>1. phase' \in {"undo", "rm"} => at' = 1
      <4>1. CASE Moves
        <5>1. Busy /\ phase # "idle"
          BY <4>1, MoveCases DEF Busy
        <5>2. ~Advances
          BY <2>2 DEF Advances
        <5>3. CASE Fails
          <6>1. CASE phase = "pre"
            BY <1>2, <5>1, <5>2, <4>1, <6>1, MoveCases DEF Undoes
          <6> QED
            BY <1>2, <2>2, <5>1, <5>3, <6>1, FailsHow
        <5>4. CASE StepWorks
          BY <1>2, <2>2, <5>1, <5>4, WorksHow
        <5> QED
          BY <4>1, <5>3, <5>4 DEF Moves, StepFails, RequestFails, AnswerLost
      <4>2. CASE Done
        BY <1>0, <1>2, <4>2 DEF Done
      <4> QED
        BY <2>2, <4>1, <4>2 DEF StartRm, StartCreate
    <3>2. \A r : ~DeletedBefore(Removal', r, 1)
      BY DEF DeletedBefore, Passed
    <3> QED
      BY <3>1, <3>2 DEF DeletedInv
  <2>3. CASE Done \/ StartRm \/ StartCreate
    <3>1. phase' # phase
      BY <1>0, <1>2, <2>3 DEF Done, StartRm, StartCreate, Return
    <3> QED
      BY <2>2, <2>3, <3>1
  <2>4. CASE Crash
    BY <2>4 DEF Crash, DeletedInv
  <2>5. CASE Vanish \/ Share \/ UNCHANGED vars
    <3>1. UNCHANGED <<phase, at, mem>> /\ cloud' \subseteq cloud
      BY <2>5 DEF Vanish, Share, vars
    <3>2. \A r : There(r)' => There(r)
      BY <1>0, <3>1 DEF There, Addressed
    <3> QED
      BY <1>0, <3>1, <3>2 DEF DeletedInv, LifeInv
  <2> QED
    BY <2>1, <2>2, <2>3, <2>4, <2>5, OtherCases
<1> QED
  BY <1>1, <1>3, <1>4, <1>5 DEF LifeInv

\* It holds at first.
LEMMA InitLife == Init => LifeInv
<1> SUFFICES ASSUME Init PROVE LifeInv
  OBVIOUS
<1>1. Own = {}
  BY DEF Init, Own
<1>2. phase = "idle" /\ err = FALSE
  BY DEF Init
<1> QED
  BY <1>1, <1>2 DEF LifeInv, DeletedInv

\* What is based on u is there only if there is a u, and Create that is past a step which
\* makes or finds a u has one.
BasedInv ==
  \A r, u : BasedOn(T, opts, r, u) =>
    /\ <<r, 0>> \in cloud => <<u, 0>> \in cloud
    /\ phase = "create" => \A g : Gate(Creation, u, g) /\ Creation[g].op \in {"make", "ensure", "must"} /\ at > g =>
                             <<u, 0>> \in cloud

\* What is based on u keeps the platform from deleting u.
LEMMA BaseKept ==
  ASSUME TypeOK, Busy, NEW r, NEW u, BasedOn(T, opts, r, u), <<u, 0>> \in cloud, Works,
         phase = "create" \/ <<r, 0>> \in cloud
  PROVE  <<u, 0>> \in Effect
<1>1. CASE step.op = "delete" /\ step.res = u
  <2>1. phase \in {"create", "undo", "rm"}
    BY <1>1, Types, StepType DEF Base, Phases, Busy
  <2>2. phase # "create"
    <3> SUFFICES ASSUME phase = "create" PROVE FALSE
      OBVIOUS
    <3>1. at \in DOMAIN T.create[opts] /\ T.create[opts][at] = step
      BY Types, Places DEF Steps, step
    <3>2. ~Does(T.create[opts], {"delete"}, u)
      BY DEF BasedOn
    <3> QED
      BY <1>1, <3>1, <3>2 DEF Does
  <2>3. There(u) /\ Refuses(u)
    BY <2>2 DEF BasedOn, There, Addressed, InUse, Refuses
  <2> QED
    BY <1>1, <2>3 DEF Works
<1>2. CASE ~(step.op = "delete" /\ step.res = u)
  <2>1. step.res # u => <<u, 0>> \notin Addressed(step.res)
    BY DEF Addressed
  <2> QED
    BY <1>2, <2>1 DEF Effect
<1> QED
  BY <1>1, <1>2

\* Every step keeps BasedInv.
LEMMA BasedStep == TypeOK /\ BasedInv /\ [Next]_vars => BasedInv'
<1> SUFFICES ASSUME TypeOK, BasedInv, [Next]_vars PROVE BasedInv'
  OBVIOUS
<1> SUFFICES ASSUME NEW r, NEW u, BasedOn(T, opts, r, u)
             PROVE  /\ <<r, 0>> \in cloud' => <<u, 0>> \in cloud'
                    /\ phase' = "create" => \A g : /\ Gate(Creation, u, g) /\ Creation[g].op \in {"make", "ensure", "must"}
                                                   /\ at' > g
                                                   => <<u, 0>> \in cloud'
  <2>1. T' = T /\ opts' = opts /\ Creation' = Creation
    BY SameDriver
  <2> QED
    BY <2>1 DEF BasedInv
<1>0. /\ T' = T /\ u \notin T.stored /\ u \notin Numbered /\ r \notin Numbered /\ phase \in Phases
      /\ <<r, 0>> \in cloud => <<u, 0>> \in cloud
  BY SameDriver DEF BasedOn, Numbered, TypeOK, BasedInv
<1>1. CASE Moves
  <2>0. Busy /\ phase # "idle" /\ cloud' \in {cloud, Effect} /\ (cloud' # cloud => Works)
    BY <1>1, MoveCases DEF Busy, Moves, StepWorks, StepFails, RequestFails, AnswerLost
  <2>1. phase = "create" => Steps = Creation
    BY Methods
  <2>2. <<r, 0>> \in cloud' => <<u, 0>> \in cloud
    <3> SUFFICES ASSUME <<r, 0>> \in cloud', <<r, 0>> \notin cloud PROVE <<u, 0>> \in cloud
      BY <1>0
    <3>1. step.op \in {"make", "ensure"} /\ <<r, 0>> = New(step.res)
      BY <2>0 DEF Effect
    <3>2. step.res = r
      BY <3>1 DEF New
    <3>3. phase = "create"
      <4>1. phase \notin {"undo", "rm"} /\ phase # "pre"
        BY <2>0, <3>1, RemoveStep, StepType, Types
      <4> QED
        BY <1>0, <2>0, <4>1 DEF Phases
    <3>4. at \in DOMAIN T.create[opts] /\ T.create[opts][at] = step
      BY <2>0, <3>3, Types, Places DEF Steps, step
    <3>5. PICK g \in 1..at - 1 : Gate(T.create[opts], u, g) /\ T.create[opts][g].op \in {"make", "ensure", "must"}
      BY <3>1, <3>2, <3>4 DEF BasedOn
    <3>6. at > g
      BY <3>5, Types DEF Base
    <3> QED
      BY <3>3, <3>5, <3>6 DEF BasedInv, Creation
  <2>3. <<r, 0>> \in cloud' => <<u, 0>> \in cloud'
    <3> SUFFICES ASSUME <<r, 0>> \in cloud', cloud' # cloud PROVE <<u, 0>> \in cloud'
      BY <2>2
    <3>1. CASE phase = "create" \/ <<r, 0>> \in cloud
      BY <2>0, <2>2, <3>1, BaseKept
    <3>2. CASE phase # "create" /\ <<r, 0>> \notin cloud
      <4>1. step.op \notin {"make", "ensure"}
        BY <1>0, <2>0, <3>2, RemoveStep, StepType, Types DEF Phases
      <4> QED
        BY <2>0, <3>2, <4>1 DEF Effect
    <3> QED
      BY <3>1, <3>2
  <2>4. ASSUME phase' = "create", NEW g, Gate(Creation, u, g), Creation[g].op \in {"make", "ensure", "must"}, at' > g
        PROVE  <<u, 0>> \in cloud'
    <3>0. g \in Nat \ {0} /\ at \in Nat
      BY <2>4, Types, Places DEF Gate, Creation, Base
    <3>1. phase = "create" /\ Advances
      <4>1. ~Undoes
        BY <2>4 DEF Undoes
      <4>2. ASSUME NEW e \in BOOLEAN, Return(e) PROVE FALSE
        <5>1. at' = 1
          BY <4>2 DEF Return
        <5> QED
          BY <2>4, <3>0, <5>1
      <4> QED
        BY <1>1, <2>4, <4>1, <4>2, MoveCases DEF Advances
    <3>2. CASE at > g
      <4>1. <<u, 0>> \in cloud
        BY <2>4, <3>1, <3>2 DEF BasedInv
      <4> QED
        BY <2>0, <3>1, <4>1, BaseKept
    <3>3. CASE ~(at > g)
      <4>1. at <= g /\ ~(at' <= g)
        <5>1. at' \in Nat
          BY <3>0, <3>1, <2>0, StepType, Types DEF Advances
        <5> QED
          BY <2>4, <3>0, <3>3, <5>1
      <4>2. at = g /\ Works /\ cloud' = Effect
        BY <1>1, <2>1, <2>4, <3>1, <4>1, GatePassed
      <4>3. step.res = u /\ step.op \in {"make", "ensure", "must"}
        BY <2>1, <2>4, <3>1, <4>2 DEF Gate, step
      <4>4. CASE step.op \in {"make", "ensure"}
        <5>1. New(u) = <<u, 0>>
          BY <1>0 DEF New
        <5> QED
          BY <4>2, <4>3, <4>4, <5>1 DEF Effect
      <4>5. CASE step.op = "must"
        BY <1>0, <4>2, <4>3, <4>5 DEF Effect, Works, There, Addressed
      <4> QED
        BY <4>3, <4>4, <4>5
    <3> QED
      BY <3>2, <3>3
  <2> QED
    BY <2>3, <2>4
<1>2. CASE ~Moves
  <2>1. <<r, 0>> \in cloud' => <<u, 0>> \in cloud'
    <3>1. CASE Vanish
      <4>1. PICK x \in cloud \ used : x[1] = u /\ cloud' = {y \in cloud : y # x /\ <<y[1], x[1]>> \notin T.uses}
        BY <3>1 DEF Vanish, BasedOn
      <4>2. <<r, 0>>[1] = r /\ <<r, u>> \in T.uses
        BY DEF BasedOn
      <4> QED
        BY <4>1, <4>2
    <3> QED
      BY <1>0, <1>2, <3>1, OtherCases
  <2>2. ASSUME phase' = "create", NEW g, Gate(Creation, u, g), Creation[g].op \in {"make", "ensure", "must"}, at' > g
        PROVE  <<u, 0>> \in cloud'
    <3>0. g \in Nat \ {0}
      BY <2>2, Types, Places DEF Gate, Creation
    <3>1. ~Done
      <4> SUFFICES ASSUME Done PROVE FALSE
        OBVIOUS
      <4>1. at' = 1
        BY DEF Done, Return
      <4> QED
        BY <2>2, <3>0, <4>1
    <3>2. UNCHANGED <<phase, at, cloud>>
      BY <1>2, <2>2, <3>1, OtherCases DEF Crash, Vanish, Share, StartCreate, StartRm, vars
    <3> QED
      BY <2>2, <3>2 DEF BasedInv
  <2> QED
    BY <2>1, <2>2
<1> QED
  BY <1>1, <1>2

\* It holds at first.
LEMMA InitBased == Init => BasedInv
<1> SUFFICES ASSUME Init, NEW r, NEW u, BasedOn(T, opts, r, u) PROVE <<r, 0>> \notin cloud /\ phase # "create"
  BY DEF BasedInv
<1>1. r \notin T.foreign \cup T.shared /\ phase = "idle"
  BY DEF BasedOn, Init
<1> QED
  BY <1>1 DEF Init, T

\* The number of a create is new when the create begins.
NumInv == \A x \in cloud : x[1] \in Numbered => x[2] <= creates /\ (phase = "pre" => x[2] < creates)

\* Every step keeps NumInv.
LEMMA NumStep == TypeOK /\ NumInv /\ [Next]_vars => NumInv'
<1> SUFFICES ASSUME TypeOK, NumInv, [Next]_vars, NEW x \in cloud', x[1] \in Numbered
             PROVE  x[2] <= creates' /\ (phase' = "pre" => x[2] < creates')
  <2>1. TypeOK /\ [Next]_vars => Numbered' = Numbered
    BY SameDriver
  <2> QED
    BY <2>1 DEF NumInv
<1>0. creates \in Nat /\ phase \in Phases /\ cloud \subseteq STRING \X Nat
  BY Types, BoundsAssumption DEF Resources, Base
<1>1. CASE Moves
  <2>1. Busy /\ cloud' \in {cloud, Effect} /\ creates' = creates /\ phase # "idle"
    BY <1>1, MoveCases DEF Busy
  <2>2. CASE x \in cloud
    <3>1. phase' = "pre" => phase = "pre"
      <4>1. ASSUME NEW e \in BOOLEAN, Return(e) PROVE phase' # "pre"
        BY <1>0, <2>1, <4>1, ReturnCases
      <4> QED
        BY <1>1, <4>1, MoveCases DEF Advances, Undoes
    <3> QED
      BY <2>1, <2>2, <3>1 DEF NumInv
  <2>3. CASE x \notin cloud
    <3>1. step.op \in {"make", "ensure"} /\ x = New(step.res)
      BY <2>1, <2>3 DEF Effect
    <3>2. phase' # "pre"
      <4>1. ASSUME NEW e \in BOOLEAN, Return(e) PROVE phase' # "pre"
        BY <1>0, <2>1, <4>1, ReturnCases
      <4> QED
        BY <1>1, <2>1, <3>1, <4>1, StepType, Types, MoveCases DEF Advances, Undoes
    <3>3. x[2] = creates
      BY <3>1 DEF New
    <3> QED
      BY <1>0, <2>1, <3>2, <3>3
  <2> QED
    BY <2>2, <2>3
<1>2. CASE ~Moves
  <2>1. x \in cloud
    BY <1>2, OtherCases DEF Vanish
  <2>2. x[2] <= creates /\ (phase = "pre" => x[2] < creates) /\ x[2] \in Nat
    BY <1>0, <2>1 DEF NumInv
  <2>3. CASE StartCreate
    <3>1. creates' = creates + 1
      BY <2>3 DEF StartCreate
    <3> QED
      BY <1>0, <2>2, <3>1
  <2>4. CASE Done
    <3>1. err \in BOOLEAN /\ Return(err) /\ phase # "idle" /\ creates' = creates
      BY <2>4 DEF Done, TypeOK, Same
    <3> QED
      BY <1>0, <2>2, <3>1, ReturnCases
  <2>5. CASE Crash \/ Vanish \/ Share \/ StartRm \/ UNCHANGED vars
    <3>1. creates' = creates /\ (phase' = "pre" => phase = "pre")
      BY <2>5 DEF Crash, Vanish, Share, StartRm, vars, Fault
    <3> QED
      BY <2>2, <3>1
  <2> QED
    BY <1>2, <2>3, <2>4, <2>5, OtherCases
<1> QED
  BY <1>1, <1>2

\* It holds at first.
LEMMA InitNum == Init => NumInv
<1> SUFFICES ASSUME Init PROVE NumInv
  OBVIOUS
<1>1. (\A x \in cloud : x[2] = 0) /\ creates = 0 /\ phase = "idle"
  BY DEF Init
<1> QED
  BY <1>1 DEF NumInv

\* The places before the one after i.
LEMMA Before ==
  ASSUME NEW i \in Nat \ {0}
  PROVE  /\ i \in 1..(i + 1) - 1 /\ i + 1..(i + 1) - 1 = {}
         /\ \A j \in 1..(i + 1) - 1 : j \in 1..i - 1 \/ j = i
         /\ \A j \in 1..i - 1 : j \in 1..(i + 1) - 1 /\ i \in j + 1..(i + 1) - 1 /\ j + 1..i - 1 \subseteq j + 1..(i + 1) - 1
         /\ \A j \in 1..i - 1 : \A k \in j + 1..(i + 1) - 1 : k \in j + 1..i - 1 \/ k = i
<1>1. i \in 1..(i + 1) - 1 /\ i + 1..(i + 1) - 1 = {}
  OBVIOUS
<1>2. \A j \in 1..(i + 1) - 1 : j \in 1..i - 1 \/ j = i
  OBVIOUS
<1>3. \A j \in 1..i - 1 : j \in 1..(i + 1) - 1 /\ i \in j + 1..(i + 1) - 1 /\ j + 1..i - 1 \subseteq j + 1..(i + 1) - 1
  OBVIOUS
<1>4. \A j \in 1..i - 1 : \A k \in j + 1..(i + 1) - 1 : k \in j + 1..i - 1 \/ k = i
  OBVIOUS
<1> QED
  BY <1>1, <1>2, <1>3, <1>4

\* What stands after step i was made by it, or stood before and was not deleted by it.
LEMMA StandingNext ==
  ASSUME NEW m, NEW r, NEW i \in Nat \ {0}
  PROVE  Standing(m, r, i + 1) <=>
           \/ MadeAt(m, r, i)
           \/ Standing(m, r, i) /\ (m[i].op = "delete" => m[i].res # r)
<1>1. ASSUME Standing(m, r, i + 1), ~MadeAt(m, r, i)
      PROVE  Standing(m, r, i) /\ (m[i].op = "delete" => m[i].res # r)
  <2>1. PICK j \in 1..(i + 1) - 1 :
          /\ MadeAt(m, r, j)
          /\ \A k \in j + 1..(i + 1) - 1 : m[k].op = "delete" => m[k].res # r
    BY <1>1 DEF Standing, MadeAt
  <2>2. j \in 1..i - 1
    BY <1>1, <2>1, Before
  <2>3. i \in j + 1..(i + 1) - 1 /\ j + 1..i - 1 \subseteq j + 1..(i + 1) - 1
    BY <2>2, Before
  <2> QED
    BY <2>1, <2>2, <2>3 DEF Standing, MadeAt
<1>2. ASSUME MadeAt(m, r, i) PROVE Standing(m, r, i + 1)
  BY <1>2, Before DEF Standing, MadeAt
<1>3. ASSUME Standing(m, r, i), m[i].op = "delete" => m[i].res # r PROVE Standing(m, r, i + 1)
  <2>1. PICK j \in 1..i - 1 :
          /\ MadeAt(m, r, j)
          /\ \A k \in j + 1..i - 1 : m[k].op = "delete" => m[k].res # r
    BY <1>3 DEF Standing, MadeAt
  <2>2. j \in 1..(i + 1) - 1 /\ \A k \in j + 1..(i + 1) - 1 : k \in j + 1..i - 1 \/ k = i
    BY <2>1, Before
  <2> QED
    BY <1>3, <2>1, <2>2 DEF Standing, MadeAt
<1> QED
  BY <1>1, <1>2, <1>3

\* An id that is held after step i was learnt at it, or held before and not dropped by it.
LEMMA HeldNext ==
  ASSUME NEW m, NEW r, NEW i \in Nat \ {0}, Held(m, r, i + 1)
  PROVE  \/ m[i].res = r /\ ((m[i].op = "make" /\ m[i].absent # "unseen") \/ (m[i].op = "keep" /\ Standing(m, r, i)))
         \/ Held(m, r, i) /\ (m[i].op = "delete" => m[i].res # r)
<1>1. PICK j \in 1..(i + 1) - 1 :
        /\ m[j].res = r
        /\ (m[j].op = "make" /\ m[j].absent # "unseen") \/ (m[j].op = "keep" /\ Standing(m, r, j))
        /\ \A k \in j + 1..(i + 1) - 1 : m[k].op = "delete" => m[k].res # r
  BY DEF Held
<1>2. CASE j = i
  BY <1>1, <1>2
<1>3. CASE j \in 1..i - 1
  <2>1. i \in j + 1..(i + 1) - 1 /\ j + 1..i - 1 \subseteq j + 1..(i + 1) - 1
    BY <1>3, Before
  <2>2. Held(m, r, i)
    BY <1>1, <1>3, <2>1 DEF Held
  <2> QED
    BY <1>1, <2>1, <2>2
<1> QED
  BY <1>1, <1>2, <1>3, Before

\* Nothing that may be left behind is there.
NoneLax == \A x \in Own : x[1] \notin Lax

\* What a Create without failures has done so far, if it makes all or nothing.
Built ==
  /\ at <= Len(Creation) + 1
  /\ \A x \in Own : x[1] \in Lax => x = New(x[1]) /\ Standing(Creation, x[1], at)
  /\ \A r : /\ Standing(Creation, r, at) => New(r) \in cloud
            /\ r \in T.stored /\ Held(Creation, r, at) => New(r) \in mem
  /\ \A x \in cloud : x[1] \in Numbered /\ x[2] = creates => \E j \in 1..at - 1 : MadeAt(Creation, x[1], j)

\* What nothing can use is not in use.
LEMMA NoUse ==
  ASSUME NEW r, Unused(T, r)
  PROVE  ~InUse(r)
<1> SUFFICES ASSUME NEW y \in cloud, <<y[1], r>> \in T.uses PROVE FALSE
  BY DEF InUse
<1>1. <<y[1], r>>[2] = r
  OBVIOUS
<1> QED
  BY <1>1 DEF Unused

\* Once it has made something that may be left behind, it does not fail by itself.
LEMMA SureWorks ==
  ASSUME TypeOK, Busy, phase = "create", AllOrNothing(T, Creation, Lax), Built, ~NoneLax
  PROVE  Works /\ Sure(T, Creation, at)
<1>1. PICK x \in Own : x[1] \in Lax
  BY DEF NoneLax
<1>2. at \in DOMAIN Creation /\ step = Creation[at] /\ step.res \in STRING
  BY Methods, Types, Places, StepType DEF step
<1>3. PICK f \in 1..at - 1 : MadeAt(Creation, x[1], f)
  BY <1>1 DEF Built, Standing, MadeAt
<1>4. Sure(T, Creation, at)
  BY <1>1, <1>2, <1>3 DEF AllOrNothing, MadeAt
<1>5. CASE step.op = "make"
  <2>1. step.res \in Numbered /\ New(step.res) = <<step.res, creates>>
    BY <1>2, <1>4, <1>5 DEF Sure, Numbered, New
  <2>2. \A j \in 1..at - 1 : ~MadeAt(Creation, step.res, j)
    BY <1>2, <1>4, <1>5 DEF Sure, MadeAt
  <2>3. <<step.res, creates>> \notin cloud
    BY <2>1, <2>2 DEF Built
  <2> QED
    BY <1>4, <1>5, <2>1, <2>3 DEF Works
<1>6. CASE step.op = "delete"
  <2>1. /\ Unused(T, step.res) /\ step.res \in T.stored
        /\ Standing(Creation, step.res, at) /\ Held(Creation, step.res, at)
    BY <1>2, <1>4, <1>6 DEF Sure
  <2>2. There(step.res)
    <3>1. New(step.res) \in cloud /\ New(step.res) \in mem /\ New(step.res)[1] = step.res
      BY <2>1 DEF Built, New
    <3> QED
      BY <2>1, <3>1 DEF There, Addressed
  <2>3. ~Refuses(step.res)
    <3>1. step.res \notin T.shared
      BY <1>6, StepType, Types
    <3> QED
      BY <2>1, <3>1, NoUse DEF Refuses, Attached
  <2> QED
    BY <1>4, <1>6, <2>2, <2>3 DEF Works
<1>7. CASE step.op \notin {"make", "delete"}
  <2>1. step.op \notin {"must", "mustnot", "given", "unsupported"}
    BY <1>2, <1>4 DEF Sure
  <2> QED
    BY <1>4, <1>7, <2>1 DEF Works
<1> QED
  BY <1>5, <1>6, <1>7

\* What a delete is about is gone after it.
LEMMA Drops ==
  ASSUME TypeOK, IdInv, NEW x \in Own, x[1] = step.res, x[1] \in T.stored => x \in mem, step.op = "delete"
  PROVE  x \notin Effect
<1>1. x \in cloud /\ x \notin used /\ x \in STRING \X Nat
  BY Types DEF Own, Resources
<1>2. x \in Addressed(step.res)
  <2>1. CASE x[1] \in T.stored
    BY <2>1 DEF Addressed
  <2>2. CASE x[1] \notin T.stored
    <3>1. x[2] = 0
      BY <1>1, <2>2 DEF IdInv, Numbered
    <3>2. x = <<step.res, 0>>
      BY <1>1, <3>1
    <3> QED
      BY <2>2, <3>2 DEF Addressed
  <2> QED
    BY <2>1, <2>2
<1> QED
  BY <1>1, <1>2 DEF Effect

\* What a step that succeeds leaves alone.
LEMMA LeavesAlone ==
  ASSUME NEW x
  PROVE  /\ x \in cloud /\ (step.op = "delete" => x[1] # step.res) => x \in Effect
         /\ x \in mem /\ (step.op = "delete" => x[1] # step.res) => x \in Learnt
         /\ x \in mem /\ x \in Effect => x \in Learnt
<1>1. x[1] # step.res => x \notin Addressed(step.res)
  BY DEF Addressed
<1> QED
  BY <1>1 DEF Effect, Learnt

\* A step of Create without failures keeps Built.
LEMMA BuiltStep ==
  ASSUME TypeOK, IdInv, Busy, phase = "create", AllOrNothing(T, Creation, Lax), Built,
         UNCHANGED <<driver, opts, used, late, creates>>,
         \/ Works /\ cloud' = Effect /\ mem' = Learnt /\ at' = at + 1
         \/ ~Works /\ step.fail \notin {"return", "remove"} /\ cloud' = cloud /\ mem' = mem /\ at' \in {at, at + 1}
  PROVE  Built'
<1>0. /\ at \in Nat \ {0} /\ at \in DOMAIN Creation /\ step = Creation[at] /\ Creation' = Creation /\ T' = T /\ Lax' = Lax
      /\ Numbered' = Numbered /\ at <= Len(Creation) /\ Len(Creation) \in Nat
      /\ cloud \subseteq Resources
  <2>1. at \in Nat \ {0} /\ at \in DOMAIN Creation /\ step = Creation[at] /\ Len(Creation) \in Nat /\ at <= Len(Creation)
        /\ cloud \subseteq Resources
    BY Methods, Types, Places DEF step, Base, Busy
  <2> QED
    BY <2>1 DEF Creation, T, Lax, Numbered
<1>1. \A r : New(r)' = New(r) /\ New(r)[1] = r
  BY <1>0 DEF New
<1>2. ~Works => step.op \notin {"make", "ensure", "keep", "delete"}
  BY <1>0 DEF AllOrNothing
<1>3. CASE at' = at
  <2>1. UNCHANGED <<cloud, mem, at>>
    BY <1>0, <1>3
  <2> QED
    BY <1>0, <1>1, <2>1 DEF Built, Own
<1>4. CASE at' = at + 1
  <2>0. at' <= Len(Creation) + 1
    BY <1>0, <1>4
  <2>1. ASSUME NEW r, Standing(Creation, r, at + 1) PROVE New(r) \in cloud'
    <3>1. CASE MadeAt(Creation, r, at)
      BY <1>0, <1>2, <3>1 DEF MadeAt, Effect
    <3>2. CASE Standing(Creation, r, at) /\ (step.op = "delete" => step.res # r)
      <4>1. New(r) \in cloud
        BY <3>2 DEF Built
      <4> QED
        BY <1>1, <3>2, <4>1, LeavesAlone
    <3> QED
      BY <1>0, <2>1, <3>1, <3>2, StandingNext
  <2>2. ASSUME NEW r \in T.stored, Held(Creation, r, at + 1) PROVE New(r) \in mem'
    <3>1. CASE step.res = r /\ step.op = "make" /\ step.absent # "unseen"
      BY <1>2, <3>1 DEF Learnt
    <3>2. CASE step.res = r /\ step.op = "keep" /\ Standing(Creation, r, at)
      <4>1. New(r) \in cloud
        BY <3>2 DEF Built
      <4> QED
        BY <1>2, <3>2, <4>1 DEF Learnt
    <3>3. CASE Held(Creation, r, at) /\ (step.op = "delete" => step.res # r)
      <4>1. New(r) \in mem
        BY <3>3 DEF Built
      <4> QED
        BY <1>1, <3>3, <4>1, LeavesAlone
    <3> QED
      BY <1>0, <2>2, <3>1, <3>2, <3>3, HeldNext
  <2>3. ASSUME NEW x \in Own', x[1] \in Lax PROVE x = New(x[1]) /\ Standing(Creation, x[1], at + 1)
    <3>1. x \in cloud' /\ x \notin used /\ x[1] \notin T.shared
      BY <1>0, <2>3 DEF Own
    <3>2. CASE x \in cloud
      <4>0. x \in Own
        BY <3>1, <3>2 DEF Own
      <4>1. x = New(x[1]) /\ Standing(Creation, x[1], at)
        BY <2>3, <4>0 DEF Built
      <4>2. step.op = "delete" => step.res # x[1]
        <5> SUFFICES ASSUME step.op = "delete", step.res = x[1] PROVE FALSE
          OBVIOUS
        <5>1. Works /\ Sure(T, Creation, at)
          BY <2>3, <4>0, SureWorks DEF NoneLax
        <5>2. step.res \in T.stored /\ Held(Creation, step.res, at)
          BY <1>0, <5>1 DEF Sure
        <5>3. x \in mem
          BY <4>1, <5>2 DEF Built
        <5>4. x \notin Effect
          BY <4>0, <5>3, Drops
        <5> QED
          BY <3>1, <5>1, <5>4
      <4> QED
        BY <1>0, <4>1, <4>2, StandingNext
    <3>3. CASE x \notin cloud
      <4>1. step.op \in {"make", "ensure"} /\ x = New(step.res)
        BY <3>1, <3>3 DEF Effect
      <4>2. MadeAt(Creation, x[1], at) /\ x = New(x[1])
        BY <1>0, <1>1, <4>1 DEF MadeAt
      <4> QED
        BY <1>0, <4>2, StandingNext
    <3> QED
      BY <3>2, <3>3
  <2>4. ASSUME NEW x \in cloud', x[1] \in Numbered, x[2] = creates PROVE \E j \in 1..(at + 1) - 1 : MadeAt(Creation, x[1], j)
    <3>1. CASE x \in cloud
      <4>1. PICK j \in 1..at - 1 : MadeAt(Creation, x[1], j)
        BY <2>4, <3>1 DEF Built
      <4>2. j \in 1..(at + 1) - 1
        BY <1>0, <4>1, Before
      <4> QED
        BY <4>1, <4>2
    <3>2. CASE x \notin cloud
      <4>1. step.op \in {"make", "ensure"} /\ x = New(step.res)
        BY <2>4, <3>2 DEF Effect
      <4>2. MadeAt(Creation, x[1], at)
        BY <1>0, <1>1, <4>1 DEF MadeAt
      <4> QED
        BY <1>0, <4>2, Before
    <3> QED
      BY <3>1, <3>2
  <2> QED
    BY <1>0, <1>1, <1>4, <2>0, <2>1, <2>2, <2>3, <2>4 DEF Built
<1> QED
  BY <1>3, <1>4

\* At step i of a Remove without failures whose ids are M: all that Create has made is found.
Whole(M, i) ==
  /\ \A x \in Own : x[1] \in Lax => x = New(x[1]) /\ Finds(T, opts, x[1], i)
  /\ \A r : Finds(T, opts, r, i) => New(r) \in cloud /\ (r \in T.stored => New(r) \in M)

\* What is found after step i was found before and not deleted by it.
LEMMA FindsNext ==
  ASSUME NEW r, NEW i \in Nat \ {0}
  PROVE  Finds(T, opts, r, i + 1) <=>
           Finds(T, opts, r, i) /\ (Removal[i].op = "delete" => Removal[i].res # r)
<1>1. ASSUME \A k \in 1..(i + 1) - 1 : Removal[k].op = "delete" => Removal[k].res # r
      PROVE  /\ Removal[i].op = "delete" => Removal[i].res # r
             /\ \A k \in 1..i - 1 : Removal[k].op = "delete" => Removal[k].res # r
  <2>1. i \in 1..(i + 1) - 1 /\ \A k \in 1..i - 1 : k \in 1..(i + 1) - 1
    BY Before
  <2> QED
    BY <1>1, <2>1
<1>2. ASSUME Removal[i].op = "delete" => Removal[i].res # r,
             \A k \in 1..i - 1 : Removal[k].op = "delete" => Removal[k].res # r
      PROVE  \A k \in 1..(i + 1) - 1 : Removal[k].op = "delete" => Removal[k].res # r
  BY <1>2, Before
<1> QED
  BY <1>1, <1>2 DEF Finds, Removal

\* What DeletedInv says of the steps of Remove.
LEMMA FreeOfUse ==
  ASSUME TypeOK, IdInv, LifeInv, phase \in {"undo", "rm"}, NEW r, Free(T, Removal, r, at)
  PROVE  ~InUse(r)
<1>1. Steps = Removal
  BY Methods
<1>2. \A q \in STRING : DeletedBefore(Steps, q, at) => ~There(q)
  BY <1>1 DEF LifeInv, DeletedInv
<1> QED
  BY <1>1, <1>2, FreeNow

\* The next step, which deletes nothing that may be left behind, may be left out.
Spared == step.op = "ifunused" /\ step.res \notin Lax /\ Checked(Removal, at + 1)

\* Such a Remove takes every other step.
LEMMA WholeWorks ==
  ASSUME TypeOK, CheckedInv, IdInv, LifeInv, Busy, phase = "rm", clean, Smooth(T, opts, Lax), Whole(mem, at)
  PROVE  Works /\ ~EndsHere /\ \A n \in LeftOut : n = 0 \/ (n = 1 /\ Spared)
<1>1. at \in DOMAIN Removal /\ step = Removal[at] /\ step.op \notin {"make", "ensure", "keep"}
  BY Methods, Types, Places, RemoveStep DEF step, Removal
<1>2. ASSUME NEW r, Finds(T, opts, r, at) PROVE There(r) /\ (r \in T.stored => Known(r))
  <2>1. New(r) \in cloud /\ New(r)[1] = r /\ (r \in T.stored => New(r) \in mem)
    BY <1>2 DEF Whole, New
  <2>2. CASE r \in T.stored
    BY <2>1, <2>2 DEF There, Addressed, Known
  <2>3. CASE r \notin T.stored
    BY <2>1, <2>3 DEF There, Addressed, New, Numbered
  <2> QED
    BY <2>2, <2>3
<1>3. /\ step.op \notin {"mustnot", "given", "unsupported", "perhaps"}
      /\ step.op \in {"must", "endunless", "ifthere"} => Finds(T, opts, step.res, at)
      /\ step.op = "ifknown" => step.res \in T.stored /\ Finds(T, opts, step.res, at)
      /\ step.op = "delete" => step.absent = "ok" \/ Finds(T, opts, step.res, at)
      /\ step.op = "delete" => Free(T, Removal, step.res, at) \/ Checked(Steps, at)
      /\ step.op = "ifunused" =>
           \/ step.res \notin T.shared /\ Finds(T, opts, step.res, at) /\ Free(T, Removal, step.res, at)
           \/ step.res \notin Lax /\ step.skip = 1 /\ Checked(Removal, at + 1)
  BY <1>1, Methods DEF Smooth, Removal
<1>4. CASE step.op = "delete"
  <2>1. ~Refuses(step.res)
    BY <1>3, <1>4, FreeOfUse, NotRefused
  <2>2. Works
    BY <1>2, <1>3, <1>4, <2>1 DEF Works, PassedOver
  <2>3. step.absent = "skip" => There(step.res)
    BY <1>2, <1>3, <1>4
  <2>4. LeftOut = {0}
    BY <1>4, <2>3 DEF LeftOut
  <2> QED
    BY <1>4, <2>2, <2>4 DEF EndsHere
<1>5. CASE step.op = "ifknown"
  <2>1. Known(step.res)
    BY <1>2, <1>3, <1>5
  <2> QED
    BY <1>5, <2>1 DEF Works, LeftOut, EndsHere
<1>6. CASE step.op \in {"must", "endunless", "ifthere"}
  <2>1. There(step.res)
    BY <1>2, <1>3, <1>6
  <2> QED
    BY <1>6, <2>1 DEF Works, LeftOut, EndsHere
<1>7. CASE step.op = "ifunused"
  <2>1. Works /\ ~EndsHere /\ LeftOut \subseteq {0, step.skip}
    BY <1>7 DEF Works, EndsHere, LeftOut
  <2>2. CASE step.res \notin T.shared /\ Finds(T, opts, step.res, at) /\ Free(T, Removal, step.res, at)
    <3>1. There(step.res) /\ ~InUse(step.res) /\ ~Attached(step.res)
      BY <1>2, <2>2, FreeOfUse DEF Attached
    <3>2. LeftOut = {0}
      BY <1>7, <3>1 DEF LeftOut
    <3> QED
      BY <2>1, <3>2
  <2>3. CASE step.res \notin Lax /\ step.skip = 1 /\ Checked(Removal, at + 1)
    BY <1>7, <2>1, <2>3 DEF Spared
  <2> QED
    BY <1>3, <1>7, <2>2, <2>3
<1>8. CASE step.op \notin {"delete", "ifknown", "must", "endunless", "ifthere", "ifunused"}
  BY <1>1, <1>3, <1>8 DEF Works, LeftOut, EndsHere
<1> QED
  BY <1>4, <1>5, <1>6, <1>7, <1>8

\* A step of it keeps Whole.
LEMMA WholeStep ==
  ASSUME TypeOK, IdInv, LifeInv, Busy, phase = "rm", Smooth(T, opts, Lax), Whole(mem, at),
         UNCHANGED <<driver, opts, used, late, creates>>, cloud' = Effect, mem' = Learnt,
         at' = at + 1 \/ (at' = at + 1 + 1 /\ Spared)
  PROVE  Whole(mem, at)' /\ at' <= Len(Removal) + 1
<1>0. /\ at \in Nat \ {0} /\ at \in DOMAIN Removal /\ step = Removal[at] /\ Removal' = Removal /\ T' = T /\ Lax' = Lax
      /\ at <= Len(Removal) /\ Len(Removal) \in Nat
  <2>1. at \in Nat \ {0} /\ at \in DOMAIN Removal /\ step = Removal[at] /\ Len(Removal) \in Nat /\ at <= Len(Removal)
    BY Methods, Types, Places DEF step, Base, Busy
  <2> QED
    BY <2>1 DEF Removal, T, Lax
<1>1. \A r : New(r)' = New(r) /\ New(r)[1] = r
  BY <1>0 DEF New, Numbered
<1>2. \A r : Finds(T, opts, r, at + 1) => New(r) \in cloud' /\ (r \in T.stored => New(r) \in mem')
  <2> SUFFICES ASSUME NEW r, Finds(T, opts, r, at + 1)
               PROVE  New(r) \in cloud' /\ (r \in T.stored => New(r) \in mem')
    OBVIOUS
  <2>1. Finds(T, opts, r, at) /\ (step.op = "delete" => step.res # r)
    BY <1>0, FindsNext
  <2>2. New(r) \in cloud /\ (r \in T.stored => New(r) \in mem)
    BY <2>1 DEF Whole
  <2> QED
    BY <1>1, <2>1, <2>2, LeavesAlone
<1>3. \A x \in Own' : x[1] \in Lax => x = New(x[1]) /\ Finds(T, opts, x[1], at + 1)
  <2> SUFFICES ASSUME NEW x \in Own', x[1] \in Lax PROVE x = New(x[1]) /\ Finds(T, opts, x[1], at + 1)
    OBVIOUS
  <2>1. x \in Own /\ x \in Effect
    BY <1>0, RemoveShrinks DEF Own
  <2>2. x = New(x[1]) /\ Finds(T, opts, x[1], at)
    BY <2>1 DEF Whole
  <2>3. x[1] \in T.stored => x \in mem
    BY <2>2 DEF Whole
  <2>4. step.op = "delete" => step.res # x[1]
    BY <2>1, <2>3, Drops
  <2> QED
    BY <1>0, <2>2, <2>4, FindsNext
<1>4. CASE at' = at + 1
  <2>1. at' <= Len(Removal) + 1
    BY <1>0, <1>4
  <2> QED
    BY <1>0, <1>1, <1>2, <1>3, <1>4, <2>1 DEF Whole
<1>5. CASE at' = at + 1 + 1 /\ Spared
  <2>1. at + 1 \in DOMAIN Removal /\ Removal[at + 1].op = "delete" /\ Removal[at + 1].res \notin Lax
    <3>1. (at + 1) - 1 = at
      BY <1>0
    <3> QED
      BY <1>0, <1>5, <3>1 DEF Spared, Checked
  <2>2. at' <= Len(Removal) + 1
    <3>1. at + 1 <= Len(Removal)
      BY <1>0, <2>1, Methods
    <3> QED
      BY <1>0, <1>5, <3>1
  <2>3. \A r : Finds(T, opts, r, at + 1 + 1) <=>
                 Finds(T, opts, r, at + 1) /\ (Removal[at + 1].op = "delete" => Removal[at + 1].res # r)
    BY <1>0, FindsNext
  <2> QED
    BY <1>0, <1>1, <1>2, <1>3, <1>5, <2>1, <2>2, <2>3 DEF Whole
<1> QED
  BY <1>4, <1>5

\* A Create past a step that it gets past only with an id of u has that id.
HeldInv ==
  phase = "create" =>
    \A u \in T.stored : \A k \in 1..at - 1 :
      /\ Gate(Creation, u, k) /\ Creation[k].op = "make" /\ Creation[k].absent # "unseen"
      /\ ~Does(Creation, {"delete"}, u)
      => Known(u)

\* Every step keeps that.
LEMMA HeldStep == TypeOK /\ HeldInv /\ [Next]_vars => HeldInv'
<1> SUFFICES ASSUME TypeOK, HeldInv, [Next]_vars, phase' = "create" PROVE HeldInv'
  BY DEF HeldInv
<1>0. T' = T /\ Creation' = Creation /\ UNCHANGED <<driver, opts>>
  BY SameDriver
<1>1. CASE Moves /\ Advances
  <2>1. Busy /\ phase = "create" /\ Steps = Creation /\ at \in Nat \ {0} /\ step = Creation[at] /\ at \in DOMAIN Creation
        /\ step.skip \in Nat
    BY <1>1, MoveCases, Types, Methods, Places, StepType DEF Advances, Base, step
  <2>2. at' \in Nat
    BY <1>1, <2>1 DEF Advances
  <2> SUFFICES ASSUME NEW u \in T.stored, NEW k \in 1..at' - 1, Gate(Creation, u, k), Creation[k].op = "make",
                      Creation[k].absent # "unseen", ~Does(Creation, {"delete"}, u)
               PROVE  Known(u)'
    BY <1>0 DEF HeldInv
  <2>3. k \in Nat /\ 1 <= k /\ ~(at' <= k)
    BY <2>2, Earlier
  <2>4. CASE at <= k
    <3>1. at = k /\ mem' = Learnt
      BY <1>1, <2>1, <2>3, <2>4, GatePassed
    <3>2. step.res = u /\ step.op = "make" /\ step.absent # "unseen"
      BY <2>1, <3>1 DEF Gate
    <3>3. New(u) \in mem' /\ New(u)[1] = u
      BY <3>1, <3>2 DEF Learnt, New
    <3> QED
      BY <3>3 DEF Known
  <2>5. CASE ~(at <= k)
    <3>1. k \in 1..at - 1
      BY <2>1, <2>3, <2>5
    <3>2. PICK x \in mem : x[1] = u
      BY <2>1, <3>1 DEF HeldInv, Known
    <3>3. step.op = "delete" => step.res # u
      BY <2>1 DEF Does
    <3>4. x \in mem'
      BY <1>1, <3>2, <3>3, LeavesAlone DEF Advances
    <3> QED
      BY <3>2, <3>4 DEF Known
  <2> QED
    BY <2>4, <2>5
<1>2. CASE (Moves /\ ~Advances) \/ Done
  <2>1. at' = 1
    <3>1. Moves => ~Undoes
      BY DEF Undoes
    <3> QED
      BY <1>2, <3>1, MoveCases DEF Return, Done
  <2> QED
    BY <2>1 DEF HeldInv
<1>3. CASE Vanish \/ Share \/ UNCHANGED vars
  <2>1. UNCHANGED <<mem, phase, at>>
    BY <1>3 DEF Vanish, Share, vars
  <2> QED
    BY <1>0, <2>1 DEF HeldInv, Known
<1>4. CASE Crash \/ StartCreate \/ StartRm
  BY <1>4 DEF Crash, StartCreate, StartRm
<1> QED
  BY <1>1, <1>2, <1>3, <1>4, OtherCases

\* Where nothing has failed, the command that runs has met no failure.
CleanInv == faults = 0 => clean

LEMMA CleanStep == TypeOK /\ CleanInv /\ [Next]_vars => CleanInv'
<1> SUFFICES ASSUME TypeOK, CleanInv, [Next]_vars, faults' = 0 PROVE clean'
  BY DEF CleanInv
<1>1. faults \in Nat
  BY BoundsAssumption DEF TypeOK
<1>2. ASSUME NEW x, Fault(x) PROVE FALSE
  BY <1>1, <1>2 DEF Fault
<1>3. CASE Moves
  BY <1>2, <1>3 DEF Moves, StepWorks, StepFails, RequestFails, AnswerLost, Same, CleanInv
<1>4. CASE Done \/ UNCHANGED vars
  BY <1>4 DEF Done, Same, CleanInv, vars
<1>5. CASE Crash \/ Vanish \/ Share
  BY <1>2, <1>5 DEF Crash, Vanish, Share
<1>6. CASE StartCreate \/ StartRm
  BY <1>6 DEF StartCreate, StartRm
<1> QED
  BY <1>3, <1>4, <1>5, <1>6, OtherCases

\* What can only be found by its id, and that a Create which fails has to delete.
Strict == T.stored \ MayLeak[driver]

\* Create has the ids of what it has made.
CreateKnows ==
  \A x \in Own : x[1] \in Strict => x \in mem /\ \E j \in 1..at - 1 : MadeAt(Creation, x[1], j)

\* Remove has the ids of what it has still to delete, when Create calls it and when rm does.
UndoKnows ==
  \A x \in Own : x[1] \in Strict =>
    /\ x \in mem
    /\ \A g \in DOMAIN Removal : UndoneAt(T, opts, x[1], g) => at <= g
    /\ \A u : \A i \in DOMAIN Removal : HadId(T, opts, x[1], u, i) /\ at <= i => Known(u)
RmKnows ==
  \A x \in Own :
    \/ faults > 0 /\ x[1] \in MayLeak[driver]
    \/ (x[1] \in T.stored => x \in mem) /\ \A g \in DOMAIN Removal : DropsAt(T, opts, x[1], g) => at <= g

\* What is left when there is no record.
Gone == \A x \in Own : faults > 0 /\ x[1] \in Lax /\ x[1] \notin Strict

\* What is left, in a life in which nothing is excused and in one in which nothing has failed.
LeftInv ==
  ~excused =>
    /\ phase = "pre" \/ (phase = "idle" /\ ~saved) => Gone
    /\ phase = "create" => CreateKnows
    /\ phase = "undo" => UndoKnows
    /\ phase = "rm" => RmKnows
    /\ phase = "create" /\ faults = 0 /\ AllOrNothing(T, Creation, Lax) => Built
    /\ phase = "undo" /\ faults = 0 => NoneLax
    /\ phase = "rm" /\ faults = 0 /\ Smooth(T, opts, Lax) => NoneLax \/ (Whole(mem, at) /\ at <= Len(Removal) + 1)
    /\ phase = "idle" /\ saved /\ faults = 0 /\ Smooth(T, opts, Lax) => NoneLax \/ Whole(rec, 1)
    /\ RecordKnows

\* What a step of Create or Remove, or its end, comes to.
Worked ==
  /\ Busy /\ Works /\ ~EndsHere /\ cloud' = Effect /\ mem' = Learnt
  /\ UNCHANGED <<phase, saved, rec, last>>
  /\ at' \in {at + 1, at + 1 + step.skip} /\ \E n \in LeftOut : at' = at + 1 + n
Failed == Busy /\ cloud' = cloud /\ (~Works \/ (faults' > 0 /\ phase # "undo"))
PassedBy ==
  /\ Failed /\ step.fail \in {"ignore", "skip", "retry"} /\ (step.fail = "retry" => at' = at)
  /\ UNCHANGED <<phase, saved, rec, mem, last>>
  /\ at' \in {at, at + 1, at + 1 + step.skip}
CalledRemove == Failed /\ Undoes /\ at' = 1
GaveUp == Failed /\ Return(TRUE) /\ step.fail \in {"return", "remove"} /\ (step.fail = "remove" => phase # "create")
Succeeded ==
  /\ cloud' = cloud /\ Return(FALSE)
  /\ at > Len(Steps) \/ (Busy /\ EndsHere) \/ (Failed /\ step.fail = "succeed")

\* A driver does not go back.
LEMMA Forward ==
  ASSUME TypeOK, Worked \/ PassedBy
  PROVE  at \in Nat \ {0} /\ at' \in Nat /\ at <= at' /\ (Worked => at # at')
<1>1. Busy /\ at \in Nat \ {0}
  BY Types DEF Worked, PassedBy, Failed, Base
<1>2. step.skip \in Nat
  BY <1>1, StepType, Types
<1>3. at' \in {at, at + 1, at + 1 + step.skip} /\ (Worked => at' \in {at + 1, at + 1 + step.skip})
  BY DEF Worked, PassedBy
<1> QED
  BY <1>1, <1>2, <1>3

\* There is nothing else.
LEMMA Outcomes ==
  ASSUME TypeOK, LifeInv, Moves \/ Done, phase # "pre", ~excused'
  PROVE  /\ ~excused /\ faults \in Nat /\ (faults' = 0 => faults = 0) /\ (faults > 0 => faults' > 0)
         /\ faults' \in Nat /\ (faults' > 0 \/ faults' = 0)
         /\ UNCHANGED <<driver, opts, used, late, creates>> /\ [Next]_vars
         /\ Worked \/ PassedBy \/ CalledRemove \/ GaveUp \/ Succeeded
         /\ Worked \/ PassedBy => Moves /\ Advances
<1>0. [Next]_vars /\ UNCHANGED <<driver, opts, used, late, creates>>
  BY MoveCases DEF Next, Moves, Done, Same
<1>1. /\ ~excused /\ faults \in Nat /\ (faults' = 0 => faults = 0) /\ (faults > 0 => faults' > 0)
      /\ faults' \in Nat /\ (faults' > 0 \/ faults' = 0)
  <2>1. faults \in Nat
    BY BoundsAssumption DEF TypeOK
  <2>2. CASE Moves
    <3>1. faults' \in {faults, faults + 1}
      BY <2>2 DEF Moves, StepWorks, StepFails, RequestFails, AnswerLost, Same, Fault
    <3>2. faults' \in Nat
      BY <2>1, <3>1
    <3> QED
      BY <2>2, <3>2, UnexcusedStep
  <2>3. CASE Done
    BY <2>1, <2>3 DEF Done, Same
  <2> QED
    BY <2>2, <2>3
<1>2. StepWorks => Worked \/ Succeeded
  <2>1. EndsHere => Effect = cloud
    BY DEF EndsHere, Effect
  <2> QED
    BY <2>1, WorksHow DEF Worked, Succeeded
<1>3. Moves /\ ~StepWorks => PassedBy \/ CalledRemove \/ GaveUp \/ Succeeded
  <2> SUFFICES ASSUME Moves, ~StepWorks PROVE PassedBy \/ CalledRemove \/ GaveUp \/ Succeeded
    OBVIOUS
  <2>1. Failed /\ Fails
    BY UnexcusedStep DEF Failed
  <2> QED
    BY <2>1, FailsHow DEF Failed, PassedBy, CalledRemove, GaveUp, Succeeded
<1>4. Done => Succeeded
  BY DEF Done, LifeInv, Succeeded
<1>5. Worked \/ PassedBy => Moves /\ Advances
  <2> SUFFICES ASSUME Worked \/ PassedBy PROVE Moves /\ Advances
    OBVIOUS
  <2>1. Advances
    BY Forward DEF Worked, PassedBy, Advances
  <2>2. ~Done
    <3>1. Busy /\ at \in Nat /\ Len(Steps) \in Nat
      BY Types, Places DEF Worked, PassedBy, Failed, Base
    <3>2. ~(at > Len(Steps))
      BY <3>1 DEF Busy
    <3> QED
      BY <3>2 DEF Done
  <2> QED
    BY <2>1, <2>2
<1> QED
  BY <1>0, <1>1, <1>2, <1>3, <1>4, <1>5

\* PreCreateCheck changes nothing.
LEMMA LeftPre ==
  ASSUME TypeOK, LifeInv, NumInv, LeftInv, Moves \/ Done, phase = "pre", ~excused'
  PROVE  LeftInv'
<1>0. [Next]_vars /\ UNCHANGED <<driver, opts, used, late, creates>> /\ T' = T /\ Creation' = Creation /\ Lax' = Lax
      /\ Numbered' = Numbered
  <2>1. [Next]_vars /\ UNCHANGED <<driver, opts, used, late, creates>>
    BY MoveCases DEF Next, Moves, Done, Same
  <2> QED
    BY <2>1, SameDriver
<1>1. cloud' = cloud
  <2>1. CASE Moves
    <3>1. Busy /\ cloud' \in {cloud, Effect}
      BY <2>1, MoveCases
    <3>2. step.op \notin {"make", "ensure", "delete"}
      BY <3>1, StepType, Types
    <3> QED
      BY <3>1, <3>2 DEF Effect
  <2> QED
    BY <2>1 DEF Done
<1>2. Own' = Own
  BY <1>0, <1>1 DEF Own
<1>3. ~excused /\ (faults > 0 => faults' > 0) /\ (faults' = 0 => faults = 0) /\ faults \in Nat
  <2>1. CASE Moves
    BY <2>1, UnexcusedStep
  <2>2. CASE Done
    BY <2>2, BoundsAssumption DEF Done, Same, TypeOK
  <2> QED
    BY <2>1, <2>2
<1>4. Gone /\ ~saved
  BY <1>3 DEF LeftInv, LifeInv
<1>5. Gone'
  BY <1>0, <1>2, <1>3, <1>4 DEF Gone, Strict
<1>6. \/ phase' = "pre"
      \/ phase' = "idle" /\ saved' = saved
      \/ phase' = "create" /\ at' = 1
  <2>1. ASSUME NEW e \in BOOLEAN, Return(e)
        PROVE  (phase' = "idle" /\ saved' = saved) \/ (phase' = "create" /\ at' = 1)
    BY <2>1 DEF Return
  <2>2. CASE Moves
    BY <2>1, <2>2, MoveCases DEF Advances, Undoes
  <2>3. CASE Done
    BY <2>1, <2>3 DEF Done, TypeOK
  <2> QED
    BY <2>2, <2>3
<1>7. CASE phase' = "create" /\ at' = 1
  <2>1. CreateKnows'
    BY <1>5 DEF Gone, CreateKnows
  <2>2. faults' = 0 => Built'
    <3> SUFFICES ASSUME faults' = 0 PROVE Built'
      OBVIOUS
    <3>1. Own' = {}
      BY <1>2, <1>3, <1>4 DEF Gone
    <3>2. \A m, r : ~Standing(m, r, 1) /\ ~Held(m, r, 1)
      BY DEF Standing, Held
    <3>3. \A x \in cloud : x[1] \in Numbered => x[2] # creates
      <4> SUFFICES ASSUME NEW x \in cloud, x[1] \in Numbered PROVE x[2] # creates
        OBVIOUS
      <4>1. x[2] < creates /\ x[2] \in Nat /\ creates \in Nat
        BY Types, BoundsAssumption DEF NumInv, Resources
      <4> QED
        BY <4>1
    <3>4. 1 <= Len(Creation) + 1
      BY Methods
    <3> QED
      BY <1>0, <1>1, <1>7, <3>1, <3>2, <3>3, <3>4 DEF Built
  <2> QED
    BY <1>7, <2>1, <2>2 DEF LeftInv, RecordKnows
<1>8. CASE phase' = "pre" \/ (phase' = "idle" /\ saved' = saved)
  BY <1>4, <1>5, <1>8 DEF LeftInv, RecordKnows
<1> QED
  BY <1>6, <1>7, <1>8

\* What is made and may be left behind is made by a Create that makes all or nothing.
LEMMA LaxBuilt ==
  ASSUME TypeOK, LifeInv, LeftInv, ~excused, phase = "create", faults = 0, ~NoneLax
  PROVE  AllOrNothing(T, Creation, Lax) /\ Built
<1>1. PICK x \in Own : x[1] \in Lax
  BY DEF NoneLax
<1>2. AllOrNothing(T, Creation, Lax)
  BY <1>1, Conditions DEF LifeInv
<1> QED
  BY <1>2 DEF LeftInv

\* A step of Create keeps CreateKnows.
LEMMA CreateKnowsStep ==
  ASSUME TypeOK, LifeInv, CreateKnows, Moves, phase = "create", Worked \/ PassedBy,
         UNCHANGED <<driver, opts, used>>
  PROVE  CreateKnows'
<1>0. [Next]_vars /\ T' = T /\ Creation' = Creation /\ Strict' = Strict
  <2>1. [Next]_vars
    BY DEF Moves, Next
  <2> QED
    BY <2>1, SameDriver DEF Strict
<1>1. 1..at - 1 \subseteq 1..at' - 1 /\ (Worked => at \in 1..at' - 1)
  <2>1. at \in Nat \ {0} /\ at' \in Nat /\ at <= at' /\ (Worked => at # at')
    BY Forward
  <2> QED
    BY <2>1, Wider
<1> SUFFICES ASSUME NEW x \in Own', x[1] \in Strict
             PROVE  x \in mem' /\ \E j \in 1..at' - 1 : MadeAt(Creation, x[1], j)
  BY <1>0 DEF CreateKnows
<1>2. CASE x \in Own
  <2>1. x \in mem /\ \E j \in 1..at - 1 : MadeAt(Creation, x[1], j)
    BY <1>2 DEF CreateKnows
  <2>2. x \in cloud'
    BY DEF Own
  <2>3. x \in mem'
    BY <2>1, <2>2, LeavesAlone DEF Worked, PassedBy
  <2> QED
    BY <1>1, <2>1, <2>3
<1>3. CASE x \notin Own
  <2>1. /\ x = New(step.res) /\ MadeAt(Creation, step.res, at) /\ step.res \notin T.shared /\ at \in DOMAIN Creation
    BY <1>0, <1>3, OwnChange
  <2>2. x[1] = step.res /\ Does(Creation, {"make", "ensure"}, step.res)
    BY <2>1 DEF New, Does, MadeAt
  <2>3. PICK g \in DOMAIN Removal : UndoneAt(T, opts, step.res, g)
    BY <2>1, <2>2, Conditions DEF Strict
  <2>4. Creation[at] = step
    BY Methods DEF step
  <2>5. step.op = "make" /\ step.absent # "unseen"
    BY <2>1, <2>3, <2>4 DEF UndoneAt, MadeAt, Creation
  <2>6. Worked
    <3>1. cloud' # cloud
      BY <1>0, <1>3 DEF Own
    <3> QED
      BY <3>1 DEF PassedBy, Failed
  <2>7. x \in mem'
    BY <2>1, <2>2, <2>5, <2>6 DEF Worked, Learnt, Strict
  <2> QED
    BY <1>1, <2>1, <2>2, <2>6, <2>7
<1> QED
  BY <1>2, <1>3

\* Create keeps LeftInv.
LEMMA LeftCreate ==
  ASSUME TypeOK, Control, IdInv, LifeInv, HeldInv, LeftInv, Moves \/ Done, phase = "create", ~excused'
  PROVE  LeftInv'
<1>0. /\ ~excused /\ faults \in Nat /\ (faults' = 0 => faults = 0) /\ (faults > 0 => faults' > 0)
      /\ faults' \in Nat /\ (faults' > 0 \/ faults' = 0)
      /\ UNCHANGED <<driver, opts, used, late, creates>> /\ [Next]_vars
      /\ Worked \/ PassedBy \/ CalledRemove \/ GaveUp \/ Succeeded
      /\ Worked \/ PassedBy => Moves /\ Advances
  BY Outcomes
<1>1. /\ T' = T /\ Creation' = Creation /\ Removal' = Removal /\ Lax' = Lax /\ Strict' = Strict
      /\ MayLeak[driver]' = MayLeak[driver] /\ CreateKnows /\ saved
      /\ (cloud' = cloud => Own' = Own)
  BY <1>0, SameDriver DEF Strict, LeftInv, Own, Control
<1>2. CASE Worked \/ PassedBy
  <2>1. CreateKnows' /\ phase' = "create"
    BY <1>0, <1>1, <1>2, CreateKnowsStep DEF Worked, PassedBy
  <2>2. ASSUME faults' = 0, AllOrNothing(T, Creation, Lax) PROVE Built'
    <3>1. Busy /\ Built
      BY <1>0, <1>2, <2>2 DEF Worked, PassedBy, Failed, LeftInv
    <3>2. step.skip = 0 /\ at \in Nat
      <4>1. at \in DOMAIN Creation /\ step = Creation[at] /\ at \in Nat
        BY <3>1, Methods, Types, Places DEF step, Base
      <4> QED
        BY <2>2, <4>1 DEF AllOrNothing
    <3>3. at + 1 + step.skip = at + 1
      BY <3>2
    <3>4. \/ Works /\ cloud' = Effect /\ mem' = Learnt /\ at' = at + 1
          \/ ~Works /\ step.fail \notin {"return", "remove"} /\ cloud' = cloud /\ mem' = mem /\ at' \in {at, at + 1}
      <4>1. ~(faults' > 0)
        BY <2>2
      <4> QED
        BY <1>2, <3>3, <4>1 DEF Worked, PassedBy, Failed
    <3> QED
      BY <1>0, <2>2, <3>1, <3>4, BuiltStep
  <2> QED
    BY <1>0, <1>1, <2>1, <2>2 DEF LeftInv, RecordKnows
<1>3. ASSUME Failed, faults' = 0 PROVE NoneLax
  <2>1. Busy /\ ~Works
    BY <1>3 DEF Failed
  <2> QED
    BY <1>0, <1>3, <2>1, LaxBuilt, SureWorks
<1>4. CASE CalledRemove
  <2>1. phase' = "undo" /\ mem' = mem /\ at' = 1 /\ Own' = Own
    BY <1>1, <1>4 DEF CalledRemove, Undoes, Failed
  <2>2. UndoKnows'
    <3>1. \A g \in DOMAIN Removal : 1 <= g
      BY Methods
    <3>2. ASSUME NEW x \in Own, x[1] \in Strict, NEW u, NEW i, HadId(T, opts, x[1], u, i) PROVE Known(u)
      <4>1. PICK j \in 1..at - 1 : MadeAt(Creation, x[1], j)
        BY <1>1, <3>2 DEF CreateKnows
      <4>2. at \in DOMAIN Creation /\ at \in Nat /\ j \in DOMAIN Creation /\ j \in Nat /\ j < at
        <5>1. Busy
          BY <1>4 DEF CalledRemove, Failed
        <5>2. at \in DOMAIN Creation /\ at \in Nat /\ DOMAIN Creation = 1..Len(Creation) /\ Len(Creation) \in Nat
          BY <5>1, Methods, Types, Places DEF Base
        <5> QED
          BY <4>1, <5>2
      <4>3. PICK k \in 1..j - 1 : Gate(Creation, u, k) /\ Creation[k].op = "make" /\ Creation[k].absent # "unseen"
        BY <3>2, <4>1, <4>2 DEF HadId, MadeAt, Creation
      <4>4. k \in 1..at - 1
        BY <4>2, <4>3
      <4>5. u \in T.stored /\ ~Does(Creation, {"delete"}, u)
        BY <3>2 DEF HadId, Creation
      <4> QED
        BY <4>3, <4>4, <4>5 DEF HeldInv
    <3>3. \A u : Known(u)' <=> Known(u)
      BY <2>1 DEF Known
    <3>4. \A x \in Own : x[1] \in Strict => x \in mem
      BY <1>1 DEF CreateKnows
    <3> QED
      BY <1>0, <1>1, <2>1, <3>1, <3>2, <3>3, <3>4 DEF UndoKnows
  <2>3. faults' = 0 => NoneLax'
    BY <1>1, <1>3, <1>4, <2>1 DEF CalledRemove, NoneLax
  <2> QED
    BY <2>1, <2>2, <2>3 DEF LeftInv, RecordKnows
<1>5. CASE GaveUp
  <2>1. phase' = "idle" /\ saved' = saved /\ Own' = Own /\ Busy /\ step.fail = "return"
    BY <1>1, <1>5 DEF GaveUp, Return, Failed
  <2>2. \A x \in Own : x[1] \notin Strict
    <3> SUFFICES ASSUME NEW x \in Own, x[1] \in Strict PROVE FALSE
      OBVIOUS
    <3>1. PICK j \in 1..at - 1 : MadeAt(Creation, x[1], j)
      BY <1>1 DEF CreateKnows
    <3>2. PICK g \in DOMAIN Removal : UndoneAt(T, opts, x[1], g)
      BY Conditions DEF LifeInv, Strict
    <3>3. at \in DOMAIN Creation /\ step = Creation[at] /\ at > j /\ j \in DOMAIN Creation
      <4>1. at \in DOMAIN Creation /\ step = Creation[at] /\ at \in Nat /\ DOMAIN Creation = 1..Len(Creation) /\ Len(Creation) \in Nat
        BY <2>1, Methods, Types, Places DEF step, Base
      <4> QED
        BY <3>1, <4>1
    <3>4. step.fail \in {"remove", "retry", "ignore", "skip"}
      BY <3>1, <3>2, <3>3 DEF UndoneAt, MadeAt, Creation
    <3> QED
      BY <2>1, <3>4
  <2>3. faults' = 0 => NoneLax /\ NoneLax'
    BY <1>1, <1>3, <1>5, <2>1 DEF GaveUp, NoneLax
  <2>4. RecordKnows'
    <3> SUFFICES ASSUME NEW x \in Own, x[1] \in T.stored PROVE faults' > 0 /\ x[1] \in MayLeak[driver]
      BY <1>1, <2>1 DEF RecordKnows
    <3>1. x[1] \in MayLeak[driver]
      BY <2>2 DEF Strict
    <3> QED
      BY <1>0, <2>3, <3>1 DEF NoneLax, Lax
  <2> QED
    BY <1>1, <2>1, <2>3, <2>4 DEF LeftInv
<1>6. CASE Succeeded
  <2>1. phase' = "idle" /\ saved' = saved /\ rec' = mem /\ Own' = Own /\ cloud' = cloud
    BY <1>1, <1>6 DEF Succeeded, Return, SaveIds
  <2>2. ASSUME faults' = 0, ~NoneLax
        PROVE  /\ AllOrNothing(T, Creation, Lax) /\ Built /\ at = Len(Creation) + 1
               /\ \A x \in Own : x[1] \in Lax /\ x[1] \in T.stored => Held(Creation, x[1], at) /\ x \in mem
    <3>1. AllOrNothing(T, Creation, Lax) /\ Built
      BY <1>0, <2>2, LaxBuilt
    <3>2. Busy => step.op # "endunless"
      <4>1. Busy => at \in DOMAIN Creation /\ step = Creation[at]
        BY Methods, Types, Places DEF step
      <4> QED
        BY <3>1, <4>1 DEF AllOrNothing
    <3>3. ~Failed
      BY <1>3, <2>2
    <3>4. at > Len(Creation)
      BY <1>6, <3>2, <3>3, Methods DEF Succeeded, EndsHere
    <3>5. at = Len(Creation) + 1
      BY <3>1, <3>4, Methods, Types DEF Built, Base
    <3>6. ASSUME NEW x \in Own, x[1] \in Lax, x[1] \in T.stored PROVE Held(Creation, x[1], at) /\ x \in mem
      <4>1. x = New(x[1]) /\ Standing(Creation, x[1], at)
        BY <3>1, <3>6 DEF Built
      <4>2. Held(Creation, x[1], at)
        BY <3>1, <3>5, <3>6, <4>1 DEF AllOrNothing
      <4> QED
        BY <3>1, <3>6, <4>1, <4>2 DEF Built
    <3> QED
      BY <3>1, <3>5, <3>6
  <2>3. RecordKnows'
    <3> SUFFICES ASSUME NEW x \in Own, x[1] \in T.stored PROVE x \in mem \/ (faults' > 0 /\ x[1] \in MayLeak[driver])
      BY <1>1, <2>1 DEF RecordKnows
    <3>1. CASE x[1] \in Strict
      BY <1>1, <3>1 DEF CreateKnows
    <3>2. CASE x[1] \in MayLeak[driver]
      BY <1>0, <2>2, <3>2 DEF NoneLax, Lax
    <3> QED
      BY <3>1, <3>2 DEF Strict
  <2>4. faults' = 0 => NoneLax' \/ Whole(rec, 1)'
    <3> SUFFICES ASSUME faults' = 0, ~NoneLax' PROVE Whole(rec, 1)'
      OBVIOUS
    <3>0. ~NoneLax
      BY <1>1, <2>1 DEF NoneLax
    <3>1. /\ Built /\ at = Len(Creation) + 1
          /\ \A x \in Own : x[1] \in Lax /\ x[1] \in T.stored => Held(Creation, x[1], at)
      BY <2>2, <3>0
    <3>2. \A r : New(r)' = New(r)
      BY <1>0, <1>1 DEF New, Numbered
    <3>3. \A r : Finds(T, opts, r, 1) <=> Standing(Creation, r, at) /\ (r \in T.stored => Held(Creation, r, at))
      BY <3>1 DEF Finds, Creation
    <3>4. \A x \in Own : x[1] \in Lax => x = New(x[1]) /\ Finds(T, opts, x[1], 1)
      BY <3>1, <3>3 DEF Built
    <3>5. \A r : Finds(T, opts, r, 1) => New(r) \in cloud /\ (r \in T.stored => New(r) \in mem)
      BY <3>1, <3>3 DEF Built
    <3> QED
      BY <1>0, <1>1, <2>1, <3>2, <3>4, <3>5 DEF Whole
  <2> QED
    BY <1>1, <2>1, <2>3, <2>4 DEF LeftInv
<1> QED
  BY <1>0, <1>2, <1>4, <1>5, <1>6

\* Remove only takes away.
LEMMA OwnShrinks ==
  ASSUME TypeOK, LifeInv, Moves \/ Done, phase \in {"undo", "rm"}, ~excused'
  PROVE  /\ Own' \subseteq Own
         /\ Worked \/ PassedBy => \A x \in Own' : x \in mem => x \in mem'
<1>1. [Next]_vars
  BY Outcomes
<1>2. Own' \subseteq Own
  BY <1>1, OwnChange
<1>3. \A x \in Own' : x \in cloud'
  BY DEF Own
<1> QED
  BY <1>2, <1>3, LeavesAlone DEF Worked, PassedBy

\* When Create calls Remove, no step fails before what has to be undone is deleted.
LEMMA UndoWorks ==
  ASSUME TypeOK, Busy, phase = "undo", NEW x \in Own, x \in mem, x[1] \in T.stored,
         NEW g \in DOMAIN Removal, UndoneAt(T, opts, x[1], g), at <= g,
         \A u : \A i \in DOMAIN Removal : HadId(T, opts, x[1], u, i) /\ at <= i => Known(u)
  PROVE  Works /\ ~EndsHere /\ step.fail # "succeed"
<1>1. at \in 1..g /\ (at # g => at \in 1..g - 1) /\ step = Removal[at] /\ step.op \notin {"make", "ensure", "keep"}
  <2>1. at \in Nat \ {0} /\ g \in Nat
    BY Methods, Types DEF Base
  <2>2. at \in 1..g /\ (at # g => at \in 1..g - 1)
    BY <2>1
  <2> QED
    BY <2>2, RemoveStep DEF Removal
<1>2. step.fail # "succeed" /\ step.op # "endunless"
  BY <1>1 DEF UndoneAt, DropsAt, BasedOn, Removal
<1>3. \A r : Unused(T, r) /\ r \notin T.shared => ~Refuses(r)
  BY NoUse DEF Refuses, Attached
<1>4. CASE at = g
  <2>1. step.op = "delete" /\ step.res = x[1] /\ Unused(T, x[1]) /\ x[1] \notin T.shared
    BY <1>1, <1>4 DEF UndoneAt, DropsAt, Gate, Removal, Own
  <2>2. There(x[1])
    BY DEF There, Addressed, Own
  <2> QED
    BY <1>2, <1>3, <2>1, <2>2 DEF Works, EndsHere
<1>5. CASE at # g
  <2>1. /\ step.op \notin {"must", "mustnot", "given", "unsupported"}
        /\ step.op = "delete" =>
             /\ step.res \notin T.shared /\ Unused(T, step.res)
             /\ step.absent \in {"ok", "skip"} \/ (step.absent = "byid" /\ HadId(T, opts, x[1], step.res, at))
    BY <1>1, <1>5 DEF UndoneAt, Removal
  <2>2. CASE step.op = "delete"
    <3>1. at \in DOMAIN Removal /\ at <= at
      BY Types, Methods, Places DEF Base
    <3>2. PassedOver
      BY <2>1, <2>2, <3>1 DEF PassedOver
    <3> QED
      BY <1>2, <1>3, <2>1, <2>2, <3>2 DEF Works, EndsHere
  <2>3. CASE step.op # "delete"
    BY <1>1, <1>2, <2>1, <2>3 DEF Works, EndsHere
  <2> QED
    BY <2>2, <2>3
<1> QED
  BY <1>4, <1>5

\* Create that calls Remove keeps LeftInv.
LEMMA LeftUndo ==
  ASSUME TypeOK, Control, IdInv, LifeInv, LeftInv, Moves \/ Done, phase = "undo", ~excused'
  PROVE  LeftInv'
<1>0. /\ ~excused /\ faults \in Nat /\ (faults' = 0 => faults = 0) /\ (faults > 0 => faults' > 0)
      /\ faults' \in Nat /\ (faults' > 0 \/ faults' = 0)
      /\ UNCHANGED <<driver, opts, used, late, creates>> /\ [Next]_vars
      /\ Worked \/ PassedBy \/ CalledRemove \/ GaveUp \/ Succeeded
      /\ Worked \/ PassedBy => Moves /\ Advances
  BY Outcomes
<1>1. /\ T' = T /\ Removal' = Removal /\ Lax' = Lax /\ Strict' = Strict /\ opts' = opts
      /\ MayLeak[driver]' = MayLeak[driver] /\ UndoKnows /\ saved /\ Steps = Removal
      /\ Own' \subseteq Own
  BY <1>0, SameDriver, Methods, OwnShrinks DEF Strict, LeftInv, Control
<1>2. faults' = 0 => NoneLax'
  BY <1>0, <1>1 DEF NoneLax, LeftInv
<1>3. CASE Worked \/ PassedBy
  <2>0. phase' = "undo" /\ Moves /\ Advances
    BY <1>0, <1>3 DEF Worked, PassedBy
  <2>1. UndoKnows'
    <3> SUFFICES ASSUME NEW x \in Own', x[1] \in Strict
                 PROVE  /\ x \in mem' /\ \A g \in DOMAIN Removal : UndoneAt(T, opts, x[1], g) => at' <= g
                        /\ \A u : \A i \in DOMAIN Removal : HadId(T, opts, x[1], u, i) /\ at' <= i => Known(u)'
      BY <1>1 DEF UndoKnows
    <3>1. /\ x \in Own /\ x \in mem /\ \A g \in DOMAIN Removal : UndoneAt(T, opts, x[1], g) => at <= g
          /\ \A u : \A i \in DOMAIN Removal : HadId(T, opts, x[1], u, i) /\ at <= i => Known(u)
      BY <1>1 DEF UndoKnows
    <3>2. x \in mem'
      BY <1>3, <3>1, OwnShrinks
    <3>3. ASSUME NEW g \in DOMAIN Removal, UndoneAt(T, opts, x[1], g) PROVE at' <= g
      <4>1. Gate(Steps, x[1], g) /\ Removal[g].op = "delete"
        BY <1>1, <3>3 DEF UndoneAt, DropsAt, Removal
      <4>2. at' <= g \/ (at = g /\ cloud' = Effect)
        BY <2>0, <3>1, <3>3, <4>1, GatePassed
      <4>3. ~(at = g /\ cloud' = Effect)
        <5> SUFFICES ASSUME at = g, cloud' = Effect PROVE FALSE
          OBVIOUS
        <5>1. step.op = "delete" /\ step.res = x[1]
          BY <1>1, <4>1 DEF step, Gate
        <5>2. x \notin Effect
          BY <3>1, <5>1, Drops
        <5> QED
          BY <5>2 DEF Own
      <4> QED
        BY <4>2, <4>3
    <3>4. ASSUME NEW u, NEW i \in DOMAIN Removal, HadId(T, opts, x[1], u, i), at' <= i PROVE Known(u)'
      <4>1. Busy /\ at \in Nat \ {0} /\ at' \in Nat /\ at <= at' /\ (Worked => at # at') /\ i \in Nat
        BY <1>3, Forward, Methods DEF Worked, PassedBy, Failed
      <4>2. at <= i /\ (Worked => at \in 1..i - 1)
        BY <3>4, <4>1
      <4>3. PICK y \in mem : y[1] = u
        BY <3>1, <3>4, <4>2 DEF Known
      <4>4. Worked => (step.op = "delete" => step.res # u)
        BY <1>1, <3>4, <4>2 DEF HadId, Removal, step
      <4>5. y \in mem'
        BY <1>3, <4>3, <4>4, LeavesAlone DEF Worked, PassedBy
      <4> QED
        BY <4>3, <4>5 DEF Known
    <3> QED
      BY <3>2, <3>3, <3>4
  <2> QED
    BY <1>2, <2>0, <2>1 DEF LeftInv, RecordKnows
<1>4. CASE GaveUp \/ Succeeded
  <2>1. phase' = "idle" /\ saved' = saved
    BY <1>4 DEF GaveUp, Succeeded, Return
  <2>2. \A x \in Own : x[1] \notin Strict
    <3> SUFFICES ASSUME NEW x \in Own, x[1] \in Strict PROVE FALSE
      OBVIOUS
    <3>1. PICK g \in DOMAIN Removal : UndoneAt(T, opts, x[1], g)
      BY Conditions DEF LifeInv, Strict
    <3>2. x \in mem /\ at <= g /\ \A u : \A i \in DOMAIN Removal : HadId(T, opts, x[1], u, i) /\ at <= i => Known(u)
      BY <1>1, <3>1 DEF UndoKnows
    <3>3. Busy => Works /\ ~EndsHere /\ step.fail # "succeed"
      BY <3>1, <3>2, UndoWorks DEF Strict
    <3>4. ~(at > Len(Steps))
      BY <1>1, <3>1, <3>2, Methods, Types DEF Base
    <3> QED
      BY <1>4, <3>3, <3>4 DEF GaveUp, Succeeded, Failed
  <2>3. RecordKnows'
    <3> SUFFICES ASSUME NEW x \in Own', x[1] \in T.stored PROVE faults' > 0 /\ x[1] \in MayLeak[driver]
      BY <1>1 DEF RecordKnows
    <3>1. x[1] \in MayLeak[driver]
      BY <1>1, <2>2 DEF Strict
    <3> QED
      BY <1>0, <1>1, <1>2, <3>1 DEF NoneLax, Lax
  <2> QED
    BY <1>1, <1>2, <2>1, <2>3 DEF LeftInv
<1> QED
  BY <1>0, <1>3, <1>4 DEF CalledRemove, Undoes

\* rm that reaches its end has deleted what it deletes.
LEMMA RmEnds ==
  ASSUME TypeOK, IdInv, LifeInv, BasedInv, phase = "rm", Succeeded, NEW x \in Own,
         NEW g \in DOMAIN Removal, DropsAt(T, opts, x[1], g)
  PROVE  at > g
<1> SUFFICES ASSUME ~(at > g) PROVE FALSE
  OBVIOUS
<1>0. at \in Nat \ {0} /\ g \in Nat /\ g <= Len(Removal) /\ Len(Removal) \in Nat /\ Steps = Removal
  BY Methods, Types DEF Base
<1>1. at \in 1..g /\ ~(at > Len(Steps))
  BY <1>0
<1>2. step = Removal[at]
  BY <1>0 DEF step
<1>3. step.fail # "succeed"
  BY <1>1, <1>2 DEF DropsAt, Removal
<1>4. EndsHere
  BY <1>1, <1>3 DEF Succeeded
<1>5. (step.res = x[1] /\ x[1] \notin T.stored) \/ BasedOn(T, opts, x[1], step.res)
  BY <1>1, <1>2, <1>4 DEF DropsAt, Removal, EndsHere
<1>6. x[1] \notin T.stored /\ step.res \notin T.stored
  BY <1>5 DEF BasedOn
<1>7. x = <<x[1], 0>> /\ x \in cloud
  <2>1. x \in cloud /\ x \in STRING \X Nat
    BY Types DEF Own, Resources
  <2>2. x[2] = 0
    BY <1>6, <2>1 DEF IdInv, Numbered
  <2> QED
    BY <2>1, <2>2
<1>8. <<step.res, 0>> \notin cloud
  BY <1>4, <1>6 DEF EndsHere, There, Addressed
<1> QED
  BY <1>5, <1>7, <1>8 DEF BasedInv

\* A step of rm keeps RmKnows.
LEMMA RmKnowsStep ==
  ASSUME TypeOK, IdInv, LifeInv, RmKnows, Moves, Advances, phase = "rm", Worked \/ PassedBy, ~excused'
  PROVE  RmKnows'
<1>0. [Next]_vars /\ (faults > 0 => faults' > 0)
  BY Outcomes
<1>1. /\ T' = T /\ Removal' = Removal /\ opts' = opts /\ MayLeak[driver]' = MayLeak[driver] /\ Steps = Removal
      /\ Own' \subseteq Own
  BY <1>0, SameDriver, Methods, OwnShrinks
<1> SUFFICES ASSUME NEW x \in Own', ~(faults > 0 /\ x[1] \in MayLeak[driver])
             PROVE  /\ x[1] \in T.stored => x \in mem'
                    /\ \A g \in DOMAIN Removal : DropsAt(T, opts, x[1], g) => at' <= g
  BY <1>0, <1>1 DEF RmKnows
<1>2. /\ x \in Own /\ (x[1] \in T.stored => x \in mem)
      /\ \A g \in DOMAIN Removal : DropsAt(T, opts, x[1], g) => at <= g
  BY <1>1 DEF RmKnows
<1>3. x[1] \in T.stored => x \in mem'
  BY <1>2, OwnShrinks
<1>4. ASSUME NEW g \in DOMAIN Removal, DropsAt(T, opts, x[1], g) PROVE at' <= g
  <2>1. at \in Nat \ {0} /\ g \in Nat /\ at <= g /\ g - 1 \in Int
    BY <1>2, <1>4, Methods, Types DEF Base
  <2>2. CASE at = g
    <3>1. step.op = "delete" /\ step.res = x[1] /\ step.fail \in {"return", "remove", "retry"}
      BY <1>1, <1>4, <2>2 DEF step, DropsAt, Removal
    <3>2. x \notin Effect
      BY <1>2, <3>1, Drops
    <3>3. ~Worked
      BY <3>2 DEF Own, Worked
    <3> QED
      BY <2>1, <2>2, <3>1, <3>3 DEF PassedBy
  <2>3. CASE at # g /\ Gate(Steps, x[1], g)
    BY <1>2, <1>4, <2>3, GatePassed
  <2>4. CASE at # g /\ Checked(Removal, g) /\ Gate(Steps, x[1], g - 1) /\ Free(T, Removal, x[1], g - 1)
    <3>1. at <= g - 1
      BY <2>1, <2>4
    <3>2. CASE at' <= g - 1
      <4>1. at' \in Nat
        BY Forward
      <4> QED
        BY <2>1, <3>2, <4>1
    <3>3. CASE at = g - 1
      <4>1. step.op = "ifunused" /\ step.res = x[1] /\ step.fail \in {"return", "remove", "retry"}
        BY <1>1, <2>4, <3>3 DEF Checked, Gate, step
      <4>2. x[1] \notin T.shared /\ ~InUse(x[1])
        BY <2>4, <3>3, <1>2, FreeOfUse DEF Own
      <4>3. There(x[1])
        <5>1. x \in cloud /\ x \in STRING \X Nat
          BY <1>2, Types DEF Own, Resources
        <5>2. CASE x[1] \in T.stored
          BY <1>2, <5>1, <5>2 DEF There, Addressed
        <5>3. CASE x[1] \notin T.stored
          <6>1. x = <<x[1], 0>>
            BY <5>1, <5>3 DEF IdInv, Numbered
          <6> QED
            BY <5>1, <5>3, <6>1 DEF There, Addressed
        <5> QED
          BY <5>2, <5>3
      <4>4. LeftOut = {0}
        BY <4>1, <4>2, <4>3 DEF LeftOut, Attached
      <4>5. Worked => at' = at + 1 + 0
        BY <4>4 DEF Worked
      <4>6. PassedBy => at' = at
        BY <4>1 DEF PassedBy
      <4> QED
        BY <2>1, <3>3, <4>5, <4>6
    <3> QED
      BY <2>4, <3>1, <3>2, <3>3, GatePassed
  <2> QED
    BY <1>1, <1>4, <2>2, <2>3, <2>4 DEF DropsAt, Removal
<1> QED
  BY <1>3, <1>4

\* rm keeps LeftInv.
LEMMA LeftRm ==
  ASSUME TypeOK, Control, CheckedInv, IdInv, RmInv, LifeInv, BasedInv, CleanInv, LeftInv, Moves \/ Done, phase = "rm", ~excused'
  PROVE  LeftInv'
<1>0. /\ ~excused /\ faults \in Nat /\ (faults' = 0 => faults = 0) /\ (faults > 0 => faults' > 0)
      /\ faults' \in Nat /\ (faults' > 0 \/ faults' = 0)
      /\ UNCHANGED <<driver, opts, used, late, creates>> /\ [Next]_vars
      /\ Worked \/ PassedBy \/ CalledRemove \/ GaveUp \/ Succeeded
      /\ Worked \/ PassedBy => Moves /\ Advances
  BY Outcomes
<1>1. /\ T' = T /\ Removal' = Removal /\ Lax' = Lax /\ Strict' = Strict /\ opts' = opts
      /\ MayLeak[driver]' = MayLeak[driver] /\ RmKnows /\ saved /\ Steps = Removal
      /\ Own' \subseteq Own /\ force = FALSE /\ mem \subseteq rec
  BY <1>0, SameDriver, Methods, OwnShrinks DEF Strict, LeftInv, Control, LifeInv, RmInv
<1>2. ASSUME faults' = 0, Smooth(T, opts, Lax), ~NoneLax PROVE Whole(mem, at) /\ at <= Len(Removal) + 1 /\ clean
  BY <1>0, <1>2 DEF LeftInv, CleanInv
<1>3. ASSUME faults' = 0, Smooth(T, opts, Lax), ~NoneLax PROVE ~Failed
  <2>1. Busy => Works
    BY <1>2, <1>3, WholeWorks
  <2> QED
    BY <1>3, <2>1 DEF Failed
<1>4. NoneLax => NoneLax'
  BY <1>1 DEF NoneLax
<1>5. CASE Worked \/ PassedBy
  <2>1. RmKnows' /\ phase' = "rm"
    BY <1>0, <1>1, <1>5, RmKnowsStep DEF Worked, PassedBy
  <2>2. ASSUME faults' = 0, Smooth(T, opts, Lax), ~NoneLax PROVE Whole(mem, at)' /\ at' <= Len(Removal) + 1
    <3>1. Worked /\ Busy
      BY <1>3, <1>5, <2>2 DEF PassedBy, Worked
    <3>2. PICK n \in LeftOut : at' = at + 1 + n
      BY <3>1 DEF Worked
    <3>3. (n = 0 \/ (n = 1 /\ Spared)) /\ at \in Nat
      BY <1>2, <2>2, <3>1, WholeWorks, Types DEF Base
    <3>4. at' = at + 1 \/ (at' = at + 1 + 1 /\ Spared)
      BY <3>2, <3>3
    <3> QED
      BY <1>0, <1>2, <2>2, <3>1, <3>4, WholeStep DEF Worked
  <2> QED
    BY <1>1, <1>4, <2>1, <2>2 DEF LeftInv, RecordKnows
<1>6. CASE GaveUp
  <2>1. phase' = "idle" /\ saved' = saved /\ rec' = rec
    BY <1>1, <1>6 DEF GaveUp, Return, KeepRecord
  <2>2. RecordKnows'
    BY <1>0, <1>1, <2>1 DEF RecordKnows, RmKnows
  <2>3. faults' = 0 /\ Smooth(T, opts, Lax) => NoneLax'
    BY <1>3, <1>4, <1>6 DEF GaveUp
  <2> QED
    BY <1>1, <2>1, <2>2, <2>3 DEF LeftInv
<1>7. CASE Succeeded
  <2>1. phase' = "idle" /\ saved' = FALSE
    BY <1>7 DEF Succeeded, Return, KeepRecord
  <2>2. ASSUME NEW x \in Own PROVE faults' > 0 /\ x[1] \in Lax /\ x[1] \notin Strict
    <3>1. CASE \E g \in DOMAIN Removal : DropsAt(T, opts, x[1], g)
      <4>1. PICK g \in DOMAIN Removal : DropsAt(T, opts, x[1], g)
        BY <3>1
      <4>2. at > g
        BY <1>7, <4>1, RmEnds
      <4>3. ~(at <= g)
        BY <4>2, Methods, Types DEF Base
      <4>4. faults > 0 /\ x[1] \in MayLeak[driver]
        BY <1>1, <4>1, <4>3 DEF RmKnows
      <4> QED
        BY <1>0, <4>4 DEF Lax, Strict
    <3>2. CASE ~\E g \in DOMAIN Removal : DropsAt(T, opts, x[1], g)
      <4>1. /\ x[1] \in T.stored \ MayLeak[driver] => \E g \in DOMAIN Removal : UndoneAt(T, opts, x[1], g)
            /\ x[1] \in Lax /\ Smooth(T, opts, Lax)
            /\ Does(Creation, {"make", "ensure"}, x[1])
        BY <3>2, Conditions DEF LifeInv
      <4>2. x[1] \notin Strict
        BY <3>2, <4>1 DEF UndoneAt, Strict
      <4>3. faults' # 0
        <5> SUFFICES ASSUME faults' = 0 PROVE FALSE
          OBVIOUS
        <5>1. Whole(mem, at) /\ at <= Len(Removal) + 1 /\ ~Failed /\ clean
          BY <1>2, <1>3, <4>1 DEF NoneLax
        <5>2. Busy => ~EndsHere
          BY <4>1, <5>1, WholeWorks
        <5>3. at = Len(Removal) + 1
          <6>1. at > Len(Removal)
            BY <1>1, <1>7, <5>1, <5>2 DEF Succeeded
          <6> QED
            BY <5>1, <6>1, Methods, Types DEF Base
        <5>4. Finds(T, opts, x[1], Len(Removal) + 1)
          BY <4>1, <5>1, <5>3 DEF Whole
        <5>5. PICK k \in DOMAIN Removal : Removal[k].op = "delete" /\ Removal[k].res = x[1]
          BY <4>1 DEF Smooth, Does, Creation, Removal
        <5>6. k \in 1..(Len(Removal) + 1) - 1
          BY Methods
        <5> QED
          BY <5>4, <5>5, <5>6 DEF Finds, Removal
      <4> QED
        BY <1>0, <4>1, <4>2, <4>3
    <3> QED
      BY <3>1, <3>2
  <2>3. Gone'
    BY <1>1, <2>2 DEF Gone
  <2> QED
    BY <2>1, <2>3 DEF LeftInv, RecordKnows
<1> QED
  BY <1>0, <1>5, <1>6, <1>7 DEF CalledRemove, Undoes

\* What happens between the steps of a method keeps LeftInv.
LEMMA LeftOther ==
  ASSUME TypeOK, LifeInv, LeftInv, [Next]_vars, ~Moves, ~Done, ~excused'
  PROVE  LeftInv'
<1>0. /\ UNCHANGED <<driver, opts>> /\ T' = T /\ Creation' = Creation /\ Removal' = Removal /\ Lax' = Lax
      /\ Strict' = Strict /\ Numbered' = Numbered /\ MayLeak[driver]' = MayLeak[driver]
      /\ Own' \subseteq Own /\ faults \in Nat /\ excused \in BOOLEAN
  BY SameDriver, OwnChange, BoundsAssumption DEF Strict, TypeOK
<1>1. CASE Vanish \/ Share
  <2>1. /\ ~excused /\ faults' > 0 /\ faults' # 0
        /\ UNCHANGED <<phase, at, saved, rec, mem>>
    <3>1. faults' = faults + 1 /\ UNCHANGED <<phase, at, saved, rec, mem>> /\ excused' = (excused \/ FALSE)
      BY <1>1 DEF Vanish, Share, Fault
    <3>2. ~excused
      BY <1>0, <3>1, Zenon
    <3> QED
      BY <1>0, <3>1, <3>2
  <2>2. phase = "create" => CreateKnows'
    BY <1>0, <2>1 DEF LeftInv, CreateKnows
  <2>3. phase = "undo" => UndoKnows'
    BY <1>0, <2>1 DEF LeftInv, UndoKnows, Known
  <2>4. phase = "rm" => RmKnows'
    BY <1>0, <2>1 DEF LeftInv, RmKnows
  <2>5. phase = "pre" \/ (phase = "idle" /\ ~saved) => Gone'
    BY <1>0, <2>1 DEF LeftInv, Gone
  <2>6. RecordKnows'
    BY <1>0, <2>1 DEF LeftInv, RecordKnows
  <2> QED
    BY <2>1, <2>2, <2>3, <2>4, <2>5, <2>6 DEF LeftInv
<1>2. CASE Crash
  <2>1. excused' = (excused \/ TRUE)
    BY <1>2 DEF Crash, Fault
  <2> QED
    BY <2>1, Zenon
<1>3. CASE StartCreate
  <2>1. phase = "idle" /\ ~saved /\ phase' = "pre" /\ UNCHANGED <<excused, faults, saved>>
    BY <1>3 DEF StartCreate
  <2>2. Gone'
    BY <1>0, <2>1 DEF LeftInv, Gone
  <2> QED
    BY <2>1, <2>2 DEF LeftInv, RecordKnows
<1>4. CASE StartRm
  <2>1. /\ phase = "idle" /\ saved /\ phase' = "rm" /\ at' = 1 /\ mem' = rec
        /\ UNCHANGED <<faults, cloud, used, creates>>
    BY <1>4 DEF StartRm
  <2>2. ~excused
    <3>1. PICK f \in BOOLEAN : excused' = (excused \/ f)
      BY <1>4 DEF StartRm
    <3> QED
      BY <1>0, <3>1, Zenon
  <2>3. Own' = Own
    BY <1>0, <2>1 DEF Own
  <2>4. RmKnows'
    <3>1. \A g \in DOMAIN Removal : 1 <= g
      BY Methods
    <3> QED
      BY <1>0, <2>1, <2>2, <2>3, <3>1 DEF LeftInv, RecordKnows, RmKnows
  <2>5. faults' = 0 /\ Smooth(T, opts, Lax) => NoneLax' \/ (Whole(mem, at)' /\ at' <= Len(Removal) + 1)
    <3> SUFFICES ASSUME faults' = 0, Smooth(T, opts, Lax), ~NoneLax' PROVE Whole(mem, at)' /\ at' <= Len(Removal) + 1
      OBVIOUS
    <3>1. ~NoneLax
      BY <1>0, <2>3 DEF NoneLax
    <3>2. Whole(rec, 1)
      BY <2>1, <2>2, <3>1 DEF LeftInv
    <3>3. \A r : New(r)' = New(r)
      BY <1>0, <2>1 DEF New
    <3>4. 1 <= Len(Removal) + 1
      BY Methods
    <3> QED
      BY <1>0, <2>1, <2>3, <3>2, <3>3, <3>4 DEF Whole
  <2> QED
    BY <1>0, <2>1, <2>4, <2>5 DEF LeftInv, RecordKnows
<1>5. CASE UNCHANGED vars
  <2>1. /\ UNCHANGED <<driver, opts, cloud, used, saved, rec, phase, at, mem, creates, faults, excused>>
    BY <1>5 DEF vars
  <2>2. Own' = Own /\ \A r : New(r)' = New(r)
    BY <1>0, <2>1 DEF Own, New
  <2>3. (Gone' <=> Gone) /\ (CreateKnows' <=> CreateKnows) /\ (UndoKnows' <=> UndoKnows) /\ (RmKnows' <=> RmKnows)
    BY <1>0, <2>1, <2>2 DEF Gone, CreateKnows, UndoKnows, RmKnows, Known
  <2>4. (Built' <=> Built) /\ (NoneLax' <=> NoneLax) /\ (RecordKnows' <=> RecordKnows)
    BY <1>0, <2>1, <2>2 DEF Built, NoneLax, RecordKnows
  <2>5. (Whole(mem, at)' <=> Whole(mem, at)) /\ (Whole(rec, 1)' <=> Whole(rec, 1))
    BY <1>0, <2>1, <2>2 DEF Whole
  <2> QED
    BY <1>0, <2>1, <2>3, <2>4, <2>5 DEF LeftInv
<1> QED
  BY <1>1, <1>2, <1>3, <1>4, <1>5, OtherCases

\* All that is known of a life.
LifeParts ==
  /\ TypeOK /\ Control /\ CheckedInv /\ ForeignInv /\ IdInv /\ ForgetInv /\ RmInv
  /\ LifeInv /\ BasedInv /\ NumInv /\ HeldInv /\ CleanInv /\ LeftInv

\* Every step keeps it.
LEMMA LeftStep == LifeParts /\ [Next]_vars => LifeParts'
<1> SUFFICES ASSUME LifeParts, [Next]_vars PROVE LifeParts'
  OBVIOUS
<1>1. /\ TypeOK' /\ Control' /\ CheckedInv' /\ ForeignInv' /\ IdInv' /\ ForgetInv' /\ RmInv'
      /\ LifeInv' /\ BasedInv' /\ NumInv' /\ HeldInv' /\ CleanInv'
  BY TypeStep, CheckedStep, ForeignStep, IdStep, ForgetStep, RmStep, LifeStep, BasedStep, NumStep, HeldStep, CleanStep
     DEF LifeParts
<1>2. LeftInv'
  <2>1. CASE excused'
    BY <2>1 DEF LeftInv
  <2>2. CASE ~excused' /\ (Moves \/ Done)
    <3>1. phase \in {"pre", "create", "undo", "rm"}
      BY <2>2, MoveCases DEF LifeParts, TypeOK, Phases, Busy, Done
    <3> QED
      BY <2>2, <3>1, LeftPre, LeftCreate, LeftUndo, LeftRm DEF LifeParts
  <2>3. CASE ~excused' /\ ~Moves /\ ~Done
    BY <2>3, LeftOther DEF LifeParts
  <2> QED
    BY <2>1, <2>2, <2>3
<1> QED
  BY <1>1, <1>2 DEF LifeParts

\* It holds at first.
LEMMA InitLeft == Init => LifeParts
<1> SUFFICES ASSUME Init PROVE LifeParts
  OBVIOUS
<1>1. TypeOK /\ Control /\ ForeignInv /\ IdInv /\ LifeInv /\ BasedInv /\ NumInv
  BY InitType, InitForeign, InitIds, InitLife, InitBased, InitNum
<1>2. RmInv /\ CheckedInv /\ ForgetInv /\ HeldInv /\ CleanInv
  BY InitChecked DEF Init, RmInv, RmConverges, ForgetInv, HeldInv, CleanInv
<1>3. Own = {} /\ phase = "idle" /\ saved = FALSE
  BY DEF Init, Own
<1>4. LeftInv
  BY <1>3 DEF LeftInv, Gone, RecordKnows
<1> QED
  BY <1>1, <1>2, <1>4 DEF LifeParts

\* RecordKnows (libmachine.go:150): for every driver whose Create and Remove satisfy
\* LeakAssumption, whatever failed before, the record of a machine has the id of everything
\* that can only be found by its id, unless MayLeak lists it and something has failed.
THEOREM RecordComplete == Spec => []RecordKnows
<1>1. LifeParts => RecordKnows
  <2> SUFFICES ASSUME LifeParts PROVE RecordKnows
    OBVIOUS
  <2>1. excused \in BOOLEAN /\ (~excused => RecordKnows)
    BY DEF LifeParts, LeftInv, TypeOK
  <2> QED
    BY <2>1 DEF RecordKnows
<1> QED
  BY <1>1, InitLeft, LeftStep, PTL DEF Spec

\* RemovedIsGone (rm.go:37): under the same assumption, once the record is deleted nothing of
\* the machine is left on the platform, unless MayLeak or MayStay lists it and something has
\* failed.
THEOREM RemovalComplete == Spec => []RemovedIsGone
<1>1. LifeParts => RemovedIsGone
  <2> SUFFICES ASSUME LifeParts, phase = "idle", ~saved, ~excused PROVE RemovedIsGone
    BY DEF RemovedIsGone
  <2>1. Gone
    BY DEF LifeParts, LeftInv
  <2> QED
    BY <2>1 DEF Gone, RemovedIsGone, Lax
<1> QED
  BY <1>1, InitLeft, LeftStep, PTL DEF Spec
================================================================================
