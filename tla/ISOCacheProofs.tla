----------------------------- MODULE ISOCacheProofs -----------------------------
(***************************************************************************)
(* Proofs about ISOCache, for any set of processes and any bounds.          *)
(***************************************************************************)
EXTENDS ISOCache, TLAPS

USE DEF Torn, Absent

\* The steps at which a process has a temporary file.
Having == {"remove", "removing", "rename"}

\* A running process has no result yet and began with some release.
Under(p) == pc[p] # "idle" => result[p] = "running" /\ seen[p] >= 1

\* A temporary file outside these steps was left by a crash.
TempInv(p) == pc[p] \notin Having /\ temp[p] # Absent => hit[p]

\* What is fetched, copied or left in the machine's directory is a whole image.
WholeInv(p) ==
  ~poisoned =>
    /\ pc[p] \in Having => temp[p] > Torn
    /\ pc[p] = "copying" => open[p] > Torn
    /\ result[p] = "ok" => iso[p] > Torn

\* What holds as long as nothing disturbs the process.
QuietInv(p) ==
  ~crossed[p] /\ ~hit[p] =>
    /\ result[p] # "failed"
    /\ pc[p] = "mkdir" => ~dir
    /\ pc[p] \in {"exists", "version", "fetch"} => dir
    /\ result[p] = "ok" => iso[p] >= seen[p]
    /\ pc[p] \in Having => temp[p] >= seen[p]
    /\ pc[p] = "removing" => Target(p) # Absent
    /\ pc[p] \in {"copy", "copying"} => cache >= seen[p]
    /\ pc[p] = "copying" => open[p] >= seen[p]
    /\ pc[p] \in Having \cup {"fetch"} /\ dest[p] = "cache" /\ seen[p] = latest => cache # latest

PInv(p) == Under(p) /\ TempInv(p) /\ WholeInv(p) /\ QuietInv(p)

\* Two that run at the same time are both marked.
Marked == \A p, q \in Running : p # q => crossed[p]

IInv ==
  /\ \A p \in Procs : PInv(p)
  /\ Marked
  /\ ~poisoned => cache # Torn

--------------------------------------------------------------------------------

\* The types are kept by every step.
LEMMA TypeStep == TypeOK /\ [Next]_vars => TypeOK'
<1> SUFFICES ASSUME TypeOK, [Next]_vars PROVE TypeOK'
  OBVIOUS
<1> USE BoundsAssumption DEF TypeOK, Images
<1>1. ASSUME NEW p \in Procs, Step(p) PROVE TypeOK'
  <2>1. CASE StatDir(p)
    BY <2>1 DEF StatDir, Go, Books, Well
  <2>2. CASE MakeDir(p)
    <3>1. dir' \in BOOLEAN
      BY <2>2, Zenon DEF MakeDir
    <3> QED
      BY <2>2, <3>1 DEF MakeDir, Go, Return, Books, Well
  <2>3. CASE Exists(p) \/ Version(p) \/ Fetch(p) \/ StatTarget(p) \/ Remove(p) \/ Rename(p) \/ Copy(p) \/ Copied(p)
    BY <2>3 DEF Exists, Version, Fetch, StatTarget, Remove, Rename, Copy, Copied,
       Go, Return, Books, Well, Target, SetTarget
  <2> QED
    BY <1>1, <2>1, <2>2, <2>3 DEF Step
<1>2. ASSUME NEW p \in Procs, Begin(p) PROVE TypeOK'
  <2>1. crossed' \in [Procs -> BOOLEAN]
    BY <1>2, Zenon DEF Begin
  <2>2. hit' \in [Procs -> BOOLEAN]
    BY <1>2, Zenon DEF Begin
  <2>3. url' \in [Procs -> BOOLEAN]
    BY <1>2 DEF Begin
  <2>4. /\ latest' = latest /\ dir' = dir /\ cache' = cache /\ dest' = dest /\ open' = open /\ iso' = iso
        /\ poisoned' = poisoned /\ faults' = faults /\ runs' = runs + 1 /\ runs < MaxRuns
        /\ pc' = [pc EXCEPT ![p] = "dir"] /\ result' = [result EXCEPT ![p] = "running"]
        /\ seen' = [seen EXCEPT ![p] = latest] /\ temp' = [temp EXCEPT ![p] = -1]
    BY <1>2 DEF Begin
  <2>5. QED
    BY <2>1, <2>2, <2>3, <2>4
<1>3. ASSUME NEW p \in Procs, CallFails(p) \/ FetchPage(p) \/ Crash(p) PROVE TypeOK'
  <2>1. hit' \in [Procs -> BOOLEAN]
    BY <1>3, Zenon DEF CallFails, FetchPage, Crash, Fault
  <2>2. /\ latest' = latest /\ dir' = dir /\ cache' = cache /\ dest' = dest /\ open' = open /\ iso' = iso /\ url' = url
        /\ seen' = seen /\ crossed' = crossed /\ runs' = runs /\ faults' = faults + 1 /\ faults < MaxFaults
    BY <1>3, Zenon DEF CallFails, FetchPage, Crash, Fault, Books
  <2>3. temp' = temp \/ \E i \in {-1, 0} : temp' = [temp EXCEPT ![p] = i]
    BY <1>3 DEF CallFails, FetchPage, Crash
  <2>4. \E s \in {"idle", "exists", "version", "copy", "fetch", "rename", "remove"} : pc' = [pc EXCEPT ![p] = s]
    BY <1>3 DEF CallFails, FetchPage, Crash, Go, Return
  <2>5. result' = result \/ result' = [result EXCEPT ![p] = "failed"]
    BY <1>3 DEF CallFails, FetchPage, Crash, Go, Return
  <2>6. poisoned' \in BOOLEAN
    BY <1>3, Zenon DEF CallFails, FetchPage, Crash
  <2>7. QED
    BY <2>1, <2>2, <2>3, <2>4, <2>5, <2>6
<1>4. CASE Release
  BY <1>4 DEF Release
<1>5. CASE UNCHANGED vars
  BY <1>5 DEF vars
<1> QED
  BY <1>1, <1>2, <1>3, <1>4, <1>5 DEF Next

\* TypeOK holds: the types of all variables, and no bound is passed.
THEOREM TypeCorrect == Spec => []TypeOK
<1>1. ASSUME Init PROVE TypeOK
  <2>1. /\ url \in [Procs -> BOOLEAN] /\ crossed \in [Procs -> BOOLEAN] /\ hit \in [Procs -> BOOLEAN]
        /\ poisoned \in BOOLEAN /\ dir \in BOOLEAN
    BY <1>1, Zenon DEF Init
  <2>2. QED
    BY <1>1, <2>1, BoundsAssumption DEF Init, TypeOK, Images
<1> QED
  BY <1>1, TypeStep, PTL DEF Spec

--------------------------------------------------------------------------------

\* A step of p that is not a begin leaves the others as they are.
LEMMA Others ==
  ASSUME TypeOK, IInv, NEW p \in Procs, NEW q \in Procs, q # p, pc[p] # "idle",
         pc'[q] = pc[q], result'[q] = result[q], seen'[q] = seen[q], temp'[q] = temp[q],
         hit'[q] = hit[q], open'[q] = open[q], iso'[q] = iso[q], crossed'[q] = crossed[q],
         poisoned => poisoned'
  PROVE  PInv(q)'
<1>1. PInv(q)
  BY DEF IInv
<1>2. pc[q] # "idle" => crossed[q]
  BY DEF IInv, Marked, Running
<1>3. Under(q)' /\ TempInv(q)' /\ WholeInv(q)'
  BY <1>1 DEF PInv, Under, TempInv, WholeInv
<1>4. QuietInv(q)'
  BY <1>1, <1>2 DEF PInv, QuietInv, Having
<1> QED
  BY <1>3, <1>4 DEF PInv

\* What such a step leaves alone for every process but p, and keeps for all.
Local(p) ==
  /\ pc[p] # "idle"
  /\ latest' = latest /\ seen' = seen /\ crossed' = crossed
  /\ poisoned => poisoned'
  /\ \A q \in Procs \ {p} :
       /\ pc'[q] = pc[q] /\ result'[q] = result[q] /\ temp'[q] = temp[q]
       /\ hit'[q] = hit[q] /\ open'[q] = open[q] /\ iso'[q] = iso[q]

\* The steps of a process are local.
LEMMA StepLocal ==
  ASSUME TypeOK, NEW p \in Procs, Step(p) \/ CallFails(p) \/ FetchPage(p) \/ Crash(p)
  PROVE  Local(p)
<1> USE DEF TypeOK, Local, Go, Return, Books, Well
<1>1. CASE StatDir(p) \/ MakeDir(p) \/ Exists(p) \/ Version(p) \/ Fetch(p) \/ StatTarget(p)
  BY <1>1 DEF StatDir, MakeDir, Exists, Version, Fetch, StatTarget
<1>2. CASE Remove(p) \/ Rename(p)
  BY <1>2 DEF Remove, Rename, SetTarget
<1>3. CASE Copy(p) \/ Copied(p)
  BY <1>3 DEF Copy, Copied
<1>4. CASE CallFails(p) \/ FetchPage(p) \/ Crash(p)
  BY <1>4 DEF CallFails, FetchPage, Crash, Fault
<1> QED
  BY <1>1, <1>2, <1>3, <1>4 DEF Step

\* A local step that keeps PInv(p) and the cache whole keeps the invariant.
LEMMA LocalStep ==
  ASSUME TypeOK, IInv, NEW p \in Procs, Local(p), PInv(p)', (~poisoned => cache # Torn)'
  PROVE  IInv'
<1>1. ASSUME NEW q \in Procs PROVE PInv(q)'
  BY Others DEF Local
<1>2. Marked'
  BY DEF Local, IInv, Marked, Running
<1> QED
  BY <1>1, <1>2 DEF IInv

\* The invariant is inductive.
LEMMA InvStep == TypeOK /\ TypeOK' /\ IInv /\ [Next]_vars => IInv'
<1> SUFFICES ASSUME TypeOK, TypeOK', IInv, [Next]_vars PROVE IInv'
  OBVIOUS
<1>1. ASSUME NEW p \in Procs, Step(p) \/ CallFails(p) \/ FetchPage(p) \/ Crash(p) PROVE IInv'
  <2> SUFFICES PInv(p)' /\ (~poisoned => cache # Torn)'
    BY <1>1, StepLocal, LocalStep
  <2>0. PInv(p) /\ (~poisoned => cache # Torn)
    BY DEF IInv
  <2> USE <2>0 DEF TypeOK, Images, PInv, Under, TempInv, WholeInv, QuietInv, Having, Target, SetTarget,
          Go, Return, Books, Well
  <2>12. CASE StatDir(p)
    BY <2>12 DEF StatDir
  <2>13. CASE MakeDir(p)
    BY <2>13 DEF MakeDir
  <2>1. CASE Exists(p)
    BY <2>1 DEF Exists
  <2>2. CASE Version(p)
    BY <2>2 DEF Version
  <2>3. CASE Fetch(p)
    BY <2>3 DEF Fetch
  <2>4. CASE StatTarget(p)
    BY <2>4 DEF StatTarget
  <2>5. CASE Remove(p)
    BY <2>5 DEF Remove
  <2>6. CASE Rename(p)
    BY <2>6 DEF Rename
  <2>7. CASE Copy(p)
    BY <2>7 DEF Copy
  <2>8. CASE Copied(p)
    BY <2>8 DEF Copied
  <2>9. CASE CallFails(p)
    BY <2>9 DEF CallFails, Fault
  <2>10. CASE FetchPage(p)
    BY <2>10 DEF FetchPage, Fault
  <2>11. CASE Crash(p)
    BY <2>11 DEF Crash, Fault
  <2> QED
    BY <1>1, <2>1, <2>2, <2>3, <2>4, <2>5, <2>6, <2>7, <2>8, <2>9, <2>10, <2>11, <2>12, <2>13
       DEF Step
<1>2. ASSUME NEW p \in Procs, Begin(p) PROVE IInv'
  <2>1. ASSUME NEW q \in Procs PROVE PInv(q)'
    <3>1. CASE q = p
      BY <1>2, <3>1 DEF Begin, TypeOK, PInv, Under, TempInv, WholeInv, QuietInv, Having
    <3>2. CASE q # p
      <4>1. crossed'[q] = (crossed[q] \/ q \in Running)
        BY <1>2, <3>2, Zenon DEF Begin
      <4>2. QED
        BY <1>2, <3>2, <4>1 DEF Begin, TypeOK, IInv, PInv, Under, TempInv, WholeInv, QuietInv, Having, Running
    <3> QED
      BY <3>1, <3>2
  <2>2. Marked'
    <3>1. SUFFICES ASSUME NEW q \in Running', NEW r \in Running', q # r PROVE crossed'[q]
      BY DEF Marked
    <3>2. q \in Procs /\ r \in Procs
      BY DEF Running
    <3>3. \A s \in Procs \ {p} : s \in Running' => s \in Running
      BY <1>2 DEF Begin, Running, TypeOK
    <3>4. crossed' = [s \in Procs |-> IF s = p THEN Running # {} ELSE crossed[s] \/ s \in Running]
      BY <1>2, Zenon DEF Begin
    <3> QED
      BY <3>1, <3>2, <3>3, <3>4, Zenon
  <2>3. (~poisoned => cache # Torn)'
    BY <1>2 DEF Begin, IInv
  <2> QED
    BY <2>1, <2>2, <2>3 DEF IInv
<1>3. CASE Release
  BY <1>3 DEF Release, TypeOK, Images, IInv, PInv, Under, TempInv, WholeInv, QuietInv, Having, Target, Marked, Running
<1>4. CASE UNCHANGED vars
  BY <1>4 DEF vars, IInv, PInv, Under, TempInv, WholeInv, QuietInv, Having, Target, Marked, Running
<1> QED
  BY <1>1, <1>2, <1>3, <1>4 DEF Next

\* The invariant always holds.
LEMMA Invariant == Spec => []IInv
<1>1. Init => IInv
  BY DEF Init, IInv, PInv, Under, TempInv, WholeInv, QuietInv, Having, Marked, Running
<1> QED
  BY <1>1, TypeCorrect, InvStep, PTL DEF Spec

\* WholeImage (b2d.go:222): with any number of processes at once, dying anywhere, no
\* partial download is in the cache or in the directory of a machine that succeeded.
THEOREM NoPartialDownload == Spec => []WholeImage
<1>1. IInv => WholeImage
  BY DEF IInv, PInv, WholeInv, WholeImage
<1> QED
  BY <1>1, Invariant, PTL

\* CacheHeals (b2d.go:431): an undisturbed run succeeds with an image that is at least as
\* new as the newest release at its begin, whatever happened to the cache before.
THEOREM Heals == Spec => []CacheHeals
<1>1. IInv => CacheHeals
  BY DEF IInv, PInv, QuietInv, CacheHeals
<1> QED
  BY <1>1, Invariant, PTL

\* NoTempLeft (b2d.go:229): temporary files go with every return.
THEOREM TempRemoved == Spec => []NoTempLeft
<1>1. IInv => NoTempLeft
  BY DEF IInv, PInv, TempInv, NoTempLeft, Having
<1> QED
  BY <1>1, Invariant, PTL

\* LatestKept (b2d.go:431): an image of the newest release is replaced only by a run that
\* was disturbed or began before the release.
THEOREM NoNeedlessFetch == Spec => LatestKept
<1>1. TypeOK /\ TypeOK' /\ IInv /\ [Next]_vars
        => [cache = latest /\ cache' # cache => \E p \in Running : crossed[p] \/ hit[p] \/ seen[p] < latest]_vars
  <2> SUFFICES ASSUME TypeOK, IInv, Next, cache = latest, cache' # cache
               PROVE  \E p \in Running : crossed[p] \/ hit[p] \/ seen[p] < latest
    BY DEF vars
  <2>1. PICK p \in Procs : Remove(p) \/ Rename(p)
    BY DEF Next, Step, StatDir, MakeDir, Exists, Version, Fetch, StatTarget, Copy, Copied, Begin, CallFails, FetchPage, Crash,
           Fault, Release
  <2>2. p \in Running /\ pc[p] \in Having /\ dest[p] = "cache"
    BY <2>1 DEF Remove, Rename, SetTarget, Running, Having, TypeOK
  <2>3. QuietInv(p)
    BY DEF IInv, PInv
  <2>4. seen[p] \in Nat /\ seen[p] <= latest /\ latest \in Nat
    BY DEF TypeOK
  <2> QED
    BY <2>2, <2>3, <2>4 DEF QuietInv
<1> QED
  BY <1>1, TypeCorrect, Invariant, PTL DEF Spec, LatestKept
=================================================================================
