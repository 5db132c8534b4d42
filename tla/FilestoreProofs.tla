---------------------------- MODULE FilestoreProofs ----------------------------
(***************************************************************************)
(* Theorems about Filestore: for any set of processes and configs.         *)
(***************************************************************************)
EXTENDS Filestore, TLAPS

Writing == {"mkdir", "stat", "open", "write", "tempfile", "writetmp", "unlink", "rename"}

\* What a process writes is a complete config, and its temporary file exists
\* only between its creation and its rename.
WriterInv ==
  /\ \A p \in Procs : pc[p] \in Writing => data[p] \in Configs
  /\ \A p \in Procs : pc[p] \notin {"writetmp", "unlink", "rename"} => tmp[p] = "absent"

TempInv == TypeOK /\ WriterInv

\* Every variable starts in its type.
LEMMA InitTypeOK == Init => TempInv
<1> SUFFICES ASSUME Init PROVE TempInv
  OBVIOUS
<1> USE StoreAssumption DEF Init
<1>1. PICK c \in setting.found : files = [f \in Files |-> IF f = "config" THEN c ELSE "absent"]
  BY Zenon
<1>2. c \in {"absent"} \union Configs /\ files["config"] = c
  BY <1>1, SMT DEF Files, SettingType
<1>3. files \in [Files -> Content]
  BY <1>1, <1>2, SMT DEF Files, Content
<1>4. dir \in BOOLEAN /\ stored \in BOOLEAN /\ setting \in Settings
  BY Zenon
<1>5. debris \in SUBSET (Content \ {"absent"})
  BY SMT
<1>6. /\ pc \in [Procs -> {"idle", "ready", "mkdir", "stat", "open", "write", "tempfile", "writetmp",
                      "unlink", "rename", "removing"}]
      /\ target \in [Procs -> Files]
      /\ data \in [Procs -> {"absent"} \union Configs]
      /\ tmp \in [Procs -> Content]
  BY SMT DEF Files, Content
<1>7. linked \in [Procs -> BOOLEAN]
  BY Zenon
<1>8. orig \in {"absent"} \union Legacy /\ acked \in {"absent"} \union Configs
  BY <1>2, SMT
<1>9. WriterInv
  BY SMT DEF WriterInv, Writing
<1>10. QED
  BY <1>3, <1>4, <1>5, <1>6, <1>7, <1>8, <1>9, Zenon DEF TempInv, TypeOK

\* Unlinking or replacing a file keeps the type of linked.
LEMMA DetachType ==
  ASSUME NEW f, Detach(f) PROVE linked' \in [Procs -> BOOLEAN]
<1>1. \A q \in Procs : (linked[q] /\ target[q] # f) \in BOOLEAN
  BY Zenon
<1>2. QED
  BY <1>1, Zenon DEF Detach

\* A temporary file left behind adds its content and nothing else.
LEMMA DebrisType ==
  ASSUME NEW S, NEW D \in SUBSET (S \ {"absent"}), NEW c \in S
  PROVE  D \union ({c} \ {"absent"}) \in SUBSET (S \ {"absent"})
  OBVIOUS

\* Every step keeps the types and the writer's data, concurrent or not.
LEMMA TempStep == TempInv /\ [Next]_vars => TempInv'
<1> SUFFICES ASSUME TempInv, [Next]_vars PROVE TempInv'
  OBVIOUS
<1> USE StoreAssumption DEF TempInv, TypeOK, WriterInv, Writing, Configs, Content, Files, Unreadable, disk, work, history
<1>. setting' \in Settings
  BY DEF Next, vars
<1>1. ASSUME NEW p \in Procs, Step(p) PROVE TempInv'
  <2>1. CASE StartCreate(p)
    BY <2>1 DEF StartCreate, MayStart
  <2>2. CASE LoadCurrent(p)
    BY <2>2 DEF LoadCurrent, MayStart
  <2>3. CASE LoadLegacy(p)
    BY <2>3 DEF LoadLegacy, MayStart
  <2>4. CASE StartSave(p)
    BY <2>4 DEF StartSave
  <2>5. CASE EndCommand(p)
    BY <2>5 DEF EndCommand
  <2>6. CASE Mkdir(p)
    BY <2>6 DEF Mkdir
  <2>7. CASE Stat(p)
    BY <2>7 DEF Stat
  <2>8. CASE OpenDirect(p)
    <3>1. CASE dir
      <4>1. linked' \in [Procs -> BOOLEAN]
        BY <2>8, <3>1 DEF OpenDirect
      <4>2. files' \in [Files -> Content]
        BY <2>8, <3>1 DEF OpenDirect
      <4>3. QED
        BY <2>8, <3>1, <4>1, <4>2 DEF OpenDirect
    <3>2. CASE ~dir
      BY <2>8, <3>2 DEF OpenDirect, SaveFails
    <3>3. QED
      BY <3>1, <3>2
  <2>9. CASE WriteDirect(p)
    <3>1. data[p] \in Configs /\ target[p] \in Files
      BY <2>9 DEF WriteDirect
    <3>2. files' \in [Files -> Content]
      BY <2>9, <3>1 DEF WriteDirect
    <3>3. linked' \in [Procs -> BOOLEAN]
      BY <2>9 DEF WriteDirect
    <3>4. CASE target[p] = "bak"
      BY <2>9, <3>1, <3>2, <3>3, <3>4 DEF WriteDirect, SaveReturns
    <3>5. CASE target[p] # "bak"
      BY <2>9, <3>1, <3>2, <3>3, <3>5 DEF WriteDirect, SaveReturns
    <3>6. QED
      BY <3>4, <3>5
  <2>10. CASE WriteDirectFails(p)
    BY <2>10 DEF WriteDirectFails, SaveFails
  <2>11. CASE TempFile(p)
    BY <2>11 DEF TempFile, SaveFails
  <2>12. CASE WriteTemp(p)
    BY <2>12 DEF WriteTemp
  <2>13. CASE WriteTempFails(p)
    BY <2>13 DEF WriteTempFails, SaveFails
  <2>14. CASE Unlink(p)
    <3>1. files' \in [Files -> Content]
      BY <2>14 DEF Unlink
    <3>2. linked' \in [Procs -> BOOLEAN]
      BY <2>14, DetachType DEF Unlink
    <3>3. CASE files[target[p]] # "absent"
      <4>1. pc' = [pc EXCEPT ![p] = "rename"] /\ UNCHANGED <<target, data, tmp, stored, acked, dir, debris, orig>>
        BY <2>14, <3>3 DEF Unlink
      <4>2. pc[p] = "unlink"
        BY <2>14 DEF Unlink
      <4>3. QED
        BY <3>1, <3>2, <4>1, <4>2
    <3>4. CASE files[target[p]] = "absent"
      BY <2>14, <3>1, <3>2, <3>4 DEF Unlink, SaveFails
    <3>5. QED
      BY <3>3, <3>4
  <2>15. CASE Rename(p)
    <3>1. files' \in [Files -> Content]
      BY <2>15 DEF Rename
    <3>2. linked' \in [Procs -> BOOLEAN]
      BY <2>15, DetachType DEF Rename
    <3>3. /\ pc[p] = "rename" /\ tmp' = [tmp EXCEPT ![p] = "absent"]
          /\ SaveReturns(p) /\ UNCHANGED <<dir, debris, orig>>
      BY <2>15 DEF Rename
    <3>4. CASE target[p] = "bak"
      BY <3>1, <3>2, <3>3, <3>4 DEF SaveReturns
    <3>5. CASE target[p] # "bak"
      BY <3>1, <3>2, <3>3, <3>5 DEF SaveReturns
    <3>6. QED
      BY <3>4, <3>5
  <2>16. CASE RenameFails(p)
    BY <2>16 DEF RenameFails, SaveFails
  <2>17. CASE StartRemove(p)
    BY <2>17 DEF StartRemove, MayStart
  <2>18. CASE RemoveFile(p)
    BY <2>18 DEF RemoveFile, Detach
  <2>19. CASE RemoveTemp(p)
    BY <2>19 DEF RemoveTemp
  <2>20. CASE Rmdir(p)
    BY <2>20 DEF Rmdir
  <2>21. CASE Crash(p)
    <3> HIDE DEF Content
    <3>1. debris' \in SUBSET (Content \ {"absent"})
      BY <2>21, DebrisType DEF Crash
    <3>2. "absent" \in Content
      BY DEF Content
    <3>3. linked' \in [Procs -> BOOLEAN]
      BY <2>21 DEF Crash
    <3>4. QED
      BY <2>21, <3>1, <3>2, <3>3 DEF Crash
  <2>22. QED
    BY <1>1, <2>1, <2>2, <2>3, <2>4, <2>5, <2>6, <2>7, <2>8, <2>9, <2>10, <2>11, <2>12, <2>13, <2>14, <2>15, <2>16, <2>17, <2>18, <2>19, <2>20, <2>21 DEF Step
<1>2. CASE UNCHANGED vars
  BY <1>2 DEF vars
<1>3. QED
  BY <1>1, <1>2 DEF Next

\* Every variable keeps its type, with any number of processes at work at once.
THEOREM TypeCorrect == Spec => []TypeOK
<1>1. TempInv => TypeOK
  BY DEF TempInv
<1>2. QED
  BY <1>1, InitTypeOK, TempStep, PTL DEF Spec

\* No operation leaves its temporary file behind, on any path through
\* saveToFile, whatever other processes do to the directory meanwhile.
THEOREM TempFilesCleaned == Spec => []NoTempLeak
<1>1. TempInv => NoTempLeak
  BY DEF TempInv, WriterInv, NoTempLeak
<1>2. QED
  BY <1>1, InitTypeOK, TempStep, PTL DEF Spec

-----------------------------------------------------------------------------
(* One command at a time *)

\* Where the command that runs is in saveToFile, and what the files then hold.
SerialInv ==
  /\ \A p, q \in Procs : pc[p] # "idle" /\ pc[q] # "idle" => p = q
  /\ \A p \in Procs : pc[p] = "open" => files[target[p]] = "absent"
  /\ \A p \in Procs : pc[p] = "write" => files[target[p]] = "empty" /\ linked[p]
  /\ \A p \in Procs : pc[p] \in {"tempfile", "writetmp", "unlink"} => files[target[p]] # "absent"
  /\ \A p \in Procs : pc[p] = "writetmp" => tmp[p] = "empty"
  /\ \A p \in Procs : pc[p] \in {"unlink", "rename"} => tmp[p] = data[p]
  /\ \A p \in Procs : pc[p] = "removing" => ~stored

\* Steps of one command after another keep SerialInv.
LEMMA SerialStep ==
  Exclusive /\ TempInv /\ SerialInv /\ [Next]_vars => SerialInv'
<1> SUFFICES ASSUME Exclusive, TempInv, SerialInv, [Next]_vars PROVE SerialInv'
  OBVIOUS
<1> USE StoreAssumption DEF TempInv, TypeOK, WriterInv, Writing, Configs, Content, Files, Unreadable, SerialInv, disk, work, history
<1>1. ASSUME NEW p \in Procs, Step(p) PROVE SerialInv'
  <2>1. CASE StartCreate(p)
    BY <2>1 DEF StartCreate, MayStart
  <2>2. CASE LoadCurrent(p)
    BY <2>2 DEF LoadCurrent, MayStart
  <2>3. CASE LoadLegacy(p)
    BY <2>3 DEF LoadLegacy, MayStart
  <2>4. CASE StartSave(p)
    BY <2>4 DEF StartSave
  <2>5. CASE EndCommand(p)
    BY <2>5 DEF EndCommand
  <2>6. CASE Mkdir(p)
    BY <2>6 DEF Mkdir
  <2>7. CASE Stat(p)
    BY <2>7 DEF Stat
  <2>8. CASE OpenDirect(p)
    BY <2>8 DEF OpenDirect, SaveFails
  <2>9. CASE WriteDirect(p)
    BY <2>9 DEF WriteDirect, SaveReturns
  <2>10. CASE WriteDirectFails(p)
    BY <2>10 DEF WriteDirectFails, SaveFails
  <2>11. CASE TempFile(p)
    BY <2>11 DEF TempFile, SaveFails
  <2>12. CASE WriteTemp(p)
    BY <2>12 DEF WriteTemp
  <2>13. CASE WriteTempFails(p)
    BY <2>13 DEF WriteTempFails, SaveFails
  <2>14. CASE Unlink(p)
    BY <2>14 DEF Unlink, SaveFails, Detach
  <2>15. CASE Rename(p)
    BY <2>15 DEF Rename, SaveReturns, Detach
  <2>16. CASE RenameFails(p)
    BY <2>16 DEF RenameFails, SaveFails
  <2>17. CASE StartRemove(p)
    BY <2>17 DEF StartRemove, MayStart
  <2>18. CASE RemoveFile(p)
    BY <2>18 DEF RemoveFile, Detach
  <2>19. CASE RemoveTemp(p)
    BY <2>19 DEF RemoveTemp
  <2>20. CASE Rmdir(p)
    BY <2>20 DEF Rmdir
  <2>21. CASE Crash(p)
    BY <2>21 DEF Crash
  <2>22. QED
    BY <1>1, <2>1, <2>2, <2>3, <2>4, <2>5, <2>6, <2>7, <2>8, <2>9, <2>10, <2>11, <2>12, <2>13, <2>14, <2>15, <2>16, <2>17, <2>18, <2>19, <2>20, <2>21 DEF Step
<1>2. CASE UNCHANGED vars
  BY <1>2 DEF vars
<1>3. QED
  BY <1>1, <1>2 DEF Next

\* The directory holds the complete config c under some name.
Copy(c) ==
  \/ files["config"] = c
  \/ files["bak"] = c
  \/ c \in debris
  \/ \E p \in Procs : tmp[p] = c

\* Copies are the configs of which there is a copy.
LEMMA CopyOf == \A c \in Configs : c \in Copies <=> Copy(c)
  BY DEF Copies, Copy

\* Some copy of a complete config survives every step but a removal.
LEMMA CopyStep ==
  Careful /\ TempInv /\ SerialInv /\ (stored => \E c \in Configs : Copy(c)) /\ [Next]_vars
    => (stored => \E c \in Configs : Copy(c))'
<1> SUFFICES ASSUME Careful, TempInv, SerialInv, stored => \E c \in Configs : Copy(c), [Next]_vars, stored'
             PROVE  \E c \in Configs : Copy(c)'
  OBVIOUS
<1> USE StoreAssumption DEF TempInv, TypeOK, WriterInv, Writing, Content, Files, Unreadable, SerialInv, Copy, disk, work, history
<1>1. ASSUME NEW p \in Procs, Step(p) PROVE \E c \in Configs : Copy(c)'
  <2>1. CASE StartCreate(p)
    BY <2>1 DEF StartCreate, MayStart
  <2>2. CASE LoadCurrent(p)
    BY <2>2 DEF LoadCurrent, MayStart
  <2>3. CASE LoadLegacy(p)
    BY <2>3 DEF LoadLegacy, MayStart
  <2>4. CASE StartSave(p)
    BY <2>4 DEF StartSave
  <2>5. CASE EndCommand(p)
    BY <2>5 DEF EndCommand
  <2>6. CASE Mkdir(p)
    BY <2>6 DEF Mkdir
  <2>7. CASE Stat(p)
    BY <2>7 DEF Stat
  <2>8. CASE OpenDirect(p)
    <3>1. stored /\ files[target[p]] = "absent" /\ tmp[p] = "absent" /\ target[p] \in Files
      BY <2>8 DEF OpenDirect, SaveFails
    <3>2. PICK c \in Configs : Copy(c)
      BY <3>1
    <3>3. c # "absent" /\ debris' = debris
      BY <2>8 DEF OpenDirect
    <3>4. \A f \in Files : files[f] = c => files'[f] = c
      BY <2>8, <3>1, <3>3 DEF OpenDirect
    <3>5. \A q \in Procs : tmp[q] = c => tmp'[q] = c
      BY <2>8, <3>1, <3>3 DEF OpenDirect, SaveFails
    <3>6. QED
      BY <3>2, <3>3, <3>4, <3>5
  <2>9. CASE WriteDirect(p)
    BY <2>9 DEF WriteDirect, SaveReturns
  <2>10. CASE WriteDirectFails(p)
    BY <2>10 DEF WriteDirectFails, SaveFails
  <2>11. CASE TempFile(p)
    <3>1. stored /\ tmp[p] = "absent"
      BY <2>11 DEF TempFile, SaveFails
    <3>2. PICK c \in Configs : Copy(c)
      BY <3>1
    <3>3. c # "absent" /\ UNCHANGED <<files, debris>>
      BY <2>11 DEF TempFile
    <3>4. \A q \in Procs : tmp[q] = c => tmp'[q] = c
      BY <2>11, <3>1, <3>3 DEF TempFile, SaveFails
    <3>5. QED
      BY <3>2, <3>3, <3>4
  <2>12. CASE WriteTemp(p)
    BY <2>12 DEF WriteTemp
  <2>13. CASE WriteTempFails(p)
    BY <2>13 DEF WriteTempFails, SaveFails
  <2>14. CASE Unlink(p)
    <3>1. files[target[p]] # "absent" /\ tmp[p] = data[p] /\ data[p] \in Configs
      BY <2>14 DEF Unlink
    <3>2. tmp' = tmp
      BY <2>14, <3>1 DEF Unlink
    <3>3. QED
      BY <3>1, <3>2
  <2>15. CASE Rename(p)
    BY <2>15 DEF Rename, SaveReturns, Detach
  <2>16. CASE RenameFails(p)
    BY <2>16 DEF RenameFails, SaveFails, Careful
  <2>17. CASE StartRemove(p)
    BY <2>17 DEF StartRemove, MayStart
  <2>18. CASE RemoveFile(p)
    BY <2>18 DEF RemoveFile, Detach
  <2>19. CASE RemoveTemp(p)
    BY <2>19 DEF RemoveTemp
  <2>20. CASE Rmdir(p)
    BY <2>20 DEF Rmdir
  <2>21. CASE Crash(p)
    BY <2>21 DEF Crash
  <2>22. QED
    BY <1>1, <2>1, <2>2, <2>3, <2>4, <2>5, <2>6, <2>7, <2>8, <2>9, <2>10, <2>11, <2>12, <2>13, <2>14, <2>15, <2>16, <2>17, <2>18, <2>19, <2>20, <2>21 DEF Step
<1>2. CASE UNCHANGED vars
  BY <1>2 DEF vars
<1>3. QED
  BY <1>1, <1>2 DEF Next

\* With one command at a time and renames that succeed, the last complete config
\* of a machine is never lost, however often processes die or writes fail.
THEOREM ConfigSurvives == Spec => []NeverLost
<1> DEFINE Kept == stored => \E c \in Configs : Copy(c)
<1> DEFINE IInv == TempInv /\ (Careful => SerialInv /\ Kept)
<1>1. Init => IInv
  <2> SUFFICES ASSUME Init PROVE IInv
    OBVIOUS
  <2>1. TempInv
    BY InitTypeOK
  <2>2. SerialInv
    BY SMT DEF Init, SerialInv
  <2>3. Kept
    <3>1. PICK c \in setting.found : files = [f \in Files |-> IF f = "config" THEN c ELSE "absent"]
      BY Zenon DEF Init
    <3>2. files["config"] = c
      BY <3>1, SMT DEF Files
    <3>3. stored => c \in Configs
      BY <3>2, StoreAssumption DEF Init, SettingType
    <3>4. QED
      BY <3>2, <3>3 DEF Copy
  <2>4. QED
    BY <2>1, <2>2, <2>3
<1>2. [Next]_vars => (Careful' <=> Careful)
  BY DEF Next, vars, Careful, Exclusive
<1>3. IInv /\ [Next]_vars => IInv'
  BY <1>2, TempStep, SerialStep, CopyStep DEF Careful
<1>4. IInv => NeverLost
  BY CopyOf DEF NeverLost
<1> HIDE DEF IInv
<1>5. QED
  BY <1>1, <1>3, <1>4, PTL DEF Spec

-----------------------------------------------------------------------------
(* What a Load finds, and the old config *)

\* config.json is the config last stored, except while a Save replaces it; a
\* removal forgets it.
AckInv ==
  /\ \A p \in Procs : pc[p] = "removing" => acked = "absent"
  /\ acked # "absent" =>
       files["config"] = acked \/ \E p \in Procs : pc[p] = "rename" /\ target[p] = "config"

\* Every step of a careful process keeps what the last Save stored.
LEMMA AckStep ==
  Careful /\ TempInv /\ SerialInv /\ AckInv /\ [Next]_vars => AckInv'
<1> SUFFICES ASSUME Careful, TempInv, SerialInv, AckInv, [Next]_vars PROVE AckInv'
  OBVIOUS
<1> USE StoreAssumption DEF TempInv, TypeOK, WriterInv, Writing, Configs, Content, Files, Unreadable, SerialInv, disk, work, history, AckInv, Careful, Exclusive
<1>1. ASSUME NEW p \in Procs, Step(p) PROVE AckInv'
  <2>1. CASE StartCreate(p)
    BY <2>1 DEF StartCreate, MayStart
  <2>2. CASE LoadCurrent(p)
    BY <2>2 DEF LoadCurrent, MayStart
  <2>3. CASE LoadLegacy(p)
    BY <2>3 DEF LoadLegacy, MayStart
  <2>4. CASE StartSave(p)
    BY <2>4 DEF StartSave
  <2>5. CASE EndCommand(p)
    BY <2>5 DEF EndCommand
  <2>6. CASE Mkdir(p)
    BY <2>6 DEF Mkdir
  <2>7. CASE Stat(p)
    BY <2>7 DEF Stat
  <2>8. CASE OpenDirect(p)
    BY <2>8 DEF OpenDirect, SaveFails
  <2>9. CASE WriteDirect(p)
    BY <2>9 DEF WriteDirect, SaveReturns
  <2>10. CASE WriteDirectFails(p)
    BY <2>10 DEF WriteDirectFails, SaveFails
  <2>11. CASE TempFile(p)
    BY <2>11 DEF TempFile, SaveFails
  <2>12. CASE WriteTemp(p)
    BY <2>12 DEF WriteTemp
  <2>13. CASE WriteTempFails(p)
    BY <2>13 DEF WriteTempFails, SaveFails
  <2>14. CASE Unlink(p)
    BY <2>14 DEF Unlink, SaveFails, Detach
  <2>15. CASE Rename(p)
    BY <2>15 DEF Rename, SaveReturns, Detach
  <2>16. CASE RenameFails(p)
    BY <2>16 DEF RenameFails, SaveFails, Careful
  <2>17. CASE StartRemove(p)
    BY <2>17 DEF StartRemove, MayStart
  <2>18. CASE RemoveFile(p)
    BY <2>18 DEF RemoveFile, Detach
  <2>19. CASE RemoveTemp(p)
    BY <2>19 DEF RemoveTemp
  <2>20. CASE Rmdir(p)
    BY <2>20 DEF Rmdir
  <2>21. CASE Crash(p)
    BY <2>21 DEF Crash
  <2>22. QED
    BY <1>1, <2>1, <2>2, <2>3, <2>4, <2>5, <2>6, <2>7, <2>8, <2>9, <2>10, <2>11, <2>12, <2>13, <2>14, <2>15, <2>16, <2>17, <2>18, <2>19, <2>20, <2>21 DEF Step
<1>2. CASE UNCHANGED vars
  BY <1>2 DEF vars
<1>3. QED
  BY <1>1, <1>2 DEF Next

\* Where the old config is: in config.json while the backup is written, in
\* config.json.bak once a Save of the migrated host may have begun.
OrigInv ==
  /\ \A p \in Procs : pc[p] = "removing" => orig = "absent"
  /\ orig # "absent" =>
       /\ dir
       /\ files["config"] = orig \/ files["bak"] = orig
       /\ files["config"] \in Legacy => files["config"] = orig
       /\ \A p \in Procs : pc[p] = "ready" => files["bak"] = orig
       /\ \A p \in Procs : pc[p] \in Writing /\ target[p] = "bak" => files["config"] = orig /\ data[p] = orig
       /\ \A p \in Procs : pc[p] \in Writing /\ target[p] = "config" => files["bak"] = orig /\ data[p] \in Current

\* No step of a careful process overwrites the last copy of the old config.
LEMMA OrigStep ==
  Careful /\ TempInv /\ SerialInv /\ OrigInv /\ [Next]_vars => OrigInv'
<1> SUFFICES ASSUME Careful, TempInv, SerialInv, OrigInv, [Next]_vars PROVE OrigInv'
  OBVIOUS
<1> USE StoreAssumption DEF TempInv, TypeOK, WriterInv, Writing, Configs, Content, Files, Unreadable, SerialInv, disk, work, history, OrigInv, Careful, Exclusive
<1>1. ASSUME NEW p \in Procs, Step(p) PROVE OrigInv'
  <2>1. CASE StartCreate(p)
    BY <2>1 DEF StartCreate, MayStart
  <2>2. CASE LoadCurrent(p)
    BY <2>2 DEF LoadCurrent, MayStart
  <2>3. CASE LoadLegacy(p)
    BY <2>3 DEF LoadLegacy, MayStart
  <2>4. CASE StartSave(p)
    BY <2>4 DEF StartSave
  <2>5. CASE EndCommand(p)
    BY <2>5 DEF EndCommand
  <2>6. CASE Mkdir(p)
    BY <2>6 DEF Mkdir
  <2>7. CASE Stat(p)
    BY <2>7 DEF Stat
  <2>8. CASE OpenDirect(p)
    BY <2>8 DEF OpenDirect, SaveFails
  <2>9. CASE WriteDirect(p)
    BY <2>9 DEF WriteDirect, SaveReturns
  <2>10. CASE WriteDirectFails(p)
    BY <2>10 DEF WriteDirectFails, SaveFails
  <2>11. CASE TempFile(p)
    BY <2>11 DEF TempFile, SaveFails
  <2>12. CASE WriteTemp(p)
    BY <2>12 DEF WriteTemp
  <2>13. CASE WriteTempFails(p)
    BY <2>13 DEF WriteTempFails, SaveFails
  <2>14. CASE Unlink(p)
    BY <2>14 DEF Unlink, SaveFails, Detach
  <2>15. CASE Rename(p)
    BY <2>15 DEF Rename, SaveReturns, Detach
  <2>16. CASE RenameFails(p)
    BY <2>16 DEF RenameFails, SaveFails, Careful
  <2>17. CASE StartRemove(p)
    BY <2>17 DEF StartRemove, MayStart
  <2>18. CASE RemoveFile(p)
    BY <2>18 DEF RemoveFile, Detach
  <2>19. CASE RemoveTemp(p)
    BY <2>19 DEF RemoveTemp
  <2>20. CASE Rmdir(p)
    BY <2>20 DEF Rmdir
  <2>21. CASE Crash(p)
    BY <2>21 DEF Crash
  <2>22. QED
    BY <1>1, <2>1, <2>2, <2>3, <2>4, <2>5, <2>6, <2>7, <2>8, <2>9, <2>10, <2>11, <2>12, <2>13, <2>14, <2>15, <2>16, <2>17, <2>18, <2>19, <2>20, <2>21 DEF Step
<1>2. CASE UNCHANGED vars
  BY <1>2 DEF vars
<1>3. QED
  BY <1>1, <1>2 DEF Next

\* Careful does not change.
LEMMA CarefulStable == [Next]_vars => (Careful' <=> Careful)
  BY DEF Next, vars, Careful, Exclusive

\* What the machine finds at first is a complete config or nothing.
LEMMA InitFiles ==
  Init => /\ files["bak"] = "absent"
          /\ files["config"] \in {"absent"} \union Configs
          /\ files["config"] \in setting.found
<1> SUFFICES ASSUME Init PROVE /\ files["bak"] = "absent"
                               /\ files["config"] \in {"absent"} \union Configs
                               /\ files["config"] \in setting.found
  OBVIOUS
<1>1. PICK c \in setting.found : files = [f \in Files |-> IF f = "config" THEN c ELSE "absent"]
  BY Zenon DEF Init
<1>2. files["config"] = c /\ files["bak"] = "absent"
  BY <1>1, SMT DEF Files
<1>3. c \in {"absent"} \union Configs
  BY StoreAssumption DEF Init, SettingType
<1>4. QED
  BY <1>2, <1>3

\* The inductive invariant of careful use.
CarefulInv == TempInv /\ (Careful => SerialInv /\ AckInv /\ OrigInv)

\* CarefulInv holds at first and is kept.
LEMMA CarefulInvariant == (Init => CarefulInv) /\ (CarefulInv /\ [Next]_vars => CarefulInv')
<1>1. ASSUME Init PROVE CarefulInv
  <2>1. TempInv
    BY <1>1, InitTypeOK
  <2>2. SerialInv
    BY <1>1, SMT DEF Init, SerialInv
  <2>3. AckInv
    BY <1>1, SMT DEF Init, AckInv
  <2>4. OrigInv
    <3>1. orig # "absent" => files["config"] \in Legacy /\ orig = files["config"]
      BY <1>1, SMT DEF Init
    <3>2. files["config"] \in Legacy => files["config"] # "absent"
      BY StoreAssumption, SMT DEF Configs
    <3>3. files["config"] # "absent" => dir
      BY <1>1, Zenon DEF Init
    <3>4. \A p \in Procs : pc[p] = "idle"
      BY <1>1, Zenon DEF Init
    <3>5. QED
      BY <3>1, <3>2, <3>3, <3>4, SMT DEF OrigInv, Writing
  <2>5. QED
    BY <2>1, <2>2, <2>3, <2>4 DEF CarefulInv
<1>2. CarefulInv /\ [Next]_vars => CarefulInv'
  BY CarefulStable, TempStep, SerialStep, AckStep, OrigStep DEF CarefulInv, Careful
<1>3. QED
  BY <1>1, <1>2

\* With one command at a time and renames that succeed, a Load finds what the
\* last successful Save or Load stored, whichever operations failed in between.
THEOREM LoadFindsSaved == Spec => []ReadYourWrites
<1>1. CarefulInv => ReadYourWrites
  BY DEF CarefulInv, AckInv, ReadYourWrites, Quiescent
<1>2. QED
  BY <1>1, CarefulInvariant, PTL DEF Spec

\* A migration never loses the old config, wherever and however often it is
\* interrupted by a death or a failed write: it is under one of its two names.
THEOREM MigrationKeepsOriginal == Spec => []OriginalKept
<1>1. CarefulInv => OriginalKept
  BY DEF CarefulInv, OrigInv, OriginalKept
<1>2. QED
  BY <1>1, CarefulInvariant, PTL DEF Spec

-----------------------------------------------------------------------------
(* The store as a cell: Filestore implements HostStore *)

\* Without deaths a file exists only in an existing directory, in which every
\* Save past its mkdir works.
DirInv ==
  /\ ~dir => files["config"] = "absent" /\ files["bak"] = "absent"
  /\ \A p \in Procs : pc[p] \in Writing \ {"mkdir"} => dir

\* Only a removal, which runs alone, takes the directory away.
LEMMA DirStep ==
  Exclusive /\ TempInv /\ SerialInv /\ DirInv /\ [Next]_vars => DirInv'
<1> SUFFICES ASSUME Exclusive, TempInv, SerialInv, DirInv, [Next]_vars PROVE DirInv'
  OBVIOUS
<1> USE StoreAssumption DEF TempInv, TypeOK, WriterInv, Writing, Configs, Content, Files, Unreadable, SerialInv, disk, work, history, DirInv, Exclusive
<1>1. ASSUME NEW p \in Procs, Step(p) PROVE DirInv'
  <2>1. CASE StartCreate(p)
    BY <2>1 DEF StartCreate, MayStart
  <2>2. CASE LoadCurrent(p)
    BY <2>2 DEF LoadCurrent, MayStart
  <2>3. CASE LoadLegacy(p)
    BY <2>3 DEF LoadLegacy, MayStart
  <2>4. CASE StartSave(p)
    BY <2>4 DEF StartSave
  <2>5. CASE EndCommand(p)
    BY <2>5 DEF EndCommand
  <2>6. CASE Mkdir(p)
    BY <2>6 DEF Mkdir
  <2>7. CASE Stat(p)
    BY <2>7 DEF Stat
  <2>8. CASE OpenDirect(p)
    BY <2>8 DEF OpenDirect, SaveFails
  <2>9. CASE WriteDirect(p)
    BY <2>9 DEF WriteDirect, SaveReturns
  <2>10. CASE WriteDirectFails(p)
    BY <2>10 DEF WriteDirectFails, SaveFails
  <2>11. CASE TempFile(p)
    BY <2>11 DEF TempFile, SaveFails
  <2>12. CASE WriteTemp(p)
    BY <2>12 DEF WriteTemp
  <2>13. CASE WriteTempFails(p)
    BY <2>13 DEF WriteTempFails, SaveFails
  <2>14. CASE Unlink(p)
    BY <2>14 DEF Unlink, SaveFails, Detach
  <2>15. CASE Rename(p)
    BY <2>15 DEF Rename, SaveReturns, Detach
  <2>16. CASE RenameFails(p)
    BY <2>16 DEF RenameFails, SaveFails, Careful
  <2>17. CASE StartRemove(p)
    BY <2>17 DEF StartRemove, MayStart
  <2>18. CASE RemoveFile(p)
    BY <2>18 DEF RemoveFile, Detach
  <2>19. CASE RemoveTemp(p)
    BY <2>19 DEF RemoveTemp
  <2>20. CASE Rmdir(p)
    BY <2>20 DEF Rmdir
  <2>21. CASE Crash(p)
    BY <2>21 DEF Crash
  <2>22. QED
    BY <1>1, <2>1, <2>2, <2>3, <2>4, <2>5, <2>6, <2>7, <2>8, <2>9, <2>10, <2>11, <2>12, <2>13, <2>14, <2>15, <2>16, <2>17, <2>18, <2>19, <2>20, <2>21 DEF Step
<1>2. CASE UNCHANGED vars
  BY <1>2 DEF vars
<1>3. QED
  BY <1>1, <1>2 DEF Next

\* A process that has unlinked config.json is the only one, and its temporary
\* file is what a Load will find.
LEMMA SeenReplacing ==
  ASSUME SerialInv, NEW p \in Procs, pc[p] = "rename", target[p] = "config", dir, tmp[p] \in Configs
  PROVE  hostSeen = tmp[p]
<1>1. {q \in Procs : pc[q] = "rename" /\ target[q] = "config"} = {p}
  BY DEF SerialInv
<1>2. (CHOOSE q \in {p} : TRUE) = p
  OBVIOUS
<1>3. QED
  BY <1>1, <1>2 DEF hostSeen

\* Otherwise a Load finds config.json.
LEMMA SeenConfig ==
  ASSUME \A p \in Procs : ~(pc[p] = "rename" /\ target[p] = "config")
  PROVE  hostSeen = IF ~dir THEN "none" ELSE IF files["config"] \in Configs THEN files["config"] ELSE "unreadable"
<1>1. {q \in Procs : pc[q] = "rename" /\ target[q] = "config"} = {}
  OBVIOUS
<1>2. QED
  BY <1>1 DEF hostSeen

\* What a Load finds after a step, while config.json is being replaced.
LEMMA SeenReplacingNext ==
  ASSUME SerialInv', NEW p \in Procs, pc'[p] = "rename", target'[p] = "config", dir', tmp'[p] \in Configs
  PROVE  hostSeen' = tmp'[p]
<1>1. {q \in Procs : pc'[q] = "rename" /\ target'[q] = "config"} = {p}
  BY DEF SerialInv
<1>2. (CHOOSE q \in {p} : TRUE) = p
  OBVIOUS
<1>3. QED
  BY <1>1, <1>2 DEF hostSeen

\* What a Load finds after a step otherwise.
LEMMA SeenConfigNext ==
  ASSUME \A p \in Procs : ~(pc'[p] = "rename" /\ target'[p] = "config")
  PROVE  hostSeen' = IF ~dir' THEN "none" ELSE IF files'["config"] \in Configs THEN files'["config"] ELSE "unreadable"
<1>1. {q \in Procs : pc'[q] = "rename" /\ target'[q] = "config"} = {}
  OBVIOUS
<1>2. QED
  BY <1>1 DEF hostSeen

\* One command at a time: the others are idle before and after a step.
LEMMA Alone ==
  ASSUME Exclusive, TempInv, SerialInv, NEW p \in Procs, Step(p)
  PROVE  \A q \in Procs \ {p} : pc[q] = "idle" /\ pc'[q] = "idle"
<1> USE DEF TempInv, TypeOK, SerialInv, Exclusive, disk, work, history
<1>1. \A q \in Procs \ {p} : pc[q] = "idle"
  <2>1. pc[p] # "idle" \/ MayStart(p)
    BY DEF Step, StartCreate, LoadCurrent, LoadLegacy, StartSave, EndCommand, Mkdir, Stat, OpenDirect, WriteDirect,
           WriteDirectFails, TempFile, WriteTemp, WriteTempFails, Unlink, Rename, RenameFails, StartRemove,
           RemoveFile, RemoveTemp, Rmdir, Crash
  <2>2. QED
    BY <2>1 DEF MayStart
<1>2. \A q \in Procs \ {p} : pc'[q] = pc[q]
  <2>1. pc' = pc \/ \E l : pc' = [pc EXCEPT ![p] = l]
    BY DEF Step, StartCreate, LoadCurrent, LoadLegacy, StartSave, EndCommand, Mkdir, Stat, OpenDirect, WriteDirect,
           WriteDirectFails, TempFile, WriteTemp, WriteTempFails, Unlink, Rename, RenameFails, StartRemove,
           RemoveFile, RemoveTemp, Rmdir, Crash, SaveReturns, SaveFails
  <2>2. QED
    BY <2>1
<1>3. QED
  BY <1>1, <1>2

Removing == \E p \in Procs : pc[p] = "removing"

\* What a step may do to the cell, written out.
CellStep ==
  \/ hostSeen = "none" /\ hostSeen' = "unreadable" /\ (Removing' <=> Removing)
  \/ ~Removing /\ hostSeen # "none" /\ hostSeen' \in Configs /\ ~Removing'
  \/ ~Removing /\ Removing' /\ hostSeen' = hostSeen
  \/ Removing /\ hostSeen # "none" /\ hostSeen' = "unreadable" /\ Removing'
  \/ Removing /\ hostSeen' = "none" /\ ~Removing'
  \/ hostSeen' = hostSeen /\ (Removing' <=> Removing)

\* A command that runs alone and to its end takes the steps of a cell.
LEMMA CellSteps ==
  ASSUME Careful, ~setting.crashes, TempInv, SerialInv, DirInv, NEW p \in Procs, Step(p), SerialInv', DirInv'
  PROVE  CellStep
<1> USE StoreAssumption DEF TempInv, TypeOK, WriterInv, Writing, Content, Files, Unreadable, SerialInv, DirInv, disk, work, history
<1>serial. SerialInv'
  OBVIOUS
<1>alone. \A q \in Procs \ {p} : pc[q] = "idle" /\ pc'[q] = "idle"
  BY Alone DEF Careful
<1>before. Removing <=> pc[p] = "removing"
  BY <1>alone DEF Removing
<1>after. Removing' <=> pc'[p] = "removing"
  BY <1>alone DEF Removing
<1>seen. ~(pc[p] = "rename" /\ target[p] = "config") =>
        hostSeen = IF ~dir THEN "none" ELSE IF files["config"] \in Configs THEN files["config"] ELSE "unreadable"
  BY <1>alone, SeenConfig
<1>seenNext. ~(pc'[p] = "rename" /\ target'[p] = "config") =>
        hostSeen' = IF ~dir' THEN "none" ELSE IF files'["config"] \in Configs THEN files'["config"] ELSE "unreadable"
  BY <1>alone, SeenConfigNext
<1> USE DEF CellStep
<1>1. CASE StartCreate(p)
  BY <1>1, <1>before, <1>after, <1>seen, <1>seenNext DEF StartCreate, MayStart
<1>2. CASE LoadCurrent(p)
  BY <1>2, <1>before, <1>after, <1>seen, <1>seenNext DEF LoadCurrent, MayStart
<1>3. CASE LoadLegacy(p)
  BY <1>3, <1>before, <1>after, <1>seen, <1>seenNext DEF LoadLegacy, MayStart
<1>4. CASE StartSave(p)
  BY <1>4, <1>before, <1>after, <1>seen, <1>seenNext DEF StartSave
<1>5. CASE EndCommand(p)
  BY <1>5, <1>before, <1>after, <1>seen, <1>seenNext DEF EndCommand
<1>6. CASE Mkdir(p)
  BY <1>6, <1>before, <1>after, <1>seen, <1>seenNext DEF Mkdir
<1>7. CASE Stat(p)
  BY <1>7, <1>before, <1>after, <1>seen, <1>seenNext DEF Stat
<1>8. CASE OpenDirect(p)
  BY <1>8, <1>before, <1>after, <1>seen, <1>seenNext DEF OpenDirect, SaveFails
<1>9. CASE WriteDirect(p)
  BY <1>9, <1>before, <1>after, <1>seen, <1>seenNext DEF WriteDirect, SaveReturns
<1>10. CASE WriteDirectFails(p)
  BY <1>10, <1>before, <1>after, <1>seen, <1>seenNext DEF WriteDirectFails, SaveFails
<1>11. CASE TempFile(p)
  BY <1>11, <1>before, <1>after, <1>seen, <1>seenNext DEF TempFile, SaveFails
<1>12. CASE WriteTemp(p)
  BY <1>12, <1>before, <1>after, <1>seen, <1>seenNext DEF WriteTemp
<1>13. CASE WriteTempFails(p)
  BY <1>13, <1>before, <1>after, <1>seen, <1>seenNext DEF WriteTempFails, SaveFails
<1>14. CASE Unlink(p)
  <2>1. files[target[p]] # "absent" /\ tmp[p] \in Configs /\ dir /\ pc[p] = "unlink" /\ data[p] \in Configs
    BY <1>14 DEF Unlink
  <2>2. pc'[p] = "rename" /\ UNCHANGED <<dir, tmp, target>> /\ files' = [files EXCEPT ![target[p]] = "absent"]
    BY <1>14, <2>1 DEF Unlink
  <2>3. CASE target[p] = "config"
    <3>1. hostSeen' = tmp'[p]
      BY <1>serial, <2>1, <2>2, <2>3, SeenReplacingNext
    <3>2. QED
      BY <1>before, <1>after, <1>seen, <2>1, <2>2, <2>3, <3>1
  <2>4. CASE target[p] = "bak"
    BY <1>before, <1>after, <1>seen, <1>seenNext, <2>1, <2>2, <2>4
  <2>5. QED
    BY <2>3, <2>4
<1>15. CASE Rename(p)
  <2>1. tmp[p] \in Configs /\ dir /\ dir' /\ pc[p] = "rename" /\ pc'[p] \in {"mkdir", "ready"}
        /\ files' = [files EXCEPT ![target[p]] = tmp[p]]
    BY <1>15 DEF Rename, SaveReturns
  <2>2. CASE target[p] = "config"
    <3>1. hostSeen = tmp[p]
      BY <2>1, <2>2, SeenReplacing
    <3>2. QED
      BY <1>before, <1>after, <1>seenNext, <2>1, <2>2, <3>1
  <2>3. CASE target[p] = "bak"
    BY <1>before, <1>after, <1>seen, <1>seenNext, <2>1, <2>3
  <2>4. QED
    BY <2>2, <2>3
<1>16. CASE RenameFails(p)
  BY <1>16, <1>before, <1>after, <1>seen, <1>seenNext DEF RenameFails, SaveFails, Careful
<1>17. CASE StartRemove(p)
  BY <1>17, <1>before, <1>after, <1>seen, <1>seenNext DEF StartRemove, MayStart
<1>18. CASE RemoveFile(p)
  BY <1>18, <1>before, <1>after, <1>seen, <1>seenNext DEF RemoveFile, Detach
<1>19. CASE RemoveTemp(p)
  BY <1>19, <1>before, <1>after, <1>seen, <1>seenNext DEF RemoveTemp
<1>20. CASE Rmdir(p)
  BY <1>20, <1>before, <1>after, <1>seen, <1>seenNext DEF Rmdir
<1>21. CASE Crash(p)
  BY <1>21, <1>before, <1>after, <1>seen, <1>seenNext DEF Crash
<1>22. QED
  BY <1>1, <1>2, <1>3, <1>4, <1>5, <1>6, <1>7, <1>8, <1>9, <1>10, <1>11, <1>12, <1>13, <1>14, <1>15, <1>16, <1>17, <1>18, <1>19, <1>20, <1>21 DEF Step

\* The inductive invariant behind the refinement.
CellInv == TempInv /\ (Careful => SerialInv /\ (~setting.crashes => DirInv))

\* The files of a machine, seen through Load, are a cell that Save replaces in one
\* step, for commands that run one after another and do not die.
THEOREM FilesImplementCell == Spec => ImplementsHostStore
<1>1. Init => CellInv /\ Host!Init
  <2> SUFFICES ASSUME Init PROVE CellInv /\ Host!Init
    OBVIOUS
  <2>1. \A p \in Procs : pc[p] = "idle"
    BY Zenon DEF Init
  <2>2. SerialInv
    BY SMT DEF Init, SerialInv
  <2>3. ~dir => files["config"] = "absent" /\ files["bak"] = "absent"
    BY InitFiles, Zenon DEF Init
  <2>4. DirInv
    BY <2>1, <2>3, SMT DEF DirInv, Writing
  <2>5. CellInv
    BY <2>2, <2>4, InitTypeOK DEF CellInv
  <2>6. hostSeen \in {"none"} \union Configs
    <3>1. dir => files["config"] \in Configs
      BY InitFiles, Zenon DEF Init
    <3>2. hostSeen = IF ~dir THEN "none" ELSE IF files["config"] \in Configs THEN files["config"] ELSE "unreadable"
      BY <2>1, SeenConfig
    <3>3. QED
      BY <3>1, <3>2
  <2>7. (Careful /\ ~setting.crashes) \in BOOLEAN
    OBVIOUS
  <2>8. (\E p \in Procs : pc[p] = "removing") = FALSE
    BY <2>1
  <2>9. QED
    BY <2>5, <2>6, <2>7, <2>8 DEF Host!Init
<1>2. CellInv /\ [Next]_vars => CellInv'
  <2>1. [Next]_vars => setting' = setting
    BY DEF Next, vars
  <2>2. QED
    BY <2>1, CarefulStable, TempStep, SerialStep, DirStep DEF CellInv, Careful
<1>3. CellInv /\ CellInv' /\ [Next]_vars => [Host!Next]_Host!vars
  <2> SUFFICES ASSUME CellInv, CellInv', [Next]_vars PROVE [Host!Next]_Host!vars
    OBVIOUS
  <2>1. setting' = setting /\ (Careful' <=> Careful)
    BY CarefulStable DEF Next, vars
  <2>2. UNCHANGED (Careful /\ ~setting.crashes)
    BY <2>1
  <2>3. CASE ~(Careful /\ ~setting.crashes)
    BY <2>2, <2>3 DEF Host!Next
  <2>4. CASE UNCHANGED vars
    <3>1. UNCHANGED hostSeen /\ UNCHANGED (\E p \in Procs : pc[p] = "removing")
      BY <2>4 DEF vars, disk, work, hostSeen
    <3>2. QED
      BY <2>2, <3>1 DEF Host!vars
  <2>5. CASE Careful /\ ~setting.crashes /\ Next
    <3>1. CellStep
      BY <2>1, <2>5, CellSteps DEF Next, CellInv
    <3>2. QED
      BY <2>2, <3>1 DEF CellStep, Removing, Host!Next, Host!vars, Host!Reserve, Host!Put, Host!BeginRemove,
                        Host!RemoveConfig, Host!EndRemove
  <2>6. QED
    BY <2>3, <2>4, <2>5
<1>4. QED
  BY <1>1, <1>2, <1>3, PTL DEF Spec, ImplementsHostStore, Host!Spec

-----------------------------------------------------------------------------
(* Processes at work at once, undisturbed *)

\* A missing config.json is about to be renamed into place, a truncated one
\* about to be written.
SharedInv ==
  /\ \A p \in Procs : pc[p] # "removing"
  /\ \A p \in Procs : pc[p] \in {"unlink", "rename"} => tmp[p] = data[p]
  /\ files["config"] = "absent" => \E p \in Procs : pc[p] = "rename" /\ target[p] = "config"
  /\ files["config"] = "empty" => \E p \in Procs : pc[p] = "write" /\ target[p] = "config" /\ linked[p]

\* Any interleaving of undisturbed processes keeps SharedInv.
LEMMA SharedStep ==
  Undisturbed /\ TempInv /\ SharedInv /\ [Next]_vars => SharedInv'
<1> SUFFICES ASSUME Undisturbed, TempInv, SharedInv, [Next]_vars PROVE SharedInv'
  OBVIOUS
<1> USE StoreAssumption DEF TempInv, TypeOK, WriterInv, Writing, Configs, Content, Files, Unreadable, disk, work, history, SharedInv, Undisturbed
<1>1. ASSUME NEW p \in Procs, Step(p) PROVE SharedInv'
  <2>1. CASE StartCreate(p)
    BY <2>1 DEF StartCreate, MayStart
  <2>2. CASE LoadCurrent(p)
    BY <2>2 DEF LoadCurrent, MayStart
  <2>3. CASE LoadLegacy(p)
    BY <2>3 DEF LoadLegacy, MayStart
  <2>4. CASE StartSave(p)
    BY <2>4 DEF StartSave
  <2>5. CASE EndCommand(p)
    BY <2>5 DEF EndCommand
  <2>6. CASE Mkdir(p)
    BY <2>6 DEF Mkdir
  <2>7. CASE Stat(p)
    BY <2>7 DEF Stat
  <2>8. CASE OpenDirect(p)
    BY <2>8 DEF OpenDirect, SaveFails
  <2>9. CASE WriteDirect(p)
    BY <2>9 DEF WriteDirect, SaveReturns
  <2>10. CASE WriteDirectFails(p)
    BY <2>10 DEF WriteDirectFails, SaveFails
  <2>11. CASE TempFile(p)
    BY <2>11 DEF TempFile, SaveFails
  <2>12. CASE WriteTemp(p)
    BY <2>12 DEF WriteTemp
  <2>13. CASE WriteTempFails(p)
    BY <2>13 DEF WriteTempFails, SaveFails
  <2>14. CASE Unlink(p)
    BY <2>14 DEF Unlink, SaveFails, Detach
  <2>15. CASE Rename(p)
    BY <2>15 DEF Rename, SaveReturns, Detach
  <2>16. CASE RenameFails(p)
    BY <2>16 DEF RenameFails, SaveFails, Careful
  <2>17. CASE StartRemove(p)
    BY <2>17 DEF StartRemove, MayStart
  <2>18. CASE RemoveFile(p)
    BY <2>18 DEF RemoveFile, Detach
  <2>19. CASE RemoveTemp(p)
    BY <2>19 DEF RemoveTemp
  <2>20. CASE Rmdir(p)
    BY <2>20 DEF Rmdir
  <2>21. CASE Crash(p)
    BY <2>21 DEF Crash
  <2>22. QED
    BY <1>1, <2>1, <2>2, <2>3, <2>4, <2>5, <2>6, <2>7, <2>8, <2>9, <2>10, <2>11, <2>12, <2>13, <2>14, <2>15, <2>16, <2>17, <2>18, <2>19, <2>20, <2>21 DEF Step
<1>2. CASE UNCHANGED vars
  BY <1>2 DEF vars
<1>3. QED
  BY <1>1, <1>2 DEF Next

\* A writer that is still linked after a file was unlinked or replaced has another
\* file open.
LEMMA DetachWriters ==
  ASSUME NEW f, Detach(f) PROVE \A q \in Procs : linked'[q] => linked[q] /\ target[q] # f
  BY Zenon DEF Detach

\* p writes config.json directly, having found it missing.
Direct(p) == pc[p] \in {"open", "write"} /\ target[p] = "config"

\* Of two processes only one writes config.json directly: the other one was
\* replacing it.
PairInv ==
  /\ \A p, q \in Procs : Direct(p) /\ Direct(q) => p = q
  /\ \A p \in Procs : pc[p] = "write" /\ target[p] = "config" /\ linked[p] => files["config"] = "empty"
  /\ files["config"] # "corrupt"

\* Any interleaving of two undisturbed processes keeps PairInv.
LEMMA PairStep ==
  AtMostTwo /\ Undisturbed /\ TempInv /\ SharedInv /\ PairInv /\ [Next]_vars => PairInv'
<1> SUFFICES ASSUME AtMostTwo, Undisturbed, TempInv, SharedInv, PairInv, [Next]_vars PROVE PairInv'
  OBVIOUS
<1> USE StoreAssumption DEF TempInv, TypeOK, WriterInv, Writing, Configs, Content, Files, Unreadable, disk, work, history, SharedInv, PairInv, Direct, Undisturbed, AtMostTwo
<1>1. ASSUME NEW p \in Procs, Step(p) PROVE PairInv'
  <2>1. CASE StartCreate(p)
    BY <2>1 DEF StartCreate, MayStart
  <2>2. CASE LoadCurrent(p)
    BY <2>2 DEF LoadCurrent, MayStart
  <2>3. CASE LoadLegacy(p)
    BY <2>3 DEF LoadLegacy, MayStart
  <2>4. CASE StartSave(p)
    BY <2>4 DEF StartSave
  <2>5. CASE EndCommand(p)
    BY <2>5 DEF EndCommand
  <2>6. CASE Mkdir(p)
    BY <2>6 DEF Mkdir
  <2>7. CASE Stat(p)
    BY <2>7 DEF Stat
  <2>8. CASE OpenDirect(p)
    BY <2>8 DEF OpenDirect, SaveFails
  <2>9. CASE WriteDirect(p)
    BY <2>9 DEF WriteDirect, SaveReturns
  <2>10. CASE WriteDirectFails(p)
    BY <2>10 DEF WriteDirectFails, SaveFails
  <2>11. CASE TempFile(p)
    BY <2>11 DEF TempFile, SaveFails
  <2>12. CASE WriteTemp(p)
    BY <2>12 DEF WriteTemp
  <2>13. CASE WriteTempFails(p)
    BY <2>13 DEF WriteTempFails, SaveFails
  <2>14. CASE Unlink(p)
    <3>1. CASE files[target[p]] # "absent"
      <4>1. pc[p] = "unlink" /\ pc' = [pc EXCEPT ![p] = "rename"] /\ target' = target
            /\ files' = [files EXCEPT ![target[p]] = "absent"] /\ Detach(target[p])
        BY <2>14, <3>1 DEF Unlink
      <4>2. \A q \in Procs : linked'[q] => linked[q] /\ target[q] # target[p]
        BY <4>1, DetachWriters
      <4> HIDE DEF Content, Configs, WriterInv
      <4>3. QED
        BY <4>1, <4>2
    <3>2. CASE files[target[p]] = "absent"
      BY <2>14, <3>2 DEF Unlink, SaveFails
    <3>3. QED
      BY <3>1, <3>2
  <2>15. CASE Rename(p)
    <3>1. pc[p] = "rename" /\ tmp[p] \in Configs /\ files' = [files EXCEPT ![target[p]] = tmp[p]] /\ Detach(target[p])
      BY <2>15 DEF Rename
    <3>2. pc' = [pc EXCEPT ![p] = pc'[p]] /\ pc'[p] \in {"mkdir", "ready"} /\ \A q \in Procs \ {p} : target'[q] = target[q]
      BY <2>15 DEF Rename, SaveReturns
    <3>3. \A q \in Procs : linked'[q] => linked[q] /\ target[q] # target[p]
      BY <3>1, DetachWriters
    <3>4. tmp[p] # "corrupt"
      BY <3>1
    <3> HIDE DEF Content, Configs, WriterInv
    <3>5. QED
      BY <3>1, <3>2, <3>3, <3>4
  <2>16. CASE RenameFails(p)
    BY <2>16 DEF RenameFails, SaveFails, Careful
  <2>17. CASE StartRemove(p)
    BY <2>17 DEF StartRemove, MayStart
  <2>18. CASE RemoveFile(p)
    BY <2>18 DEF RemoveFile, Detach
  <2>19. CASE RemoveTemp(p)
    BY <2>19 DEF RemoveTemp
  <2>20. CASE Rmdir(p)
    BY <2>20 DEF Rmdir
  <2>21. CASE Crash(p)
    BY <2>21 DEF Crash
  <2>22. QED
    BY <1>1, <2>1, <2>2, <2>3, <2>4, <2>5, <2>6, <2>7, <2>8, <2>9, <2>10, <2>11, <2>12, <2>13, <2>14, <2>15, <2>16, <2>17, <2>18, <2>19, <2>20, <2>21 DEF Step
<1>2. CASE UNCHANGED vars
  BY <1>2 DEF vars
<1>3. QED
  BY <1>1, <1>2 DEF Next

\* However many processes load, migrate and save a machine at once, they never
\* leave config.json missing or truncated behind, and two of them leave a complete
\* config.
THEOREM ConcurrentSavesReadable == Spec => []QuiescentReadable
<1> DEFINE IInv == TempInv /\ (Undisturbed => SharedInv /\ (AtMostTwo => PairInv))
<1>1. Init => IInv
  <2> SUFFICES ASSUME Init PROVE IInv
    OBVIOUS
  <2>1. TempInv /\ \A p \in Procs : pc[p] = "idle"
    BY InitTypeOK, Zenon DEF Init
  <2>2. Undisturbed => files["config"] \in Configs
    BY InitFiles DEF Undisturbed
  <2>3. QED
    BY <2>1, <2>2, StoreAssumption DEF SharedInv, PairInv, Direct, Unreadable
<1>2. IInv /\ [Next]_vars => IInv'
  <2>1. [Next]_vars => (Undisturbed' <=> Undisturbed) /\ (AtMostTwo' <=> AtMostTwo)
    BY DEF Next, vars, Undisturbed, AtMostTwo
  <2>2. QED
    BY <2>1, TempStep, SharedStep, PairStep
<1>3. IInv => QuiescentReadable
  BY DEF TempInv, TypeOK, SharedInv, PairInv, QuiescentReadable, Quiescent, Files, Content, Unreadable
<1> HIDE DEF IInv
<1>4. QED
  BY <1>1, <1>2, <1>3, PTL DEF Spec
=============================================================================
