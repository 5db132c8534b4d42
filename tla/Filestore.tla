------------------------------- MODULE Filestore -------------------------------
(***************************************************************************)
(* The directory of one machine in the store, and the machine processes    *)
(* that save, load and remove it (libmachine/persist/filestore.go).  One   *)
(* action is one call of the operating system; a process may die between   *)
(* any two of them, and several processes may be at work at once.          *)
(***************************************************************************)
EXTENDS FiniteSets

CONSTANTS Procs,      \* machine processes
          Legacy,     \* configs written by an older version, migrated when loaded
          Current,    \* configs of the current version
          Migrated,   \* what host.MigrateHost makes of the machine's old config
          Settings    \* what may happen in a behaviour, see SettingType

Configs == Legacy \union Current
Files == {"config", "bak"}   \* config.json and config.json.bak
Unreadable == {"empty", "corrupt"}
Content == {"absent"} \union Unreadable \union Configs

\* exclusive: a command starts only when no other one is running.  crashes: a
\* process may die in the middle of an operation.  removes: machines may be
\* removed.  faults: the calls that may fail.  found: what config.json may hold
\* at first, "absent" for no machine.
SettingType ==
  [exclusive : BOOLEAN, crashes : BOOLEAN, removes : BOOLEAN,
   faults : SUBSET {"write", "rename"}, found : SUBSET ({"absent"} \union Configs)]

ASSUME StoreAssumption ==
  /\ Legacy \cap Current = {}
  /\ Configs \cap ({"absent", "none", "unreadable"} \union Unreadable) = {}
  /\ Migrated \in Current
  /\ Settings \subseteq SettingType

VARIABLES
  setting, \* what may happen, chosen at first and never changed
  dir,     \* the machine's directory exists
  files,   \* what config.json and config.json.bak hold
  debris,  \* what the temporary files of dead processes hold
  pc,      \* where each process is: "idle" when no command runs, "ready" when the
           \* command has its host in memory, else in saveToFile or RemoveAll
  target,  \* the file it writes: "config" or "bak"
  data,    \* the config it writes
  tmp,     \* what its temporary file holds
  linked,  \* the file it writes directly is still the one named target
  stored,  \* history: a complete config was stored and no removal was begun
  orig,    \* history: the old config the machine had, "absent" if none
  acked    \* history: the config of the last Save or Load that succeeded,
           \* "absent" when unknown (a process died or a removal was begun)

disk == <<dir, files, debris>>
work == <<target, data, linked>>
history == <<stored, orig, acked>>
vars == <<setting, disk, pc, work, tmp, history>>

Exclusive == setting.exclusive

Init ==
  /\ setting \in Settings
  /\ \E c \in setting.found : files = [f \in Files |-> IF f = "config" THEN c ELSE "absent"]
  /\ dir = (files["config"] # "absent")
  /\ debris = {}
  /\ pc = [p \in Procs |-> "idle"]
  /\ target = [p \in Procs |-> "config"]
  /\ data = [p \in Procs |-> "absent"]
  /\ tmp = [p \in Procs |-> "absent"]
  /\ linked = [p \in Procs |-> FALSE]
  /\ stored = dir
  /\ orig = IF files["config"] \in Legacy THEN files["config"] ELSE "absent"
  /\ acked = files["config"]

\* A command begins.
MayStart(p) ==
  /\ pc[p] = "idle"
  /\ Exclusive => \A q \in Procs : pc[q] = "idle"

\* The file named f is unlinked or replaced: writers that hold it open go on
\* writing to a file without a name.
Detach(f) == linked' = [q \in Procs |-> linked[q] /\ target[q] # f]

-----------------------------------------------------------------------------
(* Save and Load *)

\* A create command found that Exists is false and has a new host.
StartCreate(p) ==
  /\ MayStart(p)
  /\ ~dir
  /\ pc' = [pc EXCEPT ![p] = "ready"]
  /\ UNCHANGED <<disk, work, tmp, history>>

\* Load finds a config of the current version.  (A missing or unreadable one is
\* an error, which ends the command and leaves the disk alone.)
LoadCurrent(p) ==
  /\ MayStart(p)
  /\ dir
  /\ files["config"] \in Current
  /\ pc' = [pc EXCEPT ![p] = "ready"]
  /\ UNCHANGED <<disk, work, tmp, history>>

\* Wrong variant: no backup before the migrated config is saved.
LoadWithoutBackup(p) ==
  /\ MayStart(p)
  /\ dir
  /\ files["config"] \in Legacy
  /\ data' = [data EXCEPT ![p] = Migrated]
  /\ target' = [target EXCEPT ![p] = "config"]
  /\ pc' = [pc EXCEPT ![p] = "mkdir"]
  /\ UNCHANGED <<disk, tmp, linked, history>>

\* Load finds an old config and migrates it; loadConfig saves the old bytes as
\* config.json.bak first.
LoadLegacy(p) ==
  /\ MayStart(p)
  /\ dir
  /\ files["config"] \in Legacy
  /\ data' = [data EXCEPT ![p] = files["config"]]
  /\ target' = [target EXCEPT ![p] = "bak"]
  /\ pc' = [pc EXCEPT ![p] = "stat"]
  /\ UNCHANGED <<disk, tmp, linked, history>>

\* The command saves its host, changed or not.
StartSave(p) ==
  /\ pc[p] = "ready"
  /\ \E c \in Current : data' = [data EXCEPT ![p] = c]
  /\ target' = [target EXCEPT ![p] = "config"]
  /\ pc' = [pc EXCEPT ![p] = "mkdir"]
  /\ UNCHANGED <<disk, tmp, linked, history>>

\* The command ends.
EndCommand(p) ==
  /\ pc[p] = "ready"
  /\ pc' = [pc EXCEPT ![p] = "idle"]
  /\ UNCHANGED <<disk, work, tmp, history>>

\* Save: os.MkdirAll.
Mkdir(p) ==
  /\ pc[p] = "mkdir"
  /\ dir' = TRUE
  /\ pc' = [pc EXCEPT ![p] = "stat"]
  /\ UNCHANGED <<files, debris, work, tmp, history>>

\* saveToFile: a file that does not exist is written directly, another one is
\* replaced.
Stat(p) ==
  /\ pc[p] = "stat"
  /\ pc' = [pc EXCEPT ![p] = IF files[target[p]] = "absent" THEN "open" ELSE "tempfile"]
  /\ UNCHANGED <<disk, work, tmp, history>>

\* saveToFile returns nil.  After the backup comes the Save of the migrated
\* host, after the config the host is in memory and in the store.
SaveReturns(p) ==
  IF target[p] = "bak"
  THEN /\ target' = [target EXCEPT ![p] = "config"]
       /\ data' = [data EXCEPT ![p] = Migrated]
       /\ pc' = [pc EXCEPT ![p] = "mkdir"]
       /\ UNCHANGED <<stored, acked>>
  ELSE /\ pc' = [pc EXCEPT ![p] = "ready"]
       /\ stored' = TRUE
       /\ acked' = data[p]
       /\ UNCHANGED <<target, data>>

\* saveToFile returns an error, which ends the command.  The deferred
\* os.Remove deletes the temporary file if there is one.
SaveFails(p) ==
  /\ pc' = [pc EXCEPT ![p] = "idle"]
  /\ tmp' = [tmp EXCEPT ![p] = "absent"]
  /\ UNCHANGED <<target, data, stored, acked>>

\* ioutil.WriteFile opens the file, creating or truncating it.
OpenDirect(p) ==
  /\ pc[p] = "open"
  /\ IF dir
     THEN /\ files' = [files EXCEPT ![target[p]] = "empty"]
          /\ linked' = [linked EXCEPT ![p] = TRUE]
          /\ pc' = [pc EXCEPT ![p] = "write"]
          /\ UNCHANGED <<target, data, tmp, stored, acked>>
     ELSE /\ SaveFails(p)
          /\ UNCHANGED <<files, linked>>
  /\ UNCHANGED <<dir, debris, orig>>

\* The bytes are written.  If another process wrote other bytes into the
\* same file since it was truncated, the tail of the longer of the two may stay.
WriteDirect(p) ==
  /\ pc[p] = "write"
  /\ IF linked[p]
     THEN \E c \in IF files[target[p]] \in {"empty", data[p]} THEN {data[p]} ELSE {data[p], "corrupt"} :
            files' = [files EXCEPT ![target[p]] = c]
     ELSE files' = files
  /\ linked' = [linked EXCEPT ![p] = FALSE]
  /\ SaveReturns(p)
  /\ UNCHANGED <<dir, debris, tmp, orig>>

\* The write fails and leaves the file truncated.
WriteDirectFails(p) ==
  /\ pc[p] = "write"
  /\ "write" \in setting.faults
  /\ linked' = [linked EXCEPT ![p] = FALSE]
  /\ SaveFails(p)
  /\ UNCHANGED <<disk, orig>>

\* Wrong variant: the old file is removed before the new one is written.
TempFileAfterUnlink(p) ==
  /\ pc[p] = "tempfile"
  /\ dir
  /\ files' = [files EXCEPT ![target[p]] = "absent"]
  /\ tmp' = [tmp EXCEPT ![p] = "empty"]
  /\ pc' = [pc EXCEPT ![p] = "writetmp"]
  /\ UNCHANGED <<dir, debris, work, history>>

\* ioutil.TempFile creates an empty file in the directory.
TempFile(p) ==
  /\ pc[p] = "tempfile"
  /\ IF dir
     THEN /\ tmp' = [tmp EXCEPT ![p] = "empty"]
          /\ pc' = [pc EXCEPT ![p] = "writetmp"]
          /\ UNCHANGED <<target, data, stored, acked>>
     ELSE SaveFails(p)
  /\ UNCHANGED <<disk, linked, orig>>

\* Wrong variant: the bytes stay in a buffer.
WriteTempUnflushed(p) ==
  /\ pc[p] = "writetmp"
  /\ dir
  /\ pc' = [pc EXCEPT ![p] = "unlink"]
  /\ UNCHANGED <<disk, work, tmp, history>>

WriteTemp(p) ==
  /\ pc[p] = "writetmp"
  /\ dir
  /\ tmp' = [tmp EXCEPT ![p] = data[p]]
  /\ pc' = [pc EXCEPT ![p] = "unlink"]
  /\ UNCHANGED <<disk, work, history>>

\* The write fails, or the directory is gone.
WriteTempFails(p) ==
  /\ pc[p] = "writetmp"
  /\ ~dir \/ "write" \in setting.faults
  /\ SaveFails(p)
  /\ UNCHANGED <<disk, linked, orig>>

\* os.Remove of the old file, an error if another process has removed it.
Unlink(p) ==
  /\ pc[p] = "unlink"
  /\ IF files[target[p]] # "absent"
     THEN /\ files' = [files EXCEPT ![target[p]] = "absent"]
          /\ Detach(target[p])
          /\ pc' = [pc EXCEPT ![p] = "rename"]
          /\ UNCHANGED <<target, data, tmp, stored, acked>>
     ELSE /\ SaveFails(p)
          /\ UNCHANGED <<files, linked>>
  /\ UNCHANGED <<dir, debris, orig>>

\* os.Rename of the temporary file.
Rename(p) ==
  /\ pc[p] = "rename"
  /\ tmp[p] # "absent"
  /\ files' = [files EXCEPT ![target[p]] = tmp[p]]
  /\ tmp' = [tmp EXCEPT ![p] = "absent"]
  /\ Detach(target[p])
  /\ SaveReturns(p)
  /\ UNCHANGED <<dir, debris, orig>>

\* The rename fails, or the temporary file is gone.
RenameFails(p) ==
  /\ pc[p] = "rename"
  /\ tmp[p] = "absent" \/ "rename" \in setting.faults
  /\ SaveFails(p)
  /\ UNCHANGED <<disk, linked, orig>>

-----------------------------------------------------------------------------
(* Remove, and the death of a process *)

\* rm removes the host it has loaded, or with --force one that cannot be loaded.
StartRemove(p) ==
  /\ setting.removes
  /\ MayStart(p) \/ pc[p] = "ready"
  /\ pc' = [pc EXCEPT ![p] = "removing"]
  /\ stored' = FALSE
  /\ orig' = "absent"
  /\ acked' = "absent"
  /\ UNCHANGED <<disk, work, tmp>>

\* os.RemoveAll unlinks one entry of the directory after another.
RemoveFile(p) ==
  /\ pc[p] = "removing"
  /\ \E f \in Files :
       /\ files[f] # "absent"
       /\ files' = [files EXCEPT ![f] = "absent"]
       /\ Detach(f)
  /\ UNCHANGED <<dir, debris, pc, target, data, tmp, history>>

RemoveTemp(p) ==
  /\ pc[p] = "removing"
  /\ \/ /\ \E c \in debris : debris' = debris \ {c}
        /\ tmp' = tmp
     \/ /\ \E q \in Procs : tmp[q] # "absent" /\ tmp' = [tmp EXCEPT ![q] = "absent"]
        /\ debris' = debris
  /\ UNCHANGED <<dir, files, pc, work, history>>

\* The directory is empty and is removed.
Rmdir(p) ==
  /\ pc[p] = "removing"
  /\ files["config"] = "absent" /\ files["bak"] = "absent"
  /\ debris = {}
  /\ \A q \in Procs : tmp[q] = "absent"
  /\ dir' = FALSE
  /\ pc' = [pc EXCEPT ![p] = "idle"]
  /\ UNCHANGED <<files, debris, work, tmp, history>>

\* The process is killed; its temporary file stays.
Crash(p) ==
  /\ setting.crashes
  /\ pc[p] # "idle"
  /\ pc' = [pc EXCEPT ![p] = "idle"]
  /\ debris' = debris \union ({tmp[p]} \ {"absent"})
  /\ tmp' = [tmp EXCEPT ![p] = "absent"]
  /\ linked' = [linked EXCEPT ![p] = FALSE]
  /\ acked' = "absent"
  /\ UNCHANGED <<dir, files, target, data, stored, orig>>

-----------------------------------------------------------------------------
Step(p) ==
  \/ StartCreate(p) \/ LoadCurrent(p) \/ LoadLegacy(p) \/ StartSave(p) \/ EndCommand(p)
  \/ Mkdir(p) \/ Stat(p) \/ OpenDirect(p)
  \/ WriteDirect(p) \/ WriteDirectFails(p) \/ TempFile(p) \/ WriteTemp(p)
  \/ WriteTempFails(p) \/ Unlink(p) \/ Rename(p) \/ RenameFails(p)
  \/ StartRemove(p) \/ RemoveFile(p) \/ RemoveTemp(p) \/ Rmdir(p) \/ Crash(p)

Next == (\E p \in Procs : Step(p)) /\ UNCHANGED setting

Spec == Init /\ [][Next]_vars

-----------------------------------------------------------------------------
(* Properties *)

TypeOK ==
  /\ setting \in Settings
  /\ dir \in BOOLEAN
  /\ files \in [Files -> Content]
  /\ debris \in SUBSET (Content \ {"absent"})
  /\ pc \in [Procs -> {"idle", "ready", "mkdir", "stat", "open", "write", "tempfile", "writetmp",
                      "unlink", "rename", "removing"}]
  /\ target \in [Procs -> Files]
  /\ data \in [Procs -> {"absent"} \union Configs]
  /\ tmp \in [Procs -> Content]
  /\ linked \in [Procs -> BOOLEAN]
  /\ stored \in BOOLEAN
  /\ orig \in {"absent"} \union Legacy
  /\ acked \in {"absent"} \union Configs

\* The complete configs the directory holds under any name.
Copies == ({files["config"], files["bak"]} \union debris \union {tmp[p] : p \in Procs}) \cap Configs

Quiescent == \A p \in Procs : pc[p] \in {"idle", "ready"}

\* One command runs at a time and renames succeed.
Careful == Exclusive /\ "rename" \notin setting.faults

\* With one command at a time and renames that succeed: once a machine has a
\* complete config, the directory holds one, if only in a temporary file, until
\* the machine is removed.  No death of a process and no failed write loses the
\* last copy.
NeverLost == Careful /\ stored => Copies # {}

\* With one command at a time and renames that succeed: when nobody is at work,
\* config.json is what the last successful Save or Load stored, whichever
\* operations failed since.
ReadYourWrites == Careful /\ Quiescent /\ acked # "absent" => files["config"] = acked

\* Under the same conditions a migration interrupted anywhere, and repeated, keeps
\* the bytes of the old config under a name of their own: in config.json until
\* config.json.bak has them.
OriginalKept == Careful /\ orig # "absent" => orig \in {files["config"], files["bak"]}

\* An operation that ends, in success or in error, leaves no temporary file.
NoTempLeak == \A p \in Procs : pc[p] \in {"idle", "ready"} => tmp[p] = "absent"

\* Nothing fails, and the machine exists and is not removed.
Undisturbed ==
  ~setting.crashes /\ ~setting.removes /\ setting.faults = {} /\ "absent" \notin setting.found

AtMostTwo == \A p, q, r \in Procs : p = q \/ q = r \/ p = r

\* Processes that load, migrate and save an existing machine at once never leave
\* config.json missing or truncated behind, though each may see it so while others
\* are at work.  If there are no more than two of them it is also a complete config.
\* (Two that both found it missing, while a third was replacing it, write into one
\* file.)
QuiescentReadable ==
  Undisturbed /\ Quiescent =>
    /\ files["config"] \notin {"absent", "empty"}
    /\ AtMostTwo => files["config"] \in Configs

\* The config a Load would find once the Save that has unlinked config.json, if
\* there is one, has renamed its temporary file.
hostSeen ==
  IF ~dir THEN "none"
  ELSE LET replacing == {p \in Procs : pc[p] = "rename" /\ target[p] = "config"} IN
       LET content == IF replacing = {} THEN files["config"] ELSE tmp[CHOOSE p \in replacing : TRUE] IN
       IF content \in Configs THEN content ELSE "unreadable"

Host == INSTANCE HostStore WITH
  host <- hostSeen,
  removing <- (\E p \in Procs : pc[p] = "removing"),
  atomic <- (Careful /\ ~setting.crashes)

\* Seen by one command after another, none of which dies, the files behave like a
\* single cell per machine: a Save replaces the config in one step, and a readable
\* config becomes unreadable only by a removal, whichever writes fail.
ImplementsHostStore == Host!Spec
=============================================================================
