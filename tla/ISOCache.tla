--------------------------------- MODULE ISOCache ---------------------------------
(***************************************************************************)
(* The Boot2Docker image (mcnutils/b2d.go): one file in the cache that all  *)
(* machines share, brought up to date and copied to the machine's directory *)
(* by every create and upgrade.  A download goes to a temporary file, which *)
(* replaces the old one by a removal and a rename; there is no lock.        *)
(*                                                                          *)
(* A release has a number.  An image is that number, Torn or Absent; Torn   *)
(* is also what a server sends in place of an image, for the status of the  *)
(* answer is not looked at.                                                 *)
(***************************************************************************)
EXTENDS Integers

CONSTANTS
  Procs,       \* who runs creates and upgrades
  MaxRuns,     \* bound: of them
  MaxReleases, \* bound: releases
  MaxFaults    \* bound: failures and crashes

ASSUME BoundsAssumption == MaxRuns \in Nat /\ MaxReleases \in Nat \ {0} /\ MaxFaults \in Nat

VARIABLES
  latest,        \* the newest release
  dir, cache,    \* the cache's directory is there; the image in it
  pc,            \* the next step of each of Procs
  url, dest,     \* it was given a URL; where it downloads to, "cache" or "machine"
  temp, open,    \* its temporary file; what it reads from the file that it copies
  iso,           \* the image in its machine's directory
  seen,          \* the newest release when it began
  result,        \* how its last run ended
  crossed, hit,  \* another one ran at the same time; it met a fault
  poisoned,      \* a server has sent something else than an image
  runs, faults

vars == <<latest, dir, cache, pc, url, dest, temp, open, iso, seen, result, crossed, hit, poisoned, runs,
          faults>>

Torn == 0
Absent == -1
Running == {p \in Procs : pc[p] # "idle"}

Init ==
  /\ latest = 1 /\ dir = FALSE /\ cache = Absent
  /\ pc = [p \in Procs |-> "idle"]
  /\ url = [p \in Procs |-> FALSE] /\ dest = [p \in Procs |-> "cache"]
  /\ temp = [p \in Procs |-> Absent] /\ open = [p \in Procs |-> Absent] /\ iso = [p \in Procs |-> Absent]
  /\ seen = [p \in Procs |-> 0] /\ result = [p \in Procs |-> "none"]
  /\ crossed = [p \in Procs |-> FALSE] /\ hit = [p \in Procs |-> FALSE]
  /\ poisoned = FALSE /\ runs = 0 /\ faults = 0

--------------------------------------------------------------------------------
(* Steps.                                                                   *)

Go(p, step) == pc' = [pc EXCEPT ![p] = step] /\ UNCHANGED result
Return(p, r) == pc' = [pc EXCEPT ![p] = "idle"] /\ result' = [result EXCEPT ![p] = r]

Books == UNCHANGED <<latest, url, seen, crossed, runs>>
Well == UNCHANGED <<faults, hit, poisoned>>
Target(p) == IF dest[p] = "cache" THEN cache ELSE iso[p]

\* The file that p downloads to.
SetTarget(p, image) ==
  IF dest[p] = "cache" THEN cache' = image /\ UNCHANGED iso
  ELSE iso' = [iso EXCEPT ![p] = image] /\ UNCHANGED cache

\* UpdateISOCache makes the directory if it is missing ...
StatDir(p) ==
  /\ pc[p] = "dir"
  /\ Go(p, IF dir THEN "exists" ELSE "mkdir")
  /\ Well /\ Books /\ UNCHANGED <<dir, cache, dest, temp, open, iso>>

\* ... which fails if another one was faster.
MakeDir(p) ==
  /\ pc[p] = "mkdir"
  /\ IF dir THEN Return(p, "failed") ELSE Go(p, "exists")
  /\ dir' = TRUE
  /\ Well /\ Books /\ UNCHANGED <<cache, dest, temp, open, iso>>

\* Nothing is cached for a URL.
Exists(p) ==
  /\ pc[p] = "exists"
  /\ IF url[p] THEN Go(p, "fetch") /\ dest' = [dest EXCEPT ![p] = "machine"]
     ELSE Go(p, IF cache = Absent THEN "fetch" ELSE "version") /\ dest' = [dest EXCEPT ![p] = "cache"]
  /\ Well /\ Books /\ UNCHANGED <<dir, cache, temp, open, iso>>

\* Wrong variant: an image in the cache is good enough.
VersionUnread(p) ==
  /\ pc[p] = "version"
  /\ Go(p, "copy")
  /\ Well /\ Books /\ UNCHANGED <<dir, cache, dest, temp, open, iso>>

\* isLatest: an image that cannot be read is not the latest one.
Version(p) ==
  /\ pc[p] = "version"
  /\ Go(p, IF cache = latest THEN "copy" ELSE "fetch")
  /\ Well /\ Books /\ UNCHANGED <<dir, cache, dest, temp, open, iso>>

\* Wrong variant: straight into the file.
FetchInPlace(p) ==
  /\ pc[p] = "fetch"
  /\ SetTarget(p, Torn)
  /\ temp' = [temp EXCEPT ![p] = latest]
  /\ Go(p, "remove")
  /\ Well /\ Books /\ UNCHANGED <<dir, dest, open>>

\* getReleaseURL and the copy to a temporary file, for which the directory must be there; what
\* a URL leads to counts as the newest.
Fetch(p) ==
  /\ pc[p] = "fetch"
  /\ IF dest[p] = "cache" /\ ~dir THEN Return(p, "failed") /\ UNCHANGED temp
     ELSE Go(p, "remove") /\ temp' = [temp EXCEPT ![p] = latest]
  /\ Well /\ Books /\ UNCHANGED <<dir, cache, dest, open, iso>>

\* removeFileIfExists: Stat ...
StatTarget(p) ==
  /\ pc[p] = "remove"
  /\ Go(p, IF Target(p) = Absent THEN "rename" ELSE "removing")
  /\ Well /\ Books /\ UNCHANGED <<dir, cache, dest, temp, open, iso>>

\* ... and Remove, which fails if the file has gone.  The deferred removal of the temporary
\* file goes with every return.
Remove(p) ==
  /\ pc[p] = "removing"
  /\ IF Target(p) = Absent
     THEN Return(p, "failed") /\ temp' = [temp EXCEPT ![p] = Absent] /\ UNCHANGED <<cache, iso>>
     ELSE Go(p, "rename") /\ SetTarget(p, Absent) /\ UNCHANGED temp
  /\ Well /\ Books /\ UNCHANGED <<dir, dest, open>>

Rename(p) ==
  /\ pc[p] = "rename"
  /\ SetTarget(p, temp[p])
  /\ temp' = [temp EXCEPT ![p] = Absent]
  /\ IF dest[p] = "cache" THEN Go(p, "copy") ELSE Return(p, "ok")
  /\ Well /\ Books /\ UNCHANGED <<dir, dest, open>>

\* CopyFile opens the image and empties the machine's file.
Copy(p) ==
  /\ pc[p] = "copy"
  /\ IF cache = Absent THEN Return(p, "failed") /\ UNCHANGED <<iso, open>>
     ELSE Go(p, "copying") /\ iso' = [iso EXCEPT ![p] = Torn] /\ open' = [open EXCEPT ![p] = cache]
  /\ Well /\ Books /\ UNCHANGED <<dir, cache, dest, temp>>

\* It reads the open file to its end, whatever becomes of its name, but then asks for its mode.
Copied(p) ==
  /\ pc[p] = "copying"
  /\ iso' = [iso EXCEPT ![p] = open[p]]
  /\ Return(p, IF cache = Absent THEN "failed" ELSE "ok")
  /\ Well /\ Books /\ UNCHANGED <<dir, cache, dest, temp, open>>

Step(p) ==
  \/ StatDir(p) \/ MakeDir(p) \/ Exists(p) \/ Version(p) \/ Fetch(p) \/ StatTarget(p) \/ Remove(p)
  \/ Rename(p) \/ Copy(p) \/ Copied(p)

--------------------------------------------------------------------------------
(* Runs, faults and releases.                                               *)

\* CopyIsoToMachineDir, for a machine that has an image or has none yet.
Begin(p) ==
  /\ pc[p] = "idle" /\ runs < MaxRuns
  /\ runs' = runs + 1
  /\ \E u \in BOOLEAN : url' = [url EXCEPT ![p] = u]
  /\ pc' = [pc EXCEPT ![p] = "dir"]
  /\ result' = [result EXCEPT ![p] = "running"]
  /\ seen' = [seen EXCEPT ![p] = latest]
  /\ crossed' = [q \in Procs |-> IF q = p THEN Running # {} ELSE crossed[q] \/ q \in Running]
  /\ hit' = [hit EXCEPT ![p] = FALSE]
  /\ temp' = [temp EXCEPT ![p] = Absent]
  /\ UNCHANGED <<latest, dir, cache, dest, open, iso, poisoned, faults>>

Fault(p) ==
  /\ faults < MaxFaults
  /\ faults' = faults + 1
  /\ hit' = [hit EXCEPT ![p] = TRUE]
  /\ UNCHANGED <<dir, cache, dest, open, iso>> /\ Books

\* A call fails.  A Stat that fails says that the directory and the cache are there and that
\* the old file is not; an image that cannot be read is not the latest one, but when the
\* newest release is unknown it counts as that.
CallFails(p) ==
  /\ pc[p] # "idle" /\ Fault(p)
  /\ CASE pc[p] = "dir" -> Go(p, "exists") /\ UNCHANGED temp
       [] pc[p] = "exists" /\ ~url[p] -> Go(p, "version") /\ UNCHANGED temp
       [] pc[p] = "version" /\ cache > Torn -> (Go(p, "copy") \/ Go(p, "fetch")) /\ UNCHANGED temp
       [] pc[p] = "version" /\ cache <= Torn -> Go(p, "fetch") /\ UNCHANGED temp
       [] pc[p] = "remove" -> Go(p, "rename") /\ UNCHANGED temp
       [] OTHER -> Return(p, "failed") /\ temp' = [temp EXCEPT ![p] = Absent]
  /\ UNCHANGED poisoned

\* The answer to the download is an error page.
FetchPage(p) ==
  /\ pc[p] = "fetch" /\ (dest[p] = "cache" => dir) /\ Fault(p)
  /\ temp' = [temp EXCEPT ![p] = Torn]
  /\ Go(p, "remove")
  /\ poisoned' = TRUE

Crash(p) ==
  /\ pc[p] # "idle" /\ Fault(p)
  /\ Return(p, "failed")
  /\ UNCHANGED <<temp, poisoned>>

Release ==
  /\ latest < MaxReleases
  /\ latest' = latest + 1
  /\ UNCHANGED <<dir, cache, pc, url, dest, temp, open, iso, seen, result, crossed, hit, poisoned, runs, faults>>

Next ==
  \/ \E p \in Procs : Step(p) \/ Begin(p) \/ CallFails(p) \/ FetchPage(p) \/ Crash(p)
  \/ Release

Spec == Init /\ [][Next]_vars

--------------------------------------------------------------------------------
(* Properties.                                                              *)

Images == -1..latest

TypeOK ==
  /\ latest \in 1..MaxReleases /\ dir \in BOOLEAN /\ cache \in Images
  /\ pc \in [Procs -> {"idle", "dir", "mkdir", "exists", "version", "fetch", "remove", "removing", "rename", "copy",
                   "copying"}]
  /\ url \in [Procs -> BOOLEAN] /\ dest \in [Procs -> {"cache", "machine"}]
  /\ temp \in [Procs -> Images] /\ open \in [Procs -> Images] /\ iso \in [Procs -> Images]
  /\ seen \in [Procs -> 0..latest]
  /\ result \in [Procs -> {"none", "running", "ok", "failed"}]
  /\ crossed \in [Procs -> BOOLEAN] /\ hit \in [Procs -> BOOLEAN] /\ poisoned \in BOOLEAN
  /\ runs \in 0..MaxRuns /\ faults \in 0..MaxFaults

\* No partial download is ever used: "Download to a temp file first then rename it to avoid
\* partial download" (b2d.go:222).  The cache holds a whole image or none, and so does the
\* machine after a success, however many run at once and wherever they die, unless a
\* server's page was taken for an image.
WholeImage ==
  ~poisoned => cache # Torn /\ \A p \in Procs : result[p] = "ok" => iso[p] > Torn

\* A run that nothing disturbs succeeds with the newest release, whatever crashed before it
\* or came from a server (b2d.go:431): the cache repairs itself.
CacheHeals ==
  \A p \in Procs : ~crossed[p] /\ ~hit[p] =>
    /\ result[p] # "failed"
    /\ result[p] = "ok" => iso[p] >= seen[p]

\* The same image is not fetched again: an image of the newest release leaves the cache only
\* for a run that found another one there (b2d.go:431).
LatestKept ==
  [][cache = latest /\ cache' # cache => \E p \in Running : crossed[p] \/ hit[p] \/ seen[p] < latest]_vars

\* No temporary file stays behind, except by a crash (b2d.go:229).
NoTempLeft ==
  \A p \in Procs : pc[p] = "idle" /\ temp[p] # Absent => hit[p]
==================================================================================
