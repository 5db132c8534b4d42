-------------------------------- MODULE Provision --------------------------------
(***************************************************************************)
(* One machine and the commands that provision it: create, provision,       *)
(* regenerate-certs and upgrade, one after another, each of which may be    *)
(* cut off at any step.  The guest keeps what a step did; the next command  *)
(* starts from there.  A guest that was told to reboot goes down and comes  *)
(* up in its own time, during this command or a later one.                  *)
(*                                                                          *)
(* The daemon reads its options and certificates when it starts, and        *)
(* systemd reads the options when it is told to reload.  A certificate has  *)
(* the number of the command that signed it and of the CA it was signed     *)
(* with; CA and client certificate are module Certs.                        *)
(***************************************************************************)
EXTENDS Provisioners, Integers

CONSTANTS
  Releases,     \* the operating systems
  SSHClients,   \* the SSH clients in use: "external", "native"
  MaxCommands,  \* bound: commands
  MaxFaults,    \* bound: failures and interventions
  MayStick,     \* provisioners that wait for a daemon they did not start
  MayChoke      \* provisioners that need the old daemon before they bring new certificates

ASSUME BoundsAssumption == MaxCommands \in Nat \ {0} /\ MaxFaults \in Nat

\* A system that is like Arch or CoreOS is not one that another provisioner knows by name.
ASSUME ReleasesAssumption ==
  \A r \in Releases :
    /\ r.version \in Nat
    /\ r.like \in {"arch", "coreos"} => r.id \notin (provisioners \cup {"ubuntu"}) \ {r.like}

VARIABLES
  machine,      \* what does not change: release, swarm, vbox, ssh, activates
  os,           \* the provisioner of this command; "none" before the first
  guest,        \* see Guests
  ca,           \* the number of the CA
  server,       \* the server's certificate in the store
  copied,       \* the CA whose files are in the machine's directory
  cmd, at,      \* the command that runs, or ran last, and its next step
  began,        \* what it found: the power, the engine and its age, the daemon, the files, the containers
  running,      \* it runs
  rebooted,     \* the guest was down for a reboot meanwhile
  cmds, faults, \* how many commands and failures there were
  clean,        \* no failure during this command
  last          \* how the last command ended

vars == <<machine, os, guest, ca, server, copied, cmd, at, began, running, rebooted, cmds, faults, clean,
          last>>

NoCert == [no |-> 0, ca |-> 0, master |-> FALSE]
Down == [up |-> FALSE, tls |-> FALSE, ca |-> 0, cert |-> NoCert]

\* Docker comes with the image.
Images == {"boot2docker", "coreos", "fedora_coreos", "rancheros"}

\* Packages for Debian and Ubuntu start the daemon they install.
Apt == {"debian", "ubuntu_systemd", "ubuntu_upstart"}

Init ==
  /\ machine \in [release : Releases, swarm : {"no", "master", "agent"}, vbox : BOOLEAN,
                  ssh : SSHClients, activates : BOOLEAN]
  /\ machine.vbox => machine.release.id = "rancheros"
  /\ \A p \in provisioners :
       CompatibleWithHost(p, machine.release) => (machine.activates => p \in Systemd)
  /\ os = "none"
  /\ \E d \in {"none", "old", "ce"} :
       LET image == \E p \in Images : CompatibleWithHost(p, machine.release)
       IN /\ image <=> d = "ce"
          /\ guest = [on |-> TRUE, boot |-> "no", iso |-> TRUE, docker |-> d, dir |-> d = "old", ca |-> 0, cert |-> NoCert, key |-> 0,
                      conf |-> FALSE, loaded |-> FALSE, containers |-> {},
                      daemon |-> [Down EXCEPT !.up = d # "none"]]
  /\ ca = 1 /\ server = NoCert /\ copied = 0
  /\ cmd = "none" /\ at = 1 /\ running = FALSE /\ rebooted = FALSE
  /\ began = [old |-> FALSE, on |-> TRUE, bare |-> FALSE, up |-> FALSE, torn |-> FALSE, trusted |-> FALSE, containers |-> {}]
  /\ cmds = 0 /\ faults = 0 /\ clean = TRUE /\ last = "none"

--------------------------------------------------------------------------------
(* The guest.                                                               *)

\* systemctl daemon-reload; the others read the options when they start.
Reload(g) == [g EXCEPT !.loaded = g.conf]

\* The files are not all there, or the key is of another certificate.
Torn(g) == g.ca = 0 \/ g.cert.no = 0 \/ g.cert.no # g.key

\* The daemon refuses to start with such files.
CanStart(g) == g.docker # "none" /\ (g.loaded => ~Torn(g))

\* The daemon makes its directory when it starts.
Started(g) ==
  [g EXCEPT !.dir = TRUE,
            !.daemon = [up |-> TRUE, tls |-> g.loaded, ca |-> IF g.loaded THEN g.ca ELSE 0,
                        cert |-> IF g.loaded THEN g.cert ELSE NoCert]]
Stopped(g) == [g EXCEPT !.daemon = Down]
StartedIfPossible(g) == IF CanStart(g) THEN Started(g) ELSE Stopped(g)

\* It answers over SSH: it is on, and not on the way of a reboot.
Reachable(g) == g.on /\ g.boot # "down"

\* The daemon of boot2docker listens on the port from the beginning, with certificates of its own.
Listens(g) == g.daemon.up /\ (g.daemon.tls \/ os = "boot2docker")

\* The client and the daemon accept each other.
Trusted(g) == g.daemon.tls /\ g.daemon.ca = ca /\ g.daemon.cert.ca = ca

--------------------------------------------------------------------------------
(* The steps.                                                               *)

\* regenerate-certs calls Provision without the swarm options.
Program(c, p, s, v, b) ==
  CASE c = "create" -> Provision(p, s) \o <<"check">>
    [] c = "provision" -> Provision(p, s)
    [] c = "regenerate" -> Provision(p, "no")
    [] c = "upgrade" -> (IF b.on THEN <<>> ELSE <<"poweron", "port">>) \o Upgrade(p, s, v, b.old)
    [] OTHER -> <<>>

\* The same as a table.
Kinds == {"none", "create", "provision", "regenerate", "upgrade"} \X provisioners
           \X {"no", "master", "agent"} \X BOOLEAN \X BOOLEAN \X BOOLEAN
Programs == [x \in Kinds |-> Program(x[1], x[2], x[3], x[4], [on |-> x[5], old |-> x[6]])]

\* The steps that start the daemon, that stop it or may stop it, and that write its files.
Starts == {"start", "restart", "responding"}
Stops == {"stop", "poweroff", "poweron"}
Writes == {"uploadca", "uploadcert", "uploadkey", "options"}

\* The steps of ConfigureAuth follow upon the first k, which touch neither certificates nor
\* Docker's options and do not stop it; the ones after them only make containers.
LastAuth(P, k) ==
  /\ k + Len(ConfigureAuth) <= Len(P)
  /\ \A i \in 1..Len(ConfigureAuth) : P[k + i] = ConfigureAuth[i]
  /\ \A i \in 1..k : P[i] \notin {"copy", "sign", "stop", "uploadca", "uploadcert", "uploadkey", "options"}
  /\ \A i \in k + Len(ConfigureAuth) + 1..Len(P) : P[i] \in {"call", "master", "agent", "check"}

\* Docker is asked for its version, and at last restarted with the files that it has.
Restarts(P) ==
  /\ P[Len(P)] = "restart"
  /\ \E i \in 1..Len(P) - 1 : P[i] = "version"
  /\ \A i \in 1..Len(P) : P[i] \notin Writes \cup {"sign", "stop", "purge"}

\* The commands do one or the other, whatever the provisioner.
ASSUME OrderAssumption ==
  \A x \in Kinds :
    /\ Programs[x] \in Seq(STRING)
    /\ \/ x[1] = "none"
       \/ \E k \in 0..Len(Programs[x]) : LastAuth(Programs[x], k)
       \/ x[1] = "upgrade" /\ Restarts(Programs[x])

\* Only RancherOS is rebooted, and its upgrade restarts Docker.
ASSUME RebootAssumption ==
  \A x \in Kinds :
    /\ \A i \in 1..Len(Programs[x]) : Programs[x][i] = "reboot" => x[2] = "rancheros"
    /\ x[1] = "upgrade" /\ x[2] = "rancheros" => Restarts(Programs[x])

\* Steps that are one command over SSH, and whose error counts.
Remote == {"call", "install", "start", "restart", "stop", "responding", "mkdir", "uploadca", "uploadcert",
           "uploadkey", "options", "purge"}

\* One of the steps A is before step i, and none of the steps B between them.
Since(P, i, A, B) == \E j \in 1..i - 1 : P[j] \in A /\ \A m \in j + 1..i - 1 : P[m] \notin B

\* ConfigureAuth has written the options before step i.
Configured(P, i) == \E k \in 0..Len(P) : LastAuth(P, k) /\ i > k + 10

\* Docker is there; so is its directory.
HasDocker(P, p, i) == p \in Images \/ Since(P, i, {"install", "version"}, {"purge"})
HasDir(P, p, i) == Since(P, i, {"mkdir"}, {}) \/ (p \notin Images /\ Since(P, i, Starts, {}))

\* The daemon runs, unless it was down from the beginning.
Awaits(P, p, i) ==
  p \in MayStick \cap (Apt \cup {"boot2docker"}) /\ ~Since(P, i, Stops, {}) /\ HasDocker(P, p, i)

\* What step i needs, the steps before it have brought about, or the command found it so.
Ready(x, i) ==
  LET P == Programs[x]
      p == x[2]
  IN /\ P[i] \in Remote \cup {"port"} => ~Since(P, i, {"poweroff"}, {"poweron"})
     /\ P[i] \in Starts \cup {"stop", "options"} => HasDocker(P, p, i)
     /\ P[i] \in {"uploadca", "uploadcert", "uploadkey"} => HasDir(P, p, i)
     /\ P[i] \in Starts \cup {"install"} =>
          Configured(P, i) \/ (~Since(P, i, Writes, {}) /\ (x[1] = "upgrade" \/ p \in MayChoke))
     /\ P[i] = "responding" => Since(P, i, Starts, Stops \cup {"purge"}) \/ Awaits(P, p, i)
     /\ P[i] = "port" => Configured(P, i) \/ (p = "boot2docker" /\ Awaits(P, p, i))
     /\ P[i] \in {"master", "agent", "check"} => Configured(P, i)
     /\ P[i] \in {"master", "agent"} => x[1] # "regenerate" /\ ~Since(P, i, {P[i]}, {})
     /\ P[i] = "poweron" => x[1] = "upgrade"
     /\ P[i] = "version" => x[1] = "upgrade" /\ ~Since(P, i, Starts \cup Stops \cup {"install", "purge"}, {})
     /\ P[i] = "refused" => x[1] = "upgrade" /\ x[6] /\ p \in {"arch"} \cup SUSEs

\* So it is in every command that finds the machine on; and none purges the Docker of an image.
ASSUME ReadyAssumption ==
  \A x \in Kinds : \A i \in 1..Len(Programs[x]) :
    /\ x[5] => Ready(x, i)
    /\ Programs[x][i] = "purge" => x[2] \notin Images

Steps == Programs[<<cmd, os, machine.swarm, machine.vbox, began.on, began.old>>]
step == Steps[at]

Works ==
  /\ step \in Remote \cup {"port"} => Reachable(guest)
  /\ CASE step \in {"start", "responding"} ->
            guest.daemon.up \/ (step = "start" /\ CanStart(Reload(guest))) \/ (machine.activates /\ CanStart(guest))
       [] step = "restart" -> CanStart(Reload(guest))
       [] step = "stop" -> guest.docker # "none"
       [] step \in {"uploadca", "uploadcert", "uploadkey"} -> guest.dir
       [] step = "options" -> os \in Systemd => guest.docker # "none"
       [] step = "port" -> Listens(guest)
       [] step = "poweron" -> guest.iso
       [] step = "refused" -> FALSE
       [] step \in {"version", "check"} -> Trusted(guest)
       [] step \in {"master", "agent"} -> Trusted(guest) /\ step \notin guest.containers
       [] OTHER -> TRUE

\* Wrong variant: the daemon is not started.
InstalledIdle(g) ==
  IF g.docker # "none" THEN g ELSE Reload([g EXCEPT !.docker = "ce"])

Installed(g) ==
  IF g.docker # "none" THEN g
  ELSE LET h == Reload([g EXCEPT !.docker = "ce"])
       IN IF os \in Apt THEN StartedIfPossible(h) ELSE h

Effect ==
  CASE step = "install" -> Installed(guest)
    [] step = "start" -> IF guest.daemon.up THEN Reload(guest) ELSE StartedIfPossible(Reload(guest))
    [] step = "restart" -> StartedIfPossible(Reload(guest))
    [] step = "responding" -> IF guest.daemon.up THEN guest ELSE StartedIfPossible(guest)
    [] step = "stop" -> Stopped(guest)
    [] step = "mkdir" -> [guest EXCEPT !.dir = TRUE]
    [] step = "uploadca" -> [guest EXCEPT !.ca = ca]
    [] step = "uploadcert" -> [guest EXCEPT !.cert = server]
    [] step = "uploadkey" -> [guest EXCEPT !.key = server.no]
    [] step = "options" -> [guest EXCEPT !.conf = TRUE]
    [] step = "purge" -> Stopped([guest EXCEPT !.docker = "none"])
    [] step = "poweroff" -> Stopped([guest EXCEPT !.on = FALSE, !.boot = "no"])
    [] step = "copyiso" -> [guest EXCEPT !.iso = TRUE]
    [] step = "poweron" -> StartedIfPossible(Reload([guest EXCEPT !.on = TRUE, !.boot = "no"]))
    [] step = "reboot" -> IF Reachable(guest) THEN [guest EXCEPT !.boot = "told"] ELSE guest
    [] step \in {"master", "agent"} -> [guest EXCEPT !.containers = @ \cup {step}]
    [] OTHER -> guest

\* Wrong variant: the certificate has the number of the next command.
GenerateCertNext == IF step = "sign" THEN [no |-> cmds + 1, ca |-> ca, master |-> FALSE] ELSE server

\* Wrong variant: signed with the CA of the time of create.
GenerateCertOldCA ==
  IF step = "sign" THEN [no |-> cmds, ca |-> IF server.no = 0 THEN ca ELSE server.ca,
                         master |-> machine.swarm = "master" /\ cmd # "regenerate"]
  ELSE server

\* The certificate for a swarm master may also be used by a client.
GenerateCert ==
  IF step = "sign" THEN [no |-> cmds, ca |-> ca, master |-> machine.swarm = "master" /\ cmd # "regenerate"]
  ELSE server

Busy == running /\ at <= Len(Steps)

Same == UNCHANGED <<machine, os, ca, cmd, began, cmds, rebooted>>

StepWorks ==
  /\ Busy /\ Works
  /\ guest' = Effect
  /\ server' = GenerateCert
  /\ copied' = IF step = "copy" THEN ca ELSE copied
  /\ at' = at + 1
  /\ UNCHANGED <<running, last, faults, clean>> /\ Same

Ends(how) == running' = FALSE /\ last' = how /\ UNCHANGED <<at, copied, server>>

\* A daemon that cannot be started again is down.
StepFails ==
  /\ Busy /\ ~Works
  /\ guest' = IF step \in {"start", "restart"} /\ Reachable(guest) THEN Effect ELSE guest
  /\ Ends("failed")
  /\ UNCHANGED <<faults, clean>> /\ Same

Done ==
  /\ running /\ at > Len(Steps)
  /\ Ends("ok")
  /\ UNCHANGED <<guest, faults, clean>> /\ Same

Fault == faults < MaxFaults /\ faults' = faults + 1 /\ clean' = FALSE

\* The step fails, or the client dies; the step may have done its work.  The image is
\* copied over the one that the machine boots from.
Interrupted ==
  /\ Busy /\ Fault
  /\ guest' \in {guest} \cup (IF Works THEN {Effect} ELSE {})
                  \cup (IF step = "copyiso" THEN {[guest EXCEPT !.iso = FALSE]} ELSE {})
  /\ Ends("failed") /\ Same

\* NativeClient.Output: a connection that fails is a success without output, whether it is
\* lost or the guest is down.  With both clients nobody looks at the result of the reboot.
OutputLost ==
  /\ Busy
  /\ \/ ((machine.ssh = "native" /\ step \in Remote) \/ step = "reboot") /\ Fault
     \/ machine.ssh = "native" /\ step \in Remote /\ guest.boot = "down" /\ UNCHANGED <<faults, clean>>
  /\ at' = at + 1
  /\ UNCHANGED <<guest, server, copied, running, last>> /\ Same

\* Somebody on the guest uses the socket that starts the daemon.
Activated ==
  /\ machine.activates /\ Reachable(guest) /\ ~guest.daemon.up /\ CanStart(guest)
  /\ Fault
  /\ guest' = Started(guest)
  /\ UNCHANGED <<server, copied, at, running, last>> /\ Same

\* The guest does what the reboot told it, whatever the client does meanwhile.
GuestDown ==
  /\ guest.boot = "told"
  /\ guest' = Stopped([guest EXCEPT !.boot = "down"])
  /\ rebooted' = (rebooted \/ running)
  /\ UNCHANGED <<machine, os, ca, server, copied, cmd, at, began, running, cmds, faults, clean, last>>

GuestUp ==
  /\ guest.boot = "down"
  /\ guest' = StartedIfPossible(Reload([guest EXCEPT !.boot = "no"]))
  /\ UNCHANGED <<server, copied, at, running, faults, clean, last>> /\ Same

\* Another command replaces the CA, which is outdated.
Renewed ==
  /\ Fault
  /\ ca' = ca + 1
  /\ last' = IF running THEN last ELSE "renewed"
  /\ UNCHANGED <<machine, os, guest, server, copied, cmd, at, began, running, rebooted, cmds>>

\* DetectProvisioner goes through a map: in any order.
Start(c) ==
  /\ ~running /\ cmds < MaxCommands
  /\ cmds = 0 <=> c = "create"
  /\ \E p \in provisioners : CompatibleWithHost(p, machine.release) /\ os' = p
  /\ cmd' = c /\ at' = 1 /\ running' = TRUE /\ clean' = TRUE /\ last' = "running"
  /\ cmds' = cmds + 1 /\ rebooted' = (guest.boot = "down")
  /\ began' = [old |-> guest.docker = "old", on |-> guest.on, bare |-> guest.docker = "none", up |-> guest.daemon.up,
               torn |-> guest.conf /\ Torn(guest), trusted |-> Trusted(guest), containers |-> guest.containers]
  /\ UNCHANGED <<machine, guest, ca, server, copied, faults>>

Next ==
  \/ StepWorks \/ StepFails \/ Done \/ Interrupted \/ OutputLost \/ Activated \/ Renewed
  \/ GuestDown \/ GuestUp
  \/ \E c \in {"create", "provision", "regenerate", "upgrade"} : Start(c)

Spec == Init /\ [][Next]_vars

--------------------------------------------------------------------------------
(* Properties.                                                              *)

Certs == [no : 0..MaxCommands, ca : 0..MaxFaults + 1, master : BOOLEAN]
Daemons == [up : BOOLEAN, tls : BOOLEAN, ca : 0..MaxFaults + 1, cert : Certs]
Guests == [on : BOOLEAN, boot : {"no", "told", "down"}, iso : BOOLEAN, docker : {"none", "old", "ce"}, dir : BOOLEAN, ca : 0..MaxFaults + 1,
           cert : Certs, key : 0..MaxCommands, conf : BOOLEAN, loaded : BOOLEAN,
           containers : SUBSET {"master", "agent"}, daemon : Daemons]

TypeOK ==
  /\ os \in provisioners \cup {"none"}
  /\ guest \in Guests
  /\ ca \in 1..MaxFaults + 1 /\ server \in Certs /\ copied \in 0..MaxFaults + 1
  /\ cmd \in {"none", "create", "provision", "regenerate", "upgrade"}
  /\ at \in Nat \ {0} /\ running \in BOOLEAN /\ rebooted \in BOOLEAN /\ clean \in BOOLEAN
  /\ cmds \in 0..MaxCommands /\ faults \in 0..MaxFaults
  /\ server.no <= cmds
  /\ last \in {"none", "running", "ok", "failed", "renewed"}

\* A command that succeeded and was not disturbed, whatever happened to those before it, has
\* left a daemon that runs with the certificate of the store and that the client and the
\* files in the machine's directory fit; and the certificate lets a swarm master be a
\* client, unless regenerate-certs made it (host.go:268).  While the guest reboots, which
\* nobody waits for (rancheros.go:172), there is no daemon.  A provision that the reboot
\* of an earlier upgrade falls into may leave a daemon with the old files: it started
\* between the stop and the start.  And an upgrade whose restart the native client could
\* not send leaves a daemon only if it found whole files.
OkMeansServed ==
  last = "ok" /\ clean =>
    /\ \/ guest.boot = "down"
       \/ Trusted(guest)
       \/ rebooted /\ (cmd # "upgrade" \/ (began.torn /\ machine.ssh = "native"))
    /\ cmd # "upgrade" /\ ~rebooted =>
         copied = ca /\ (guest.boot = "down" \/ guest.daemon.cert = server)
    /\ cmd \in {"create", "provision"} => server.master = (machine.swarm = "master")

\* A command that nothing disturbs succeeds, whatever an earlier one left behind.  It fails
\* only if it found the machine off; or Docker there but down, and waits for it without starting it
\* (MayStick); or Docker's files torn, and needs it all the same before it replaces
\* them (MayChoke); or the swarm containers there already; or, for upgrade, an
\* engine it cannot ask for its version, cannot purge, or restarts on torn files, or an
\* image that is not whole; or if the guest was down on the way of a reboot: its own, as
\* Upgrade restarts Docker over SSH right after it sent the reboot (host.go:243), or that of an upgrade
\* before it.
RetryConverges ==
  last = "failed" /\ clean =>
    \/ rebooted
    \/ ~began.on /\ cmd # "upgrade"
    \/ ~began.up /\ ~began.bare /\ os \in MayStick /\ ~machine.activates
    \/ began.torn /\ os \in MayChoke
    \/ began.containers # {} /\ cmd # "regenerate"
    \/ cmd = "upgrade" /\ (~guest.iso \/ ~began.trusted \/ began.torn \/ (began.old /\ os \in {"arch"} \cup SUSEs))

\* A daemon that serves is stopped only when its new certificate is there: what fails on
\* this side (utils.go:63 to 115) does not cost the machine its Docker.  Removing an old
\* engine, replacing the image and a reboot are the exceptions.
NoIdleOutage ==
  [][guest.daemon.tls /\ ~guest'.daemon.up /\ Reachable(guest') /\ guest'.docker # "none"
       => server.no > guest.daemon.cert.no]_vars

\* A machine has the same provisioner in every command, although DetectProvisioner asks them
\* in any order (provisioner.go:122).
SameProvisioner == [][os # "none" => os' = os]_vars

\* Provision copies the needed certificates to the server (provisioner.go:73): with success,
\* the daemon has the certificate that was signed.
CertsCopied ==
  last = "ok" /\ cmd \in {"create", "provision"} => guest.daemon.cert = server
==================================================================================
