------------------------------ MODULE Provisioners ------------------------------
(***************************************************************************)
(* libmachine/provision: which provisioner takes a machine, and what each   *)
(* does to it.  Provision is a sequence of steps, most of them a command    *)
(* over SSH; the first that fails ends it with an error, and nothing is     *)
(* undone.  Module Provision says what the steps do to the guest.           *)
(*                                                                          *)
(* "call" stands for a step that changes nothing that is followed here: a   *)
(* query, the host name, a package other than Docker.                       *)
(***************************************************************************)
EXTENDS Naturals, Sequences

\* os-release, as NewOsRelease reads it; version 0 is one that is not a number.
Release(id, like, variant, version) == [id |-> id, like |-> like, variant |-> variant, version |-> version]

FirstUbuntuSystemdVersion == 1504

\* Wrong variant: Fedora takes Fedora CoreOS too.
CompatibleLax(p, r) ==
  CASE p \in {"arch", "coreos"} -> p \in {r.id, r.like}
    [] p = "fedora_coreos" -> r.id = "fedora" /\ r.variant = "coreos"
    [] p = "ubuntu_systemd" -> r.id = "ubuntu" /\ r.version >= FirstUbuntuSystemdVersion
    [] p = "ubuntu_upstart" -> r.id = "ubuntu" /\ r.version \in 1..FirstUbuntuSystemdVersion - 1
    [] OTHER -> r.id = p

CompatibleWithHost(p, r) ==
  CASE p \in {"arch", "coreos"} -> p \in {r.id, r.like}
    [] p = "fedora" -> r.id = "fedora" /\ r.variant # "coreos"
    [] p = "fedora_coreos" -> r.id = "fedora" /\ r.variant = "coreos"
    [] p = "ubuntu_systemd" -> r.id = "ubuntu" /\ r.version >= FirstUbuntuSystemdVersion
    [] p = "ubuntu_upstart" -> r.id = "ubuntu" /\ r.version \in 1..FirstUbuntuSystemdVersion - 1
    [] OTHER -> r.id = p

\* RedHatProvisioner with another name.
RedHats == {"rhel", "centos", "fedora", "ol"}

\* SUSE's three names; the comparison ignores case.
SUSEs == {"opensuse", "sled", "sles"}

provisioners == {"arch", "boot2docker", "coreos", "debian", "fedora_coreos", "rancheros",
                 "ubuntu_systemd", "ubuntu_upstart"} \cup RedHats \cup SUSEs

\* SystemdProvisioner is embedded: Service reloads the units before a start.
Systemd == provisioners \ {"boot2docker", "rancheros", "ubuntu_upstart"}

\* Wrong variant: Docker is stopped before there is a certificate.
ConfigureAuthStopFirst ==
  <<"call", "stop", "copy", "sign", "call", "uploadca", "uploadcert", "uploadkey", "call",
    "options", "start", "port">>

\* The address is asked for, the client's files are copied to the machine's directory and
\* the server's certificate is signed; then Docker is stopped, its bridge deleted, the three
\* files uploaded, the options written, and Docker is started and waited for.
ConfigureAuth ==
  <<"call", "copy", "sign", "stop", "call", "uploadca", "uploadcert", "uploadkey", "call",
    "options", "start", "port">>

\* Address and URL; then one container for a master and one for an agent.
configureSwarm(swarm) ==
  CASE swarm = "no" -> <<>>
    [] swarm = "master" -> <<"call", "master", "agent">>
    [] swarm = "agent" -> <<"call", "agent">>

decideStorageDriver == <<"call">>
SetHostname == <<"call", "call">>
\* The last command makes a directory below that of Docker's options.
SetHostnameRancherOS == <<"call">> \o SetHostname \o <<"mkdir">>

\* apt-get update and apt-get install, each again while the lock is held.
aptPackage == <<"call", "call">>
Package(p) ==
  CASE p \in {"debian", "ubuntu_systemd", "ubuntu_upstart"} -> aptPackage
    [] p \in {"boot2docker", "coreos", "fedora_coreos"} -> <<>>
    [] OTHER -> <<"call">>

ArchProvision(swarm) ==
  decideStorageDriver \o <<"call">> \o SetHostname \o Package("arch")
    \o <<"install", "start", "responding">> \o ConfigureAuth \o configureSwarm(swarm) \o <<"call">>

Boot2DockerProvision(swarm) ==
  <<"call", "port", "mkdir">> \o ConfigureAuth \o configureSwarm(swarm)

\* CoreOS and Fedora CoreOS.
CoreOSProvision(swarm) == SetHostname \o <<"mkdir">> \o ConfigureAuth \o configureSwarm(swarm)
FedoraCoreOSProvision(swarm) == <<"call", "mkdir">> \o ConfigureAuth \o configureSwarm(swarm)

DebianProvision(swarm) ==
  decideStorageDriver \o <<"call">> \o SetHostname \o Package("debian")
    \o <<"install", "responding">> \o ConfigureAuth \o configureSwarm(swarm) \o <<"call">>

\* selectDocker runs the install script unless its URL is the default one.
RancherProvision(swarm) ==
  SetHostnameRancherOS \o <<"call">> \o ConfigureAuth \o configureSwarm(swarm)

installDocker == <<"install", "restart", "call">>
RedHatProvision(swarm) ==
  decideStorageDriver \o SetHostname \o Package("rhel") \o <<"call">> \o installDocker
    \o <<"responding", "mkdir">> \o ConfigureAuth \o configureSwarm(swarm)

configureFirewall == <<"call", "call">>
SUSEProvision(swarm) ==
  <<"call">> \o decideStorageDriver \o SetHostname \o Package("sles") \o <<"install">>
    \o configureFirewall \o <<"start", "responding">> \o ConfigureAuth \o configureSwarm(swarm) \o <<"call">>

UbuntuSystemdProvision(swarm) ==
  decideStorageDriver \o SetHostname \o Package("ubuntu_systemd") \o <<"install", "responding">>
    \o ConfigureAuth \o configureSwarm(swarm) \o <<"call">>

UbuntuProvision(swarm) ==
  decideStorageDriver \o SetHostname \o Package("ubuntu_upstart")
    \o <<"install", "responding", "mkdir">> \o ConfigureAuth \o configureSwarm(swarm)

Provision(p, swarm) ==
  CASE p = "arch" -> ArchProvision(swarm)
    [] p = "boot2docker" -> Boot2DockerProvision(swarm)
    [] p = "coreos" -> CoreOSProvision(swarm)
    [] p = "debian" -> DebianProvision(swarm)
    [] p = "fedora_coreos" -> FedoraCoreOSProvision(swarm)
    [] p = "rancheros" -> RancherProvision(swarm)
    [] p = "ubuntu_systemd" -> UbuntuSystemdProvision(swarm)
    [] p = "ubuntu_upstart" -> UbuntuProvision(swarm)
    [] p \in RedHats -> RedHatProvision(swarm)
    [] p \in SUSEs -> SUSEProvision(swarm)

\* Package(docker-engine, Purge).  pacman and zypper get a command line without an action.
Purge(p) ==
  CASE p \in {"arch"} \cup SUSEs -> <<"refused">>
    [] p \in {"coreos", "fedora_coreos"} -> <<>>
    [] OTHER -> <<"purge">>

upgradeIso == <<"poweroff", "copyiso", "poweron">>

\* Package(docker, Upgrade); vbox: the machine is one of VirtualBox.
PackageUpgrade(p, vbox) ==
  CASE p = "boot2docker" \/ (p = "rancheros" /\ vbox) -> upgradeIso
    [] p = "rancheros" -> <<"call", "reboot">>
    [] OTHER -> Package(p)

\* Upgrade, once the machine runs: an engine from before "ce" is purged and installed anew,
\* but not where Docker comes with the image.
Upgrade(p, swarm, vbox, old) ==
  <<"call", "version">>
    \o IF old /\ p \notin {"rancheros", "boot2docker"} THEN Purge(p) \o <<"call">> \o Provision(p, swarm)
       ELSE PackageUpgrade(p, vbox) \o <<"restart">>
=================================================================================
