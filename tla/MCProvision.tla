------------------------------ MODULE MCProvision ------------------------------
(***************************************************************************)
(* Provision with one operating system for every provisioner, some that     *)
(* come near two of them, and one for none.                                 *)
(***************************************************************************)
EXTENDS Provision

MCReleases ==
  {Release(id, "", "", 0) : id \in {"boot2docker", "debian", "rancheros", "rhel", "sles"}}
    \cup {Release("manjaro", "arch", "", 0), Release("flatcar", "coreos", "", 0),
          Release("fedora", "", "server", 33), Release("fedora", "", "coreos", 33),
          Release("ubuntu", "debian", "", 1404), Release("ubuntu", "debian", "", 2004),
          Release("ubuntu", "debian", "", 0)}

\* boot2docker.go waits for the port, the others for an answer of the daemon; Arch, SUSE and
\* Red Hat have started it themselves.
WaitsFirst == {"boot2docker", "debian", "ubuntu_systemd", "ubuntu_upstart"}

\* CoreOS, Fedora CoreOS and RancherOS go straight to ConfigureAuth.
NeedsFirst == provisioners \ {"coreos", "fedora_coreos", "rancheros"}

Both == {"external", "native"}
Native == {"native"}
================================================================================
