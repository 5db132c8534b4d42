-------------------------------- MODULE MCHosts --------------------------------
(***************************************************************************)
(* HostActions with the real drivers: each alone, and some in pairs.        *)
(***************************************************************************)
EXTENDS HostActions, Drivers

MCFleets ==
  {<<d>> : d \in DOMAIN runPower} \cup {<<"none", "digitalocean">>, <<"rackspace", "vmwarefusion">>}

MCCommands == {"start", "stop", "kill", "restart", "upgrade", "provision", "ip"}

\* The reboot is asked for and not waited for.
KnownEager == {"amazonec2", "digitalocean", "generic", "openstack", "rackspace", "softlayer"}

\* hyperv.go:313 and vsphere.go:187 wait for an address, hyperv.go:330 and virtualbox.go:628
\* for a machine to stop, without a bound.
KnownHangs == {"hyperv", "virtualbox", "vmwarevsphere"}
================================================================================
