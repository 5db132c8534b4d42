-------------------------------- MODULE Drivers --------------------------------
(***************************************************************************)
(* The drivers the plugin binary serves (cmd/rancher-machine), but         *)
(* amazonec2, whose life is module EC2Machine, and what each is known not   *)
(* to do.                                                                    *)
(***************************************************************************)
EXTENDS DriverSteps

AZ == INSTANCE Azure
EC == INSTANCE AmazonEC2
DO == INSTANCE DigitalOcean
EX == INSTANCE Exoscale
FU == INSTANCE Fusion
GE == INSTANCE Generic
GC == INSTANCE GoogleCompute
HV == INSTANCE HyperV
NO == INSTANCE NoDriver
OS == INSTANCE OpenStack
RA == INSTANCE Rackspace
SL == INSTANCE SoftLayer
VB == INSTANCE VirtualBox
VC == INSTANCE VCloudAir
VS == INSTANCE VSphere

runDriver ==
  [azure |-> AZ!Life, digitalocean |-> DO!Life, exoscale |-> EX!Life, vmwarefusion |-> FU!Life,
   generic |-> GE!Life, google |-> GC!Life, hyperv |-> HV!Life, none |-> NO!Life,
   openstack |-> OS!Life, rackspace |-> RA!Life, softlayer |-> SL!Life, virtualbox |-> VB!Life,
   vmwarevcloudair |-> VC!Life, vmwarevsphere |-> VS!Life]

\* The power operations, amazonec2 included.
runPower ==
  [amazonec2 |-> EC!Powers, azure |-> AZ!Powers, digitalocean |-> DO!Powers, exoscale |-> EX!Powers,
   vmwarefusion |-> FU!Powers, generic |-> GE!Powers, google |-> GC!Powers, hyperv |-> HV!Powers,
   none |-> NO!Powers, openstack |-> OS!Powers, rackspace |-> RA!Powers, softlayer |-> SL!Powers,
   virtualbox |-> VB!Powers, vmwarevcloudair |-> VC!Powers, vmwarevsphere |-> VS!Powers]

DriverNames == DOMAIN runDriver

Exceptions(f) == [d \in DriverNames |-> IF d \in DOMAIN f THEN f[d] ELSE {}]

\* What a create that fails may leave behind with no record of its id: the key when the
\* machine cannot be made (digitalocean.go:254, openstack.go:484, softlayer.go); in
\* exoscale.go:633 the machine too, if the key's deletion fails; everything up to the last
\* step where the id is assigned at the end (vcloudair.go:371, vsphere.go).
KnownLeaks == Exceptions(
  [digitalocean |-> {"key"}, exoscale |-> {"key", "vm"}, openstack |-> {"key"},
   rackspace |-> {"key"}, softlayer |-> {"key"},
   vmwarevcloudair |-> {"vapp", "power", "mapping"},
   vmwarevsphere |-> {"vm", "power", "iso", "seed"}])

\* What an rm that succeeds may leave behind: the disk, or the container of an unmanaged
\* disk, if the machine is gone already (azureutil.go:461); a running machine, if "vmrun
\* list" fails (fusion_darwin.go:467).
KnownLeftovers == Exceptions(
  [azure |-> {"disk", "container"}, vmwarefusion |-> {"power"}])

\* Drivers in which an rm that meets no fault fails because what it deletes is gone.
KnownStuck == {"exoscale", "hyperv", "openstack", "rackspace", "softlayer", "vmwarevsphere"}

\* Drivers whose rm fails, with a panic, if the record has no id of what it deletes
\* (digitalocean.go:376).
KnownPanics == {"digitalocean"}

\* What an rm may delete although another owner had it under the same name: the driver does
\* not ask before it creates (hyperv.go, virtualbox.go), creates or updates (azureutil.go:183),
\* takes a failed lookup for "there is none" (google.go), or is told to use it
\* (--google-use-existing).
KnownClobbers == Exceptions(
  [azure |-> {"nic", "ip", "nsg", "disk", "container"}, google |-> {"instance", "disk"},
   hyperv |-> {"vm"}, virtualbox |-> {"vm"}])

\* What the platform deletes although another machine has begun to use it after the driver
\* looked (azureutil.go:544).
KnownRaces == Exceptions([azure |-> {"storage"}])

\* Drivers whose Create may succeed without having made a machine (exoscale.go:518).
KnownPretenders == {"exoscale"}
================================================================================
