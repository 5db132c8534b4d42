-------------------------------- MODULE VSphere --------------------------------
(***************************************************************************)
(* drivers/vmwarevsphere.  The virtual machine is found by its name, but   *)
(* Remove does nothing unless MachineId is set, and GetMachineId sets it at *)
(* the end of Start.                                                        *)
(***************************************************************************)
EXTENDS DriverSteps

\* kind: --vmwarevsphere-creation-type; from: a machine, template or library item to
\* clone; config: the cloud config file, if one is named, can be read.
Flags == [kind : {"legacy", "library", "vm", "other"}, from : BOOLEAN, config : BOOLEAN]

SetConfigFromFlags(o) == o.config /\ o.kind # "other" /\ (o.kind = "legacy" \/ o.from)

VM == "vm"
Stored == {"vm"}
Unique == {"vm"}
Shared == {}
Foreign == {"vm"}
Uses == {<<"power", "vm">>}

getSoapClient == Call("return")
fetchVM == Call("return")
findFolder == Call("return")
getDatastore == Call("return")

\* Looks up the datacenter, the networks, the host and the resource pool.
preCreate == <<getSoapClient, Call("return")>>

\* Networks, host and resource pool are looked up.  The machine to clone would be, for the
\* creation type "clone"; the types are "vm", "template", "library" and "legacy".
PreCreateCheck(o) == preCreate \o <<findFolder, Call("return")>>

addNetworks == Call("return")
resizeDisk == Call("return")
addConfigParams == Call("return")
addTags == Call("return")
addCustomAttributes == Call("return")

cloudInitGuestInfo == <<Call("return")>>
createCloudInitIso == Call("return")
uploadCloudInitIso == Ensure("seed", "return")
mountCloudInitIso == Call("return")
cloudInit(o) ==
  IF o.kind = "legacy" THEN cloudInitGuestInfo
  ELSE <<createCloudInitIso, uploadCloudInitIso, mountCloudInitIso>>

\* Power on, wait for an address, then GetMachineId.
startNew == <<Ensure("power", "return"), Call("return"), fetchVM, Keep("vm")>>

postCreate(o) ==
  <<addConfigParams>> \o cloudInit(o) \o <<addTags, addCustomAttributes>> \o startNew

provisionVm == <<getSoapClient, Call("return")>>

createLegacy(o) ==
  <<getSoapClient, findFolder, getDatastore, MakeUnseen("vm", "return"), Ensure("iso", "return"),
    Call("return"), addNetworks>> \o postCreate(o) \o provisionVm

createFromVmName(o) ==
  <<getSoapClient, getDatastore, fetchVM, findFolder, MakeUnseen("vm", "return"), addNetworks, resizeDisk>>
    \o postCreate(o)

createFromLibraryName(o) ==
  <<getSoapClient, Call("return"), getDatastore, MakeUnseen("vm", "return"), resizeDisk>> \o postCreate(o)

Create(o) ==
  <<Call("return")>> \o preCreate
    \o CASE o.kind = "legacy" -> <<Call("return")>> \o createLegacy(o)
         [] o.kind = "library" -> createFromLibraryName(o)
         [] OTHER -> createFromVmName(o)

Destroy == Delete("vm", "error", "return", 0)

\* Legacy: an image that is gone ends Remove without an error, the machine still there.
removeIso == <<Call("return"), Delete("iso", "skip", "ignore", 1)>>

\* An error here ends Remove without an error, the machine still there.
removeCloudInitIso == <<Delete("seed", "ok", "succeed", 0)>>

KillRunning == Delete("power", "ok", "return", 0)

RemoveKnown(o) ==
  preCreate \o <<MustExist("vm", "return"), KillRunning, getDatastore>>
    \o (IF o.kind = "legacy" THEN removeIso ELSE removeCloudInitIso)
    \o <<Destroy>>

\* "no guid from config, nothing in vsphere to delete"
Remove(o) == <<IfKnown("vm", Len(RemoveKnown(o)))>> \o RemoveKnown(o)

GetState == [poweredOn |-> "Running", poweredOff |-> "Stopped", suspended |-> "None"]

Blind == "None"
Native ==
  [on |-> "poweredOn", off |-> "poweredOff", via |-> [on |-> {}, off |-> {}, reboot |-> {}],
   other |-> {"suspended"}, up |-> {}]

\* Start does something only in state Stopped; then it waits for ever for an address,
\* unless one is cached.
Start ==
  <<Read>> \o IfSeen({"Stopped"}, <<fetchVM>> \o Perform("on", "return") \o <<Read, UntilUp, fetchVM>>)

\* The guest is asked to shut down.
Stop == <<fetchVM, Ask("guestoff", "return")>>

Kill == <<fetchVM>> \o Perform("off", "return")

\* Stop, Kill if the guest still runs after two minutes, Start.
Restart == Stop \o <<Linger("Running"), Read>> \o IfSeen({"Running"}, Kill) \o Start

Life == Lifecycle(Flags, SetConfigFromFlags, VM, [stored |-> Stored, unique |-> Unique],
                  [shared |-> Shared, foreign |-> Foreign], Uses, PreCreateCheck, Create, Remove)
Powers == PowerTable(GetState, Blind, Native, Start, Stop, Restart, Kill)
================================================================================
