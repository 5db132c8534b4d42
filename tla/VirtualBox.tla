------------------------------ MODULE VirtualBox ------------------------------
(***************************************************************************)
(* drivers/virtualbox.  The virtual machine is addressed by its name.  All *)
(* machines share the host-only interface and its DHCP server.              *)
(***************************************************************************)
EXTENDS DriverSteps

\* import: --virtualbox-import-boot2docker-vm; share: a folder to share; vtx: check VT-x.
Flags == [import : BOOLEAN, share : BOOLEAN, vtx : BOOLEAN]
SetConfigFromFlags(o) == TRUE

VM == "vm"
Stored == {}
Unique == {}
Shared == {"hostonlyif", "dhcp"}
Foreign == {"vm"}
Uses == {<<"power", "vm">>}

\* vbmOutErrRetry asks VBoxManage again while an object is not ready.
vbm(f) == Call(f)
checkVBoxManageVersion == vbm("return")
IsVTXDisabled == Call("return")
UpdateISOCache == Call("return")
listHostOnlyAdapters == vbm("return")

\* Whether there is a machine of that name is not asked.
PreCreateCheck(o) ==
  <<checkVBoxManageVersion>> \o When(o.vtx, <<IsVTXDisabled>>) \o <<UpdateISOCache, listHostOnlyAdapters>>

CopyIsoToMachineDir == Call("return")
getVMDiskInfo == vbm("return")
getVMInfo == vbm("return")
createDiskImage == Call("return")

\* The machine to import from is powered off and stays off.
importVM == <<vbm("ignore"), getVMDiskInfo, vbm("return"), getVMInfo, Call("return")>>

\* createvm, then the settings, one VBoxManage command each.
CreateVM(o) ==
  <<CopyIsoToMachineDir>>
    \o (IF o.import THEN importVM ELSE <<Call("return"), createDiskImage>>)
    \o <<Make("vm", "return"), vbm("return"), vbm("return"), vbm("return")>>
    \o When(o.share, <<vbm("return"), vbm("return")>>)

parseAndValidateCIDR == Call("return")
validateNoIPCollisions == Call("return")

\* An error of "hostonlyif create" is passed over: the interface may be there all the same.
createHostonlyAdapter == Ensure("hostonlyif", "ignore")
waitForNewHostOnlyNetwork == MustExist("hostonlyif", "return")
getOrCreateHostOnlyNetwork == <<createHostonlyAdapter, waitForNewHostOnlyNetwork, vbm("return")>>

\* Removes the servers of interfaces that no longer exist; none of those is in use.
removeOrphanDHCPServers == vbm("return")
addHostOnlyDHCPServer == Ensure("dhcp", "return")

setupHostOnlyNetwork ==
  <<parseAndValidateCIDR, listHostOnlyAdapters, validateNoIPCollisions>> \o getOrCreateHostOnlyNetwork
    \o <<removeOrphanDHCPServers, addHostOnlyDHCPServer, vbm("return")>>

getAvailableTCPPort == Call("return")
setPortForwarding == <<getAvailableTCPPort, vbm("ignore"), vbm("return")>>

IsVTXDisabledInTheVM == Call("return")
Wait == Reach

getHostOnlyAdapter == <<listHostOnlyAdapters, parseAndValidateCIDR, validateNoIPCollisions>>

\* After the start the interface is looked for again; if VirtualBox has spoilt it, the
\* machine is stopped, the interface mended and the machine started again.
startNew(o) ==
  <<vbm("return")>> \o setupHostOnlyNetwork \o setPortForwarding \o <<Ensure("power", "return")>>
    \o When(o.vtx, <<IsVTXDisabledInTheVM>>)
    \o <<Wait>> \o getHostOnlyAdapter
    \o Perhaps(<<Delete("power", "ok", "return", 0), vbm("return"), Ensure("power", "return"), Wait>>)

Create(o) == CreateVM(o) \o startNew(o)

Remove(o) ==
  <<EndUnless("vm", "return"), Delete("power", "ok", "return", 0), Delete("vm", "error", "return", 0)>>

GetState ==
  [running |-> "Running", paused |-> "Paused", saved |-> "Saved", poweroff |-> "Stopped",
   aborted |-> "Stopped", starting |-> "None"]

Blind == "Error"
Native ==
  [on |-> "running", off |-> "poweroff", via |-> [on |-> {"starting"}, off |-> {}, reboot |-> {}],
   other |-> {"paused", "saved"}, up |-> {"paused"}]

\* A paused machine is resumed first; then the power button, and polling while Running.
Stop ==
  <<Read>> \o IfSeen({"Paused"}, Perform("resume", "return"))
    \o <<Ask("guestoff", "return"), While("Running")>>

\* As startNew, for a machine in any state: network and port forwarding are set up again
\* only if it is off; a state that is none of the three is "not in restartable state" and
\* goes on to wait.
Start ==
  <<Read>>
    \o IfSeen({"Stopped"}, setupHostOnlyNetwork)
    \o IfSeen({"Stopped", "Saved"}, setPortForwarding \o Perform("on", "return"))
    \o IfSeen({"Paused"}, Perform("resume", "return"))
    \o <<IsVTXDisabledInTheVM, Wait>>
    \o IfSeen({"Stopped"},
              getHostOnlyAdapter \o Perhaps(Stop \o <<vbm("return")>> \o Perform("on", "return") \o <<Wait>>))
Kill == Perform("off", "return")
Restart == Stop \o Start \o <<Wait>>

Life == Lifecycle(Flags, SetConfigFromFlags, VM, [stored |-> Stored, unique |-> Unique],
                  [shared |-> Shared, foreign |-> Foreign], Uses, PreCreateCheck, Create, Remove)
Powers == PowerTable(GetState, Blind, Native, Start, Stop, Restart, Kill)
================================================================================
