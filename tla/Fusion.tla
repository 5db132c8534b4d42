-------------------------------- MODULE Fusion --------------------------------
(***************************************************************************)
(* drivers/vmwarefusion.  The virtual machine is a set of files in the     *)
(* machine's own directory, which goes with the record.  What is followed   *)
(* is whether it runs.                                                      *)
(***************************************************************************)
EXTENDS DriverSteps

\* drive: --vmwarefusion-configdrive-url; share: the home directory is mounted.
Flags == [drive : BOOLEAN, share : BOOLEAN]
SetConfigFromFlags(o) == TRUE

VM == "power"
Stored == {}
Unique == {}
Shared == {}
Foreign == {}
Uses == {}

UpdateISOCache == Call("return")
PreCreateCheck(o) == <<UpdateISOCache>>

vmrun(f) == Call(f)
vdiskmanager == Call("return")
executeSSHCommand == Call("return")
generateKeyBundle == Call("return")

\* The address is looked for in the DHCP configuration and leases, sixty times.
getMacAddressFromVmx == Call("return")
getIPfromVmnetConfiguration == Call("ignore")
getIPfromDHCPLease == Call("return")
GetIP == <<getMacAddressFromVmx, getIPfromVmnetConfiguration, getIPfromDHCPLease>>

Create(o) ==
  <<Call("return")>> \o When(o.drive, <<Call("return")>>) \o <<Call("return")>>
    \o <<Call("return"), vdiskmanager, Ensure("power", "return")>> \o GetIP
    \o (IF o.drive THEN <<executeSSHCommand>>
        ELSE <<generateKeyBundle, vmrun("return")>> \o When(o.share, <<vmrun("return")>>))

\* GetState says Stopped when "vmrun list" fails; deleteVM's error is not looked at.
Remove(o) ==
  <<Step("call", "", "skip", "ok", 1), Delete("power", "ok", "return", 0), vmrun("ignore")>>

GetState == [running |-> "Running", off |-> "Stopped"]

\* "vmrun list" that fails lists nothing.
Blind == "Stopped"
Native ==
  [on |-> "running", off |-> "off", via |-> [on |-> {}, off |-> {}, reboot |-> {}],
   other |-> {}, up |-> {}]

\* The result of "vmrun start" is not looked at, nor that of the mount in the guest.
Start == Perform("on", "ignore") \o <<vmrun("ignore")>>
Stop == Perform("guestoff", "return")
Kill == Perform("off", "return")
Restart == Stop \o Start

Life == Lifecycle(Flags, SetConfigFromFlags, VM, [stored |-> Stored, unique |-> Unique],
                  [shared |-> Shared, foreign |-> Foreign], Uses, PreCreateCheck, Create, Remove)
Powers == PowerTable(GetState, Blind, Native, Start, Stop, Restart, Kill)
================================================================================
