-------------------------------- MODULE HyperV --------------------------------
(***************************************************************************)
(* drivers/hyperv.  The virtual machine is addressed by its name, which    *)
(* Hyper-V does not keep unique.                                            *)
(***************************************************************************)
EXTENDS DriverSteps

\* plain: no processor count, MAC address, VLAN or memory setting of its own.
Flags == [plain : BOOLEAN]
SetConfigFromFlags(o) == TRUE

VM == "vm"
Stored == {}
Unique == {}
Shared == {}
Foreign == {"vm"}
Uses == {<<"power", "vm">>}

hypervAvailable == Call("return")
isWindowsAdministrator == Call("return")
isAdministrator == Call("return")
chooseVirtualSwitch == Call("return")
UpdateISOCache == Call("return")

\* Whether there is a machine of that name is not asked.
PreCreateCheck(o) ==
  <<hypervAvailable, isAdministrator, chooseVirtualSwitch, UpdateISOCache>>

\* New-VHD, the key's tar file, Convert-VHD, Resize-VHD: files of the machine's directory.
generateDiskImage == <<isWindowsAdministrator, Call("return"), Call("return"), Call("return")>>

\* Polls for ever for an address.
waitForIP == UntilUp

\* New-VM makes a second machine of the name if there is one; the steps after it, and
\* Remove, then work on both.
Create(o) ==
  <<Call("return"), Call("return"), chooseVirtualSwitch>> \o generateDiskImage
    \o <<Ensure("vm", "return")>> \o When(~o.plain, <<Call("return")>>)
    \o <<Call("return"), Call("return"), Ensure("power", "return"), waitForIP>>

\* GetState fails if there is no machine.
Remove(o) ==
  <<MustExist("vm", "return"), Delete("power", "ok", "return", 0), Delete("vm", "error", "return", 0)>>

GetState == [Running |-> "Running", Off |-> "Stopped", Paused |-> "None"]

Blind == "None"
Native ==
  [on |-> "Running", off |-> "Off", via |-> [on |-> {}, off |-> {}, reboot |-> {}],
   other |-> {"Paused"}, up |-> {"Paused"}]

\* Polls while the state is Running.
waitStopped == While("Running")

Start == Perform("on", "return") \o <<waitForIP>>
Stop == Perform("guestoff", "return") \o <<waitStopped>>
Kill == Perform("off", "return") \o <<waitStopped>>
Restart == Stop \o Start

Life == Lifecycle(Flags, SetConfigFromFlags, VM, [stored |-> Stored, unique |-> Unique],
                  [shared |-> Shared, foreign |-> Foreign], Uses, PreCreateCheck, Create, Remove)
Powers == PowerTable(GetState, Blind, Native, Start, Stop, Restart, Kill)
================================================================================
