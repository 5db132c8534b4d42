------------------------------- MODULE SoftLayer -------------------------------
(***************************************************************************)
(* drivers/softlayer.  SSHKeyID and Id are assigned by SoftLayer.          *)
(***************************************************************************)
EXTENDS DriverSteps

\* client: endpoint, user and key are given; device: domain, region and cpu are.
Flags == [client : BOOLEAN, device : BOOLEAN, privatenet : BOOLEAN,
          publicvlan : BOOLEAN, privatevlan : BOOLEAN]

validateClientConfig(o) == o.client

validateDeviceConfig(o) ==
  /\ o.device
  /\ ~(o.privatenet /\ o.publicvlan)
  /\ o.publicvlan => o.privatevlan
  /\ o.privatevlan /\ ~o.privatenet => o.publicvlan

SetConfigFromFlags(o) == validateClientConfig(o) /\ validateDeviceConfig(o)

VM == "guest"
Stored == {"key", "guest"}
Unique == {}
Shared == {}
Foreign == {}
Uses == {}

PreCreateCheck(o) == <<>>

createSSHKey == <<Call("return"), Make("key", "return")>>

\* These three poll for ever: an error only makes them ask again.
getIP == Call("retry")
waitForStart == Call("retry")
waitForSetupTransactions == Call("retry")

Create(o) ==
  createSSHKey \o <<Make("guest", "return"), getIP, waitForStart, waitForSetupTransactions>>

\* Five attempts; SoftLayer answers with an error for a guest that is not there.
Cancel == Delete("guest", "error", "return", 0)
deleteSSHKey == Delete("key", "error", "return", 0)
Remove(o) == <<Cancel, deleteSSHKey>>

\* PowerState.
GetState == [Running |-> "Running", Halted |-> "Stopped", Paused |-> "None"]

Blind == "None"
Native ==
  [on |-> "Running", off |-> "Halted", via |-> [on |-> {}, off |-> {}, reboot |-> {}],
   other |-> {"Paused"}, up |-> {"Paused"}]

PowerOn == Ask("on", "return")
PowerOff == Ask("off", "return")
Reboot == Ask("reboot", "return")
Start == <<PowerOn>>
Stop == <<PowerOff>>
Restart == <<Reboot>>
Kill == Stop

Life == Lifecycle(Flags, SetConfigFromFlags, VM, [stored |-> Stored, unique |-> Unique],
                  [shared |-> Shared, foreign |-> Foreign], Uses, PreCreateCheck, Create, Remove)
Powers == PowerTable(GetState, Blind, Native, Start, Stop, Restart, Kill)
================================================================================
